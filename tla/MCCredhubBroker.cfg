CONSTANTS
  b1 = b1
  b2 = b2
  Bindings <- const_Bindings
  AppBindings <- const_AppBindings
  Times <- const_Times
SPECIFICATION Spec
INVARIANTS
  TypeOK
  BoundHasCredential
  UnbindDeletes
  ForgottenNeedsDeath
\* The broker may have no request left and nothing to unbind.
CHECK_DEADLOCK FALSE
