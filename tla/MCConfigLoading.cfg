CONSTANTS
  unreadable = unreadable
  MaxLoads = 2
  Files <- const_Files
  Unreadable = unreadable
SPECIFICATION Spec
INVARIANTS
  TypeOK
  LoadsAreFunctional
PROPERTIES
  ConfigsStayPut
CHECK_DEADLOCK FALSE
