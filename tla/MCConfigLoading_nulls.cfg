CONSTANTS
  unreadable = unreadable
  MaxLoads = 2
  Files <- const_AllNull
  Unreadable = unreadable
SPECIFICATION Spec
INVARIANTS
  NullsAreReported
CHECK_DEADLOCK FALSE
