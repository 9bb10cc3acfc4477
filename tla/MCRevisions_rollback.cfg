CONSTANTS
  Scenarios <- const_Rollbacks
  Instances = 2
  MaxErrors = 5
SPECIFICATION Spec
INVARIANTS
  RollbackRecordsAll
\* A spec that has ended does nothing more.
CHECK_DEADLOCK FALSE
