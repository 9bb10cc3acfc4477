CONSTANTS
  Scenarios <- const_Scenarios
  MaxErrors = 2
SPECIFICATION FairSpec
INVARIANTS
  TypeOK
  NoFaultPasses
  RegisteredHasApp
  NothingLeft
PROPERTIES
  SoundPlatformPasses
  EverySpecEnds
\* A spec that has cleaned up does nothing more.
CHECK_DEADLOCK FALSE
