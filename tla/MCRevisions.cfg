CONSTANTS
  Scenarios <- const_Scenarios
  Instances = 2
  MaxErrors = 5
SPECIFICATION FairSpec
INVARIANTS
  TypeOK
  NoFaultPasses
  OnlyNewServes
PROPERTIES
  SoundPlatformPasses
  EverySpecEnds
\* A spec that has ended does nothing more.
CHECK_DEADLOCK FALSE
