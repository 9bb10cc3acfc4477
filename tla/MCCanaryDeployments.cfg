CONSTANTS
  Scenarios <- const_Scenarios
  Instances = 4
  StepTargets <- const_StepTargets
  MaxInFlight = 4
  Neighbours = TRUE
SPECIFICATION FairSpec
INVARIANTS
  TypeOK
  NoFaultPasses
  NoCallRefused
  OnlyTransientsMissed
PROPERTIES
  SoundPlatformPasses
  EverySpecEnds
CHECK_DEADLOCK FALSE
