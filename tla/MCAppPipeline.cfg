CONSTANTS
  NSpecs = 2
  Scenarios <- const_Scenarios
  Types <- const_Types
  Instances = 2
SPECIFICATION FairSpec
INVARIANTS
  TypeOK
  BodyStartsReady
  FailsOnlyWithTrouble
  PassedLeavesNothing
PROPERTIES
  EverySpecEnds
\* The specs are over; the platform need not be.
CHECK_DEADLOCK FALSE
