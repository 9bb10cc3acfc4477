CONSTANTS
  Scenarios <- const_WorkerScenarios
  Instances = 4
  StepTargets <- const_StepTargets
  MaxInFlight = 4
  Neighbours = TRUE
SPECIFICATION Spec
INVARIANTS
  WorkerRestarted
CHECK_DEADLOCK FALSE
