------------------------ MODULE MCCanaryDeployments ------------------------
(* Every deployment spec, with the four instances, the four weighted steps   *)
(* and the max_in_flight of 4 that baras/deployments.go uses.                *)
EXTENDS CanaryDeployments

const_Scenarios == Specs
const_WorkerScenarios == {"continue", "steps"}
const_StepTargets == <<1, 2, 3, 4>>
=============================================================================
