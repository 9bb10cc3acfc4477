------------------------- MODULE AppPipelineProofs -------------------------
(***************************************************************************)
(* AppPipeline for any number of specs, process types and instances: its   *)
(* types and its three safety properties.  The inductive invariant says    *)
(* what each step of the path can count on (PathInv), whose app and whose  *)
(* deletion AfterEach deals with (AppInv, JobInv), and what an ended spec  *)
(* has to show for it (VerdictInv, ReportInv).                             *)
(***************************************************************************)
EXTENDS AppPipeline, TLAPS

CCType ==
  [package : {"none", "new", "busy", "ready", "failed"},
   build : {"none", "busy", "ready", "failed"},
   droplet : {"none", "new", "busy", "ready", "failed"},
   route : {"none", "new", "mapped"},
   current : BOOLEAN, scaled : SUBSET Types, started : BOOLEAN,
   want : {1, Instances}, running : 0..Instances]

Assembled == {"ScaleProcesses", "ScaleApp", "StartApp", "WaitForInstances", "body"}
Routing == {"CreateRoute", "InsertDestinations"}

\* What the platform needs for each step, or a wait needs to end.
StepInv ==
  /\ at = "UploadPackage" => cc.package = "new"
  /\ at = "WaitForPackageToBeReady" => cc.package \in {"busy", "ready"} \/ spec \in trouble
  /\ at = "StagePackage" => cc.package = "ready"
  /\ at = "WaitForBuildToStage" => cc.build \in {"busy", "ready"} \/ spec \in trouble
  /\ at = "GetDropletFromBuild" => cc.build = "ready"
  /\ at = "UploadFrom" => cc.droplet = "new"
  /\ at = "WaitForUpload" => cc.droplet \in {"busy", "ready"} \/ spec \in trouble
  /\ at = "InsertDestinations" => cc.route = "new"
  /\ at \in {"WaitForInstances", "body"} => cc.started

\* What stays from its step on.
KeptInv ==
  /\ cc.build = "ready" => cc.droplet = "ready"
  /\ scenario = "droplet" => cc.build = "none"
  /\ scenario = "droplet" /\ at \notin {"LookUp", "CreateApp"} \cup Routing
       => cc.route = "mapped"
  /\ at \in {"AssignDroplet", "GetProcesses"} \cup Assembled => cc.droplet = "ready"
  /\ at \in {"GetProcesses"} \cup Assembled => cc.current
  /\ at = "ScaleProcesses" => missed \/ cc.scaled \cup toScale = Types
  /\ at \in Assembled \ {"ScaleProcesses"} => missed \/ cc.scaled = Types
  /\ scenario = "package" =>
       /\ at \in Routing =>
            cc.droplet = "ready" /\ cc.current /\ (missed \/ cc.scaled = Types)
       /\ at \in Assembled \ {"ScaleProcesses"} => cc.route = "mapped"
       /\ at \in {"StartApp", "WaitForInstances", "body"} => cc.want = Instances

PathInv == mode = "spec" => StepInv /\ KeptInv

\* The deletion of an app begins in its own spec's AfterEach at the earliest.
AppInv ==
  /\ mode \in {"spec", "delete"} => job[spec] = "none"
  /\ \A k \in Specs : k > spec => job[k] = "none"
  /\ mode = "spec" /\ at \notin {"LookUp", "CreateApp"} =>
       appGUID = spec /\ app[spec] = "live"
  /\ mode = "delete" /\ verdict = "passed" => appGUID = spec /\ app[spec] = "live"

JobInv ==
  /\ mode = "job" =>
       /\ appGUID \in Specs
       /\ appGUID = spec \/ verdict = "failed"
       /\ job[appGUID] \in {"busy", "ready"} \/ spec \in trouble
  /\ \A k \in Specs : job[k] = "ready" => app[k] = "gone"

VerdictInv ==
  /\ mode = "spec" => verdict = "running"
  /\ mode \in {"delete", "job"} => verdict \in {"passed", "failed"}
  /\ verdict = "failed" => spec \in trouble

ReportInv ==
  /\ FailsOnlyWithTrouble
  /\ PassedLeavesNothing
  /\ \A k \in Specs : report[k] # "none" => k < spec \/ mode = "over"

OtherInv == AppInv /\ JobInv /\ VerdictInv /\ ReportInv
Inv == TypeOK /\ PathInv /\ OtherInv

----------------------------------------------------------------------------
\* The two kinds of steps of a running spec: it ends, or it moves along its path.
Ended ==
  /\ mode = "spec"
  /\ \E v \in {"passed", "failed"} :
       End(v) /\ (v = "failed" => spec \in trouble') /\ (v = "passed" => at = "body")
  /\ cc' \in CCType /\ job' = job
  /\ app' \in {app, [app EXCEPT ![spec] = "live"]}
  /\ trouble' \in {trouble, trouble \cup {spec}}

Moved ==
  /\ mode = "spec" /\ at \in DOMAIN After[scenario] /\ at # "CreateApp"
  /\ at' \in {at, After[scenario][at]}
  /\ UNCHANGED <<scenario, spec, mode, verdict, appGUID, report, app, job>>
  /\ cc' \in CCType /\ toScale' \subseteq Types /\ missed' \in BOOLEAN
  /\ trouble' \in {trouble, trouble \cup {spec}}

\* The steps by name.
PackageSteps ==
  {"LookUp", "CreateApp", "EnableRevisions", "CreatePackage", "UploadPackage",
   "WaitForPackageToBeReady", "StagePackage", "WaitForBuildToStage", "GetDropletFromBuild",
   "AssignDroplet", "GetProcesses", "ScaleProcesses", "CreateRoute", "InsertDestinations",
   "ScaleApp", "StartApp", "WaitForInstances"}
DropletSteps ==
  {"LookUp", "CreateApp", "CreateRoute", "InsertDestinations", "Create", "UploadFrom",
   "WaitForUpload", "AssignDroplet", "GetProcesses", "ScaleProcesses", "StartApp",
   "WaitForInstances"}

LEMMA StepNames ==
  /\ DOMAIN After["package"] = PackageSteps
  /\ DOMAIN After["droplet"] = DropletSteps
BY DEF After, PackageSteps, DropletSteps

LEMMA Facts ==
  ASSUME Inv
  PROVE  /\ cc \in CCType
         /\ \/ scenario = "package" /\ at \in PackageSteps \cup {"body"}
            \/ scenario = "droplet" /\ at \in DropletSteps \cup {"body"}
<1>1. scenario \in {"package", "droplet"}
  BY PipelineAssumption DEF Inv, TypeOK, After
<1> QED BY <1>1, StepNames DEF Inv, TypeOK, CCType

----------------------------------------------------------------------------
\* However a spec ends, what is left to AfterEach is as Inv says.
LEMMA EndKeepsInv ==
  ASSUME Inv, Ended
  PROVE  Inv'
<1> USE DEF Ended
<1>0. PICK v \in {"passed", "failed"} :
        End(v) /\ (v = "failed" => spec \in trouble') /\ (v = "passed" => at = "body")
  OBVIOUS
<1>1. TypeOK'
  BY <1>0 DEF Inv, TypeOK, End, CCType, Specs
<1>2. PathInv'
  BY <1>0 DEF PathInv, End
<1>3. AppInv'
  BY <1>0 DEF Inv, OtherInv, AppInv, End, TypeOK, Specs
<1> DEFINE others == \A k \in Specs : k # spec => app'[k] = app[k]
<1>4. others
  <2>1. app \in [Specs -> {"none", "live", "gone"}]
    BY DEF Inv, TypeOK
  <2> QED BY <2>1
<1>5. job[spec] = "none" /\ report[spec] = "none" /\ spec \in Specs
  BY DEF Inv, OtherInv, AppInv, ReportInv, TypeOK, Specs
<1> HIDE DEF others
<1>6. JobInv'
  BY <1>0, <1>4, <1>5 DEF Inv, OtherInv, JobInv, End, others, Specs
<1>7. VerdictInv'
  BY <1>0 DEF End, VerdictInv
<1>8. ReportInv'
  <2>1. \A k \in Specs : report'[k] = report[k] /\ (report[k] = "passed" => app'[k] = "gone")
    BY <1>0, <1>4, <1>5 DEF Inv, OtherInv, ReportInv, PassedLeavesNothing, End, others
  <2> QED BY <1>0, <2>1 DEF Inv, OtherInv, ReportInv, FailsOnlyWithTrouble,
     PassedLeavesNothing,
                      End, Specs
<1> QED BY <1>1, <1>2, <1>3, <1>6, <1>7, <1>8 DEF Inv, OtherInv

\* A step along the path disturbs nothing but PathInv.
LEMMA AdvanceKeepsInv ==
  ASSUME Inv, Moved, PathInv'
  PROVE  Inv'
<1> USE DEF Moved
<1>1. /\ at' \in DOMAIN After[scenario] \cup {"body"}
      /\ at = "LookUp" => at' \in {"LookUp", "CreateApp"}
  <2>1. scenario \in {"package", "droplet"}
    BY PipelineAssumption DEF Inv, TypeOK, After
  <2> QED BY <2>1 DEF After
<1>2. TypeOK'
  BY <1>1 DEF Inv, TypeOK, CCType, Specs
<1>3. AppInv'
  BY <1>1 DEF Inv, OtherInv, AppInv
<1>4. JobInv' /\ VerdictInv'
  BY DEF Inv, OtherInv, JobInv, VerdictInv
<1>5. ReportInv'
  BY DEF Inv, OtherInv, ReportInv, FailsOnlyWithTrouble, PassedLeavesNothing, VerdictInv
<1> QED BY <1>2, <1>3, <1>4, <1>5 DEF Inv, OtherInv

\* A task of the platform changes cc alone, and only as PathInv allows.
LEMMA WorkKeepsInv ==
  ASSUME Inv, UNCHANGED <<driver, app, job>>, cc' \in CCType,
         trouble' \in {trouble, trouble \cup {spec}}, PathInv'
  PROVE  Inv'
<1> USE DEF driver
<1>1. TypeOK'
  BY DEF Inv, TypeOK, CCType, Specs
<1>2. AppInv' /\ JobInv' /\ VerdictInv'
  BY DEF Inv, OtherInv, AppInv, JobInv, VerdictInv
<1>3. ReportInv'
  BY DEF Inv, OtherInv, ReportInv, FailsOnlyWithTrouble, PassedLeavesNothing
<1> QED BY <1>1, <1>2, <1>3 DEF Inv, OtherInv

----------------------------------------------------------------------------
\* The app exists and the container knows it.
LEMMA CreatedKeepsInv ==
  ASSUME Inv, CreateApp, verdict' # "failed"
  PROVE  Inv'
<1>1. /\ mode = "spec" /\ at = "CreateApp" /\ at' = After[scenario]["CreateApp"]
      /\ appGUID' = spec /\ app' = [app EXCEPT ![spec] = "live"]
      /\ UNCHANGED <<scenario, spec, mode, verdict, report, toScale, missed, trouble, cc, job>>
  BY DEF CreateApp, At, End
<1>2. /\ scenario = "package" => at' = "EnableRevisions"
      /\ scenario = "droplet" => at' = "CreateRoute"
      /\ at' \in DOMAIN After[scenario]
  BY <1>1, StepNames, Facts DEF After, PackageSteps, DropletSteps
<1>3. spec \in Specs /\ job[spec] = "none" /\ report[spec] = "none"
  BY <1>1 DEF Inv, TypeOK, OtherInv, AppInv, ReportInv, Specs
<1>4. \A k \in Specs : app'[k] = IF k = spec THEN "live" ELSE app[k]
  BY <1>1 DEF Inv, TypeOK
<1>5. TypeOK'
  BY <1>1, <1>2, <1>3 DEF Inv, TypeOK, Specs
<1>6. PathInv'
  BY <1>1, <1>2, Facts DEF Inv, PathInv, StepInv, KeptInv, Assembled, Routing
<1>7. AppInv'
  BY <1>1, <1>3, <1>4 DEF Inv, OtherInv, AppInv
<1>8. JobInv' /\ VerdictInv'
  BY <1>1, <1>3, <1>4 DEF Inv, OtherInv, JobInv, VerdictInv
<1>9. ReportInv'
  BY <1>1, <1>3, <1>4 DEF Inv, OtherInv, ReportInv, FailsOnlyWithTrouble,
     PassedLeavesNothing
<1> QED BY <1>5, <1>6, <1>7, <1>8, <1>9 DEF Inv, OtherInv

----------------------------------------------------------------------------
\* The steps up to the droplet.
LEMMA PrepareKeepsInv ==
  ASSUME Inv, Prepare
  PROVE  Inv'
<1> USE StepNames, Facts
<1>1. CASE LookUp
  <2>1. At("LookUp")
    BY <1>1 DEF LookUp, Request, At
  <2>2. \/ Ended
        \/ Moved /\ at' = "CreateApp" /\ cc' = cc
           /\ UNCHANGED <<toScale, missed, trouble>>
    BY <1>1, <2>1 DEF LookUp, Request, At, Goes, Ends, End, Advance, Troubled, Ended, Moved,
       Inv, TypeOK, CCType, After
  <2>3. CASE ~Ended
    <3>1. PathInv'
      BY <2>1, <2>2, <2>3 DEF At, Moved, PathInv, StepInv, KeptInv, Assembled, Routing,
         Inv, CCType
    <3> QED BY <2>2, <2>3, <3>1, AdvanceKeepsInv
  <2> QED BY <2>3, EndKeepsInv
<1>2. CASE EnableRevisions
  <2>1. At("EnableRevisions") /\ scenario = "package"
    BY <1>2 DEF EnableRevisions, Request, At, PackageSteps, DropletSteps
  <2>2. \/ Ended
        \/ Moved /\ at' = "CreatePackage" /\ cc' = cc
           /\ UNCHANGED <<toScale, missed, trouble>>
    BY <1>2, <2>1 DEF EnableRevisions, Request, At, Goes, Ends, End, Advance, Troubled,
       Ended, Moved,
       Inv, TypeOK, CCType, After
  <2>3. CASE ~Ended
    <3>1. PathInv'
      BY <2>1, <2>2, <2>3 DEF At, Moved, PathInv, StepInv, KeptInv, Assembled, Routing,
         Inv, CCType
    <3> QED BY <2>2, <2>3, <3>1, AdvanceKeepsInv
  <2> QED BY <2>3, EndKeepsInv
<1>3. CASE CreatePackage
  <2>1. At("CreatePackage") /\ scenario = "package"
    BY <1>3 DEF CreatePackage, Request, At, PackageSteps, DropletSteps
  <2>2. \/ Ended
        \/ Moved /\ at' = "UploadPackage" /\ cc' = [cc EXCEPT !.package = "new"]
           /\ UNCHANGED <<toScale, missed, trouble>>
    BY <1>3, <2>1 DEF CreatePackage, Request, At, Goes, Ends, End, Advance, Troubled,
       Ended, Moved,
       Inv, TypeOK, CCType, After
  <2>3. CASE ~Ended
    <3>1. PathInv'
      BY <2>1, <2>2, <2>3 DEF At, Moved, PathInv, StepInv, KeptInv, Assembled, Routing,
         Inv, CCType
    <3> QED BY <2>2, <2>3, <3>1, AdvanceKeepsInv
  <2> QED BY <2>3, EndKeepsInv
<1>4. CASE UploadPackage
  <2>1. At("UploadPackage") /\ scenario = "package" /\ cc.package = "new"
    BY <1>4 DEF UploadPackage, Request, At, Inv, PathInv, StepInv, PackageSteps,
       DropletSteps
  <2>2. \/ Ended
        \/ Moved /\ at' = "WaitForPackageToBeReady" /\ cc' = [cc EXCEPT !.package = "busy"]
           /\ UNCHANGED <<toScale, missed, trouble>>
    BY <1>4, <2>1 DEF UploadPackage, Request, At, Goes, Ends, End, Advance, Troubled,
       Ended, Moved,
       Inv, TypeOK, CCType, After
  <2>3. CASE ~Ended
    <3>1. PathInv'
      BY <2>1, <2>2, <2>3 DEF At, Moved, PathInv, StepInv, KeptInv, Assembled, Routing,
         Inv, CCType
    <3> QED BY <2>2, <2>3, <3>1, AdvanceKeepsInv
  <2> QED BY <2>3, EndKeepsInv
<1>5. CASE StagePackage
  <2>1. At("StagePackage") /\ scenario = "package" /\ cc.package = "ready"
    BY <1>5 DEF StagePackage, Request, At, Inv, PathInv, StepInv, PackageSteps, DropletSteps
  <2>2. \/ Ended
        \/ Moved /\ at' = "WaitForBuildToStage" /\ cc' = [cc EXCEPT !.build = "busy"]
           /\ UNCHANGED <<toScale, missed, trouble>>
    BY <1>5, <2>1 DEF StagePackage, Request, At, Goes, Ends, End, Advance, Troubled,
       Ended, Moved,
       Inv, TypeOK, CCType, After
  <2>3. CASE ~Ended
    <3>1. PathInv'
      BY <2>1, <2>2, <2>3 DEF At, Moved, PathInv, StepInv, KeptInv, Assembled, Routing,
         Inv, CCType
    <3> QED BY <2>2, <2>3, <3>1, AdvanceKeepsInv
  <2> QED BY <2>3, EndKeepsInv
<1>6. CASE GetDropletFromBuild
  <2>1. At("GetDropletFromBuild") /\ scenario = "package" /\ cc.build = "ready"
    BY <1>6 DEF GetDropletFromBuild, Request, At, Inv, PathInv, StepInv, PackageSteps,
       DropletSteps
  <2>2. \/ Ended
        \/ Moved /\ at' = "AssignDroplet" /\ cc' = cc
           /\ UNCHANGED <<toScale, missed, trouble>>
    BY <1>6, <2>1 DEF GetDropletFromBuild, Request, At, Goes, Ends, End, Advance,
       Troubled, Ended, Moved,
       Inv, TypeOK, CCType, After
  <2>3. CASE ~Ended
    <3>1. PathInv'
      BY <2>1, <2>2, <2>3 DEF At, Moved, PathInv, StepInv, KeptInv, Assembled, Routing,
         Inv, CCType
    <3> QED BY <2>2, <2>3, <3>1, AdvanceKeepsInv
  <2> QED BY <2>3, EndKeepsInv
<1>7. CASE Create
  <2>1. At("Create") /\ scenario = "droplet"
    BY <1>7 DEF Create, Request, At, PackageSteps, DropletSteps
  <2>2. \/ Ended
        \/ Moved /\ at' = "UploadFrom" /\ cc' = [cc EXCEPT !.droplet = "new"]
           /\ UNCHANGED <<toScale, missed, trouble>>
    BY <1>7, <2>1 DEF Create, Request, At, Goes, Ends, End, Advance, Troubled, Ended, Moved,
       Inv, TypeOK, CCType, After
  <2>3. CASE ~Ended
    <3>1. PathInv'
      BY <2>1, <2>2, <2>3 DEF At, Moved, PathInv, StepInv, KeptInv, Assembled, Routing,
         Inv, CCType
    <3> QED BY <2>2, <2>3, <3>1, AdvanceKeepsInv
  <2> QED BY <2>3, EndKeepsInv
<1>8. CASE WaitForPackageToBeReady
  <2>1. /\ At("WaitForPackageToBeReady") /\ scenario = "package"
        /\ cc.package \in {"busy", "ready"} \/ spec \in trouble
    BY <1>8 DEF WaitForPackageToBeReady, Wait, Hiccup, At, Inv, PathInv, StepInv,
       PackageSteps, DropletSteps
  <2>2. \/ Ended
        \/ Moved /\ at' = "StagePackage" /\ cc.package = "ready"
           /\ UNCHANGED <<cc, toScale, missed, trouble>>
    BY <1>8, <2>1 DEF WaitForPackageToBeReady, Wait, Hiccup, At, Goes, End, Advance,
       Troubled, Ended, Moved,
       Inv, TypeOK, CCType, After
  <2>3. CASE ~Ended
    <3>1. PathInv'
      BY <2>1, <2>2, <2>3 DEF At, Moved, PathInv, StepInv, KeptInv, Assembled, Routing, Inv
    <3> QED BY <2>2, <2>3, <3>1, AdvanceKeepsInv
  <2> QED BY <2>3, EndKeepsInv
<1>9. CASE WaitForBuildToStage
  <2>1. /\ At("WaitForBuildToStage") /\ scenario = "package"
        /\ cc.build \in {"busy", "ready"} \/ spec \in trouble
    BY <1>9 DEF WaitForBuildToStage, Wait, At, Inv, PathInv, StepInv, PackageSteps,
       DropletSteps
  <2>2. \/ Ended
        \/ Moved /\ at' = "GetDropletFromBuild" /\ cc.build = "ready"
           /\ UNCHANGED <<cc, toScale, missed, trouble>>
    BY <1>9, <2>1 DEF WaitForBuildToStage, Wait, At, Goes, End, Advance, Troubled, Ended,
       Moved,
       Inv, TypeOK, CCType, After
  <2>3. CASE ~Ended
    <3>1. PathInv'
      BY <2>1, <2>2, <2>3 DEF At, Moved, PathInv, StepInv, KeptInv, Assembled, Routing, Inv
    <3> QED BY <2>2, <2>3, <3>1, AdvanceKeepsInv
  <2> QED BY <2>3, EndKeepsInv
<1>10. CASE WaitForUpload
  <2>1. /\ At("WaitForUpload") /\ scenario = "droplet"
        /\ cc.droplet \in {"busy", "ready"} \/ spec \in trouble
    BY <1>10 DEF WaitForUpload, Wait, At, Inv, PathInv, StepInv, PackageSteps, DropletSteps
  <2>2. \/ Ended
        \/ Moved /\ at' = "AssignDroplet" /\ cc.droplet = "ready"
           /\ UNCHANGED <<cc, toScale, missed, trouble>>
    BY <1>10, <2>1 DEF WaitForUpload, Wait, At, Goes, End, Advance, Troubled, Ended, Moved,
       Inv, TypeOK, CCType, After
  <2>3. CASE ~Ended
    <3>1. PathInv'
      BY <2>1, <2>2, <2>3 DEF At, Moved, PathInv, StepInv, KeptInv, Assembled, Routing, Inv
    <3> QED BY <2>2, <2>3, <3>1, AdvanceKeepsInv
  <2> QED BY <2>3, EndKeepsInv
<1>11. CASE UploadFrom
  <2>1. At("UploadFrom") /\ scenario = "droplet" /\ cc.droplet = "new"
    BY <1>11 DEF UploadFrom, Request, At, Inv, PathInv, StepInv, PackageSteps, DropletSteps
  <2>2. \/ Ended
        \/ /\ Moved /\ at' = "WaitForUpload" /\ UNCHANGED <<toScale, missed>>
           /\ \/ cc' = [cc EXCEPT !.droplet = "busy"] /\ UNCHANGED trouble
              \/ Troubled /\ UNCHANGED cc
    BY <1>11, <2>1 DEF UploadFrom, Request, At, Goes, Ends, End, Advance, Troubled, Ended,
       Moved, Inv, TypeOK, CCType, After
  <2>3. CASE ~Ended
    <3>1. PathInv'
      BY <2>1, <2>2, <2>3 DEF At, Troubled, Moved, PathInv, StepInv, KeptInv, Assembled,
         Routing, Inv, CCType
    <3> QED BY <2>2, <2>3, <3>1, AdvanceKeepsInv
  <2> QED BY <2>3, EndKeepsInv
<1>12. CASE CreateApp
  <2>1. CASE verdict' = "failed"
    <3>1. Ended
      BY <1>12, <2>1 DEF CreateApp, At, End, Troubled, Ended, Inv, OtherInv, VerdictInv
    <3> QED BY <3>1, EndKeepsInv
  <2>2. CASE verdict' # "failed"
    BY <1>12, <2>2, CreatedKeepsInv DEF CreateApp, End
  <2> QED BY <2>1, <2>2
<1> QED BY <1>1, <1>2, <1>3, <1>4, <1>5, <1>6, <1>7, <1>8, <1>9, <1>10, <1>11, <1>12
   DEF Prepare

----------------------------------------------------------------------------
\* The steps from the droplet on.
LEMMA AssembleKeepsInv ==
  ASSUME Inv, Assemble
  PROVE  Inv'
<1> USE StepNames, Facts
<1>1. CASE AssignDroplet
  <2>1. At("AssignDroplet") /\ cc.droplet = "ready"
    BY <1>1 DEF AssignDroplet, Request, At, Inv, PathInv, KeptInv, Assembled
  <2>2. \/ Ended
        \/ Moved /\ at' = "GetProcesses" /\ cc' = [cc EXCEPT !.current = TRUE]
           /\ UNCHANGED <<toScale, missed, trouble>>
    <3>1. [cc EXCEPT !.current = TRUE] \in CCType
      BY DEF CCType
    <3>2. \/ Goes(cc.droplet = "ready", [cc EXCEPT !.current = TRUE])
          \/ Ends(cc.droplet = "ready", [cc EXCEPT !.current = TRUE])
      BY <1>1 DEF AssignDroplet, Request
    <3>3. CASE Goes(cc.droplet = "ready", [cc EXCEPT !.current = TRUE])
      BY <2>1, <3>1, <3>3 DEF At, Goes, Advance, Moved, Inv, TypeOK, After
    <3>4. CASE Ends(cc.droplet = "ready", [cc EXCEPT !.current = TRUE])
      BY <2>1, <3>1, <3>4 DEF At, Ends, End, Troubled, Ended
    <3> QED BY <3>2, <3>3, <3>4
  <2>3. CASE ~Ended
    <3>1. PathInv'
      BY <2>1, <2>2, <2>3 DEF At, Moved, PathInv, StepInv, KeptInv, Assembled, Routing,
         Inv, CCType
    <3> QED BY <2>2, <2>3, <3>1, AdvanceKeepsInv
  <2> QED BY <2>3, EndKeepsInv
<1>2. CASE ScaledAll
  <2>1. At("ScaleProcesses") /\ toScale = {}
    BY <1>2 DEF ScaledAll, At
  <2>2. \/ Ended
        \/ /\ Moved /\ cc' = cc
           /\ \/ scenario = "package" /\ at' = "CreateRoute"
              \/ scenario = "droplet" /\ at' = "StartApp"
           /\ UNCHANGED <<toScale, missed, trouble>>
    BY <1>2, <2>1 DEF ScaledAll, At, Goes, Ends, End, Advance, Troubled, Ended, Moved,
       Inv, TypeOK, CCType, After
  <2>3. CASE ~Ended
    <3>1. PathInv'
      BY <2>1, <2>2, <2>3 DEF At, Moved, PathInv, StepInv, KeptInv, Assembled, Routing,
         Inv, CCType
    <3> QED BY <2>2, <2>3, <3>1, AdvanceKeepsInv
  <2> QED BY <2>3, EndKeepsInv
<1>3. CASE CreateRoute
  <2>1. At("CreateRoute")
    BY <1>3 DEF CreateRoute, Request, At
  <2>2. \/ Ended
        \/ Moved /\ at' = "InsertDestinations" /\ cc' = [cc EXCEPT !.route = "new"]
           /\ UNCHANGED <<toScale, missed, trouble>>
    BY <1>3, <2>1 DEF CreateRoute, Request, At, Goes, Ends, End, Advance, Troubled, Ended,
       Moved,
       Inv, TypeOK, CCType, After
  <2>3. CASE ~Ended
    <3>1. PathInv'
      BY <2>1, <2>2, <2>3 DEF At, Moved, PathInv, StepInv, KeptInv, Assembled, Routing,
         Inv, CCType
    <3> QED BY <2>2, <2>3, <3>1, AdvanceKeepsInv
  <2> QED BY <2>3, EndKeepsInv
<1>4. CASE InsertDestinations
  <2>1. At("InsertDestinations") /\ cc.route = "new"
    BY <1>4 DEF InsertDestinations, Request, At, Inv, PathInv, StepInv
  <2>2. \/ Ended
        \/ /\ Moved /\ cc' = [cc EXCEPT !.route = "mapped"]
           /\ \/ scenario = "package" /\ at' = "ScaleApp"
              \/ scenario = "droplet" /\ at' = "Create"
           /\ UNCHANGED <<toScale, missed, trouble>>
    BY <1>4, <2>1 DEF InsertDestinations, Request, At, Goes, Ends, End, Advance, Troubled,
       Ended, Moved,
       Inv, TypeOK, CCType, After
  <2>3. CASE ~Ended
    <3>1. PathInv'
      BY <2>1, <2>2, <2>3 DEF At, Moved, PathInv, StepInv, KeptInv, Assembled, Routing,
         Inv, CCType
    <3> QED BY <2>2, <2>3, <3>1, AdvanceKeepsInv
  <2> QED BY <2>3, EndKeepsInv
<1>5. CASE ScaleApp
  <2>1. At("ScaleApp") /\ scenario = "package"
    BY <1>5 DEF ScaleApp, Request, At, PackageSteps, DropletSteps
  <2>2. \/ Ended
        \/ Moved /\ at' = "StartApp" /\ cc' = [cc EXCEPT !.want = Instances]
           /\ UNCHANGED <<toScale, missed, trouble>>
    BY <1>5, <2>1 DEF ScaleApp, Request, At, Goes, Ends, End, Advance, Troubled, Ended,
       Moved,
       Inv, TypeOK, CCType, After
  <2>3. CASE ~Ended
    <3>1. PathInv'
      BY <2>1, <2>2, <2>3 DEF At, Moved, PathInv, StepInv, KeptInv, Assembled, Routing,
         Inv, CCType
    <3> QED BY <2>2, <2>3, <3>1, AdvanceKeepsInv
  <2> QED BY <2>3, EndKeepsInv
<1>6. CASE StartApp
  <2>1. At("StartApp") /\ cc.current
    BY <1>6 DEF StartApp, Request, At, Inv, PathInv, KeptInv, Assembled
  <2>2. \/ Ended
        \/ Moved /\ at' = "WaitForInstances" /\ cc' = [cc EXCEPT !.started = TRUE]
           /\ UNCHANGED <<toScale, missed, trouble>>
    <3>1. [cc EXCEPT !.started = TRUE] \in CCType
      BY DEF CCType
    <3>2. \/ Goes(cc.current, [cc EXCEPT !.started = TRUE])
          \/ Ends(cc.current, [cc EXCEPT !.started = TRUE])
      BY <1>6 DEF StartApp, Request
    <3>3. CASE Goes(cc.current, [cc EXCEPT !.started = TRUE])
      BY <2>1, <3>1, <3>3 DEF At, Goes, Advance, Moved, Inv, TypeOK, After
    <3>4. CASE Ends(cc.current, [cc EXCEPT !.started = TRUE])
      BY <2>1, <3>1, <3>4 DEF At, Ends, End, Troubled, Ended
    <3> QED BY <3>2, <3>3, <3>4
  <2>3. CASE ~Ended
    <3>1. PathInv'
      BY <2>1, <2>2, <2>3 DEF At, Moved, PathInv, StepInv, KeptInv, Assembled, Routing,
         Inv, CCType
    <3> QED BY <2>2, <2>3, <3>1, AdvanceKeepsInv
  <2> QED BY <2>3, EndKeepsInv
<1>7. CASE GetProcesses
  <2>1. At("GetProcesses") /\ cc.current
    BY <1>7 DEF GetProcesses, At, Inv, PathInv, KeptInv
  <2>2. \/ Ended
        \/ /\ Moved /\ at' = "ScaleProcesses" /\ cc' = cc
           /\ \/ toScale' = Types /\ UNCHANGED <<missed, trouble>>
              \/ missed' = TRUE /\ trouble' = trouble \cup {spec} /\ UNCHANGED toScale
    <3>1. CASE Advance
      <4>1. \/ toScale' = Types /\ UNCHANGED <<missed, trouble>>
            \/ missed' = TRUE /\ Troubled /\ UNCHANGED toScale
        BY <1>7, <2>1, <3>1 DEF GetProcesses, Advance, End, At
      <4>2. UNCHANGED <<cc, app, job>>
        BY <1>7 DEF GetProcesses
      <4>3. at' = "ScaleProcesses" /\ at \in DOMAIN After[scenario] /\ at' = After[scenario][at]
        BY <2>1, <3>1 DEF At, Advance, After, PackageSteps, DropletSteps
      <4>4. toScale' \subseteq Types /\ missed' \in BOOLEAN
        BY <4>1 DEF Inv, TypeOK
      <4>5. Moved
        BY <2>1, <3>1, <4>1, <4>2, <4>3, <4>4 DEF At, Advance, Troubled, Moved
      <4> QED BY <4>1, <4>2, <4>3, <4>5 DEF Troubled
    <3>2. CASE ~Advance
      BY <1>7, <2>1, <3>2 DEF GetProcesses, At, Troubled, Ended
    <3> QED BY <3>1, <3>2
  <2>3. CASE ~Ended
    <3>1. PathInv'
      BY <2>1, <2>2, <2>3 DEF At, Moved, PathInv, StepInv, KeptInv, Assembled, Routing,
         Inv, CCType
    <3> QED BY <2>2, <2>3, <3>1, AdvanceKeepsInv
  <2> QED BY <2>3, EndKeepsInv
<1>8. CASE ScaleProcess
  <2>1. At("ScaleProcesses")
    BY <1>8 DEF ScaleProcess
  <2>2. \/ Ended
        \/ /\ Moved /\ at' = at /\ UNCHANGED <<missed, trouble>>
           /\ \E t \in toScale :
                cc' = [cc EXCEPT !.scaled = @ \cup {t}] /\ toScale' = toScale \ {t}
    <3>1. PICK t \in toScale :
            \/ /\ cc' = [cc EXCEPT !.scaled = @ \cup {t}] /\ toScale' = toScale \ {t}
               /\ UNCHANGED <<scenario, spec, at, mode, verdict, appGUID, missed, report>>
               /\ UNCHANGED <<app, job, trouble>>
            \/ Ends(TRUE, [cc EXCEPT !.scaled = @ \cup {t}])
      BY <1>8 DEF ScaleProcess
    <3>2. [cc EXCEPT !.scaled = @ \cup {t}] \in CCType
      BY DEF CCType, Inv, TypeOK
    <3> QED
      BY <2>1, <3>1, <3>2, ZenonT(60) DEF At, Ends, End, Troubled, Ended, Moved, Inv, TypeOK,
         PackageSteps,
         DropletSteps
  <2>3. CASE ~Ended
    <3>1. cc'.scaled \cup toScale' = cc.scaled \cup toScale
      BY <2>2, <2>3 DEF CCType
    <3>2. PathInv'
      BY <2>1, <2>2, <2>3, <3>1 DEF At, Moved, PathInv, StepInv, KeptInv, Assembled,
         Routing, Inv, CCType
    <3> QED BY <2>2, <2>3, <3>2, AdvanceKeepsInv
  <2> QED BY <2>3, EndKeepsInv
<1>9. CASE WaitForInstances
  <2>1. At("WaitForInstances") /\ cc.started
    BY <1>9 DEF WaitForInstances, Wait, Hiccup, At, Inv, PathInv, StepInv
  <2>2. \/ Ended
        \/ Moved /\ at' = "body" /\ UNCHANGED <<cc, toScale, missed, trouble>>
    BY <1>9, <2>1 DEF WaitForInstances, Wait, Hiccup, At, Goes, End, Advance, Troubled,
       Ended, Moved, Inv, TypeOK, CCType, After
  <2>3. CASE ~Ended
    <3>1. PathInv'
      BY <2>1, <2>2, <2>3 DEF At, Moved, PathInv, StepInv, KeptInv, Assembled, Routing, Inv
    <3> QED BY <2>2, <2>3, <3>1, AdvanceKeepsInv
  <2> QED BY <2>3, EndKeepsInv
<1>10. CASE Body
  <2>1. Ended
    BY <1>10 DEF Body, At, Troubled, Ended
  <2> QED BY <2>1, EndKeepsInv
<1> QED BY <1>1, <1>2, <1>3, <1>4, <1>5, <1>6, <1>7, <1>8, <1>9, <1>10 DEF Assemble

----------------------------------------------------------------------------
\* AfterEach.
LEMMA FinishKeepsInv ==
  ASSUME Inv, mode \in {"delete", "job"}, NEW v \in {"passed", "failed"}, Finish(v),
         job' = job \/ (Known /\ job' = Deletion),
         trouble' \in {trouble, trouble \cup {spec}},
         v = "failed" => spec \in trouble',
         v = "passed" => verdict = "passed" /\ app[spec] = "gone"
  PROVE  Inv'
<1>1. /\ spec \in Specs /\ NSpecs \in Nat /\ NSpecs # 0
      /\ report[spec] \in {"none", "passed", "failed"}
  BY PipelineAssumption DEF Inv, TypeOK, Specs
<1>2. app' = app /\ appGUID' = appGUID /\ scenario' = scenario
  BY DEF Finish
<1>3. \A k \in Specs : report'[k] = IF k = spec THEN v ELSE report[k]
  BY DEF Finish, Inv, TypeOK
<1>4. \A k \in Specs : job'[k] = job[k] \/ (k \leq spec /\ job'[k] = "busy")
  BY <1>1 DEF Deletion, Inv, TypeOK, Specs
<1>5. \/ /\ spec < NSpecs /\ spec' = spec + 1 /\ at' = "LookUp" /\ mode' = "spec"
         /\ verdict' = "running" /\ toScale' = {} /\ missed' = FALSE /\ cc' = Fresh
      \/ /\ spec = NSpecs /\ mode' = "over"
         /\ UNCHANGED <<spec, at, verdict, toScale, missed, cc>>
  BY <1>1 DEF Finish, Specs
<1>6. Fresh \in CCType
  BY PipelineAssumption DEF Fresh, CCType
<1>7. TypeOK'
  <2>1. "LookUp" \in DOMAIN After[scenario]
    BY StepNames, Facts DEF PackageSteps, DropletSteps
  <2>2. /\ report' \in [Specs -> {"none", "passed", "failed"}]
        /\ job' \in [Specs -> {"none", "busy", "ready", "failed"}]
    BY DEF Finish, Deletion, Inv, TypeOK
  <2>3. cc' \in CCType
    BY <1>5, <1>6, Facts
  <2>4. spec' \in Specs /\ appGUID' \in 0..spec' /\ trouble' \subseteq Specs
    BY <1>1, <1>2, <1>5 DEF Inv, TypeOK, Specs
  <2>5. /\ toScale' \subseteq Types /\ missed' \in BOOLEAN /\ mode' \in {"spec", "over"}
        /\ verdict' \in {"running", "passed", "failed"}
        /\ at' \in DOMAIN After[scenario] \cup {"body"}
    BY <1>5, <2>1 DEF Inv, TypeOK
  <2> QED BY <1>2, <2>2, <2>3, <2>4, <2>5 DEF Inv, TypeOK, CCType
<1>8. PathInv'
  BY <1>2, <1>5 DEF PathInv, StepInv, KeptInv, Fresh, Assembled, Routing
<1>9. AppInv'
  BY <1>1, <1>2, <1>4, <1>5 DEF Inv, TypeOK, OtherInv, AppInv, Specs
<1>10. JobInv' /\ VerdictInv'
  BY <1>2, <1>4, <1>5 DEF Inv, OtherInv, JobInv, VerdictInv
<1>11. FailsOnlyWithTrouble'
  <2>1. \A k \in Specs : report'[k] = "failed" => k \in trouble'
    BY <1>3 DEF Inv, OtherInv, ReportInv, FailsOnlyWithTrouble
  <2>2. verdict' = "failed" => spec' \in trouble'
    BY <1>5 DEF Inv, OtherInv, VerdictInv
  <2> QED BY <2>1, <2>2 DEF FailsOnlyWithTrouble, Specs
<1>12. ReportInv'
  <2>1. PassedLeavesNothing'
    BY <1>2, <1>3 DEF Inv, OtherInv, ReportInv, PassedLeavesNothing, Specs
  <2>2. \A k \in Specs : report'[k] # "none" => k < spec' \/ mode' = "over"
    BY <1>1, <1>3, <1>5 DEF Inv, OtherInv, ReportInv, Specs
  <2> QED BY <1>11, <2>1, <2>2 DEF ReportInv, Specs
<1> QED BY <1>7, <1>8, <1>9, <1>10, <1>12 DEF Inv, OtherInv

LEMMA DeleteAppKeepsInv ==
  ASSUME Inv, DeleteApp
  PROVE  Inv'
<1>1. spec \in Specs /\ mode = "delete" /\ verdict \in {"passed", "failed"}
      /\ (verdict = "failed" => spec \in trouble)
  BY DEF DeleteApp, Inv, TypeOK, OtherInv, VerdictInv
<1>2. CASE mode' = "job" /\ Known /\ job' = Deletion
           /\ UNCHANGED <<scenario, spec, at, verdict, appGUID, toScale, missed, report>>
           /\ UNCHANGED <<cc, app, trouble>>
  <2>1. \A k \in Specs : job'[k] = IF k = appGUID THEN "busy" ELSE job[k]
    BY <1>2 DEF Deletion, Inv, TypeOK
  <2>2. appGUID \in Specs /\ app[appGUID] = "live"
    BY <1>2 DEF Known
  <2>3. TypeOK'
    <3>1. job' \in [Specs -> {"none", "busy", "ready", "failed"}]
      BY <1>2 DEF Deletion, Inv, TypeOK
    <3> QED BY <1>2, <3>1 DEF Inv, TypeOK, Specs
  <2>4. PathInv'
    BY <1>2 DEF PathInv
  <2>5. AppInv'
    BY <1>1, <1>2, <2>1, <2>2 DEF Inv, TypeOK, OtherInv, AppInv, Specs
  <2>6. appGUID = spec \/ verdict = "failed"
    BY <1>1 DEF Inv, OtherInv, AppInv, JobInv, VerdictInv
  <2>7. JobInv'
    BY <1>2, <2>1, <2>2, <2>6 DEF Inv, OtherInv, JobInv, Specs
  <2>8. VerdictInv' /\ ReportInv'
    BY <1>1, <1>2 DEF Inv, OtherInv, VerdictInv, ReportInv, FailsOnlyWithTrouble,
       PassedLeavesNothing, Specs
  <2> QED BY <2>3, <2>4, <2>5, <2>7, <2>8 DEF Inv, OtherInv
<1>3. CASE Finish("failed") /\ ~Known /\ UNCHANGED <<job, trouble>>
  <2>1. spec \in trouble
    BY <1>1, <1>3 DEF Known, Inv, OtherInv, AppInv
  <2> QED BY <1>1, <1>3, <2>1, FinishKeepsInv
<1>4. CASE Finish("failed") /\ Troubled /\ UNCHANGED job
  BY <1>1, <1>4, FinishKeepsInv DEF Troubled
<1>5. CASE Finish("failed") /\ Troubled /\ Known /\ job' = Deletion
  BY <1>1, <1>5, FinishKeepsInv DEF Troubled, Known
<1> QED BY <1>2, <1>3, <1>4, <1>5 DEF DeleteApp

LEMMA PollJobKeepsInv ==
  ASSUME Inv, PollJob
  PROVE  Inv'
<1>1. /\ mode = "job" /\ job' = job /\ verdict \in {"passed", "failed"}
      /\ verdict = "failed" => spec \in trouble
      /\ appGUID = spec \/ verdict = "failed"
      /\ appGUID \in Specs /\ (job[appGUID] \in {"busy", "ready"} \/ spec \in trouble)
      /\ job[appGUID] = "ready" => app[appGUID] = "gone"
  BY DEF PollJob, Inv, OtherInv, JobInv, VerdictInv
<1>2. CASE job[appGUID] = "ready" /\ Finish(verdict) /\ UNCHANGED trouble
  BY <1>1, <1>2, FinishKeepsInv
<1>3. CASE /\ job[appGUID] # "ready" /\ Finish("failed")
           /\ IF job[appGUID] = "busy" THEN Troubled ELSE UNCHANGED trouble
  <2>1. trouble' \in {trouble, trouble \cup {spec}} /\ spec \in trouble'
    BY <1>1, <1>3 DEF Troubled
  <2> QED BY <1>1, <1>3, <2>1, FinishKeepsInv
<1> QED BY <1>2, <1>3 DEF PollJob

----------------------------------------------------------------------------
\* The platform.
LEMMA PlatformKeepsInv ==
  ASSUME Inv, Platform
  PROVE  Inv'
<1> USE Facts
<1>1. ASSUME NEW f \in {"package", "droplet"}, Works(f)
      PROVE  Inv'
  <2>1. cc' \in CCType
    BY <1>1 DEF Works, CCType
  <2>2. /\ UNCHANGED <<driver, app, job>> /\ trouble' \in {trouble, trouble \cup {spec}}
        /\ \/ cc' = [cc EXCEPT ![f] = "ready"]
           \/ cc' = [cc EXCEPT ![f] = "failed"] /\ spec \in trouble'
    BY <1>1 DEF Works, Troubled
  <2>3. PathInv'
    <3>1. CASE f = "package"
      BY <1>1, <2>2, <3>1 DEF Works, driver, CCType, Inv, PathInv, StepInv, KeptInv,
         Assembled, Routing
    <3>2. CASE f = "droplet"
      BY <1>1, <2>2, <3>2 DEF Works, driver, CCType, Inv, PathInv, StepInv, KeptInv,
         Assembled, Routing
    <3> QED BY <1>1, <3>1, <3>2
  <2> QED BY <2>1, <2>2, <2>3, WorkKeepsInv
<1>2. CASE Stage
  <2>1. /\ cc' \in CCType /\ UNCHANGED <<driver, app, job>>
        /\ trouble' \in {trouble, trouble \cup {spec}}
    BY <1>2 DEF Stage, Troubled, CCType
  <2>2. cc.build = "busy" /\ UNCHANGED driver
    BY <1>2 DEF Stage
  <2>3. CASE cc' = [cc EXCEPT !.build = "ready", !.droplet = "ready"] /\ UNCHANGED trouble
    <3>1. /\ cc'.build = "ready" /\ cc'.droplet = "ready" /\ cc'.package = cc.package
          /\ cc'.route = cc.route /\ cc'.current = cc.current /\ cc'.scaled = cc.scaled
          /\ cc'.started = cc.started /\ cc'.want = cc.want
      BY <2>3 DEF CCType
    <3>2. mode = "spec" => scenario # "droplet" /\ at # "UploadFrom"
      BY <2>2 DEF Inv, PathInv, KeptInv, PackageSteps
    <3>3. mode = "spec" => StepInv'
      BY <2>2, <2>3, <3>1, <3>2 DEF driver, Inv, PathInv, StepInv
    <3>4. mode = "spec" => KeptInv'
      BY <2>2, <2>3, <3>1, <3>2 DEF driver, Inv, PathInv, KeptInv, Assembled, Routing
    <3>5. PathInv'
      BY <2>2, <3>3, <3>4 DEF driver, PathInv
    <3> QED BY <2>1, <3>5, WorkKeepsInv
  <2>4. CASE cc' = [cc EXCEPT !.build = "failed"] /\ Troubled
    <3>1. PathInv'
      BY <2>2, <2>4 DEF Troubled, driver, CCType, Inv, PathInv, StepInv, KeptInv,
         Assembled, Routing
    <3> QED BY <2>1, <3>1, WorkKeepsInv
  <2> QED BY <1>2, <2>3, <2>4 DEF Stage
<1>3. CASE RunInstance \/ Crash
  <2>1. PICK n \in {cc.running + 1, cc.running - 1} :
          cc' = [cc EXCEPT !.running = n] /\ n \in 0..Instances
    BY <1>3, PipelineAssumption DEF RunInstance, Crash, CCType
  <2>2. /\ UNCHANGED <<driver, app, job>> /\ trouble \subseteq trouble'
        /\ trouble' \in {trouble, trouble \cup {spec}}
    BY <1>3 DEF RunInstance, Crash, Troubled
  <2>3. cc' \in CCType
    BY <2>1 DEF CCType
  <2>4. PathInv'
    BY <2>1, <2>2 DEF driver, CCType, Inv, PathInv, StepInv, KeptInv, Assembled, Routing
  <2> QED BY <2>2, <2>3, <2>4, WorkKeepsInv
<1>4. ASSUME NEW k \in Specs, WorkJob(k)
      PROVE  Inv'
  <2>1. /\ job[k] = "busy" /\ UNCHANGED <<driver, cc>> /\ trouble \subseteq trouble'
        /\ trouble' \in {trouble, trouble \cup {spec}}
        /\ job' \in [Specs -> {"none", "busy", "ready", "failed"}]
        /\ app' \in [Specs -> {"none", "live", "gone"}]
    BY <1>4 DEF WorkJob, Troubled, Inv, TypeOK
  <2>2. /\ \A j \in Specs : j # k => job'[j] = job[j] /\ app'[j] = app[j]
        /\ app'[k] \in {app[k], "gone"} /\ job'[k] \in {"ready", "failed"}
        /\ job'[k] = "ready" => app'[k] = "gone"
        /\ job'[k] = "failed" /\ mode = "job" /\ k = appGUID => spec \in trouble'
    BY <1>4, <2>1 DEF WorkJob, Troubled, Inv, TypeOK
  <2>3. k < spec \/ (k = spec /\ mode \notin {"spec", "delete"})
    BY <1>4, <2>1 DEF Inv, TypeOK, OtherInv, AppInv, Specs
  <2>4. TypeOK'
    BY <2>1 DEF driver, Inv, TypeOK, Specs
  <2>5. PathInv'
    BY <2>1 DEF driver, Inv, PathInv, StepInv, KeptInv
  <2>6. AppInv'
    BY <2>1, <2>2, <2>3 DEF driver, Inv, TypeOK, OtherInv, AppInv, Specs
  <2>7. JobInv'
    BY <2>1, <2>2 DEF driver, Inv, OtherInv, JobInv, Specs
  <2>8. VerdictInv' /\ ReportInv'
    BY <2>1, <2>2 DEF driver, Inv, OtherInv, VerdictInv, ReportInv, FailsOnlyWithTrouble,
       PassedLeavesNothing, Specs
  <2> QED BY <2>4, <2>5, <2>6, <2>7, <2>8 DEF Inv, OtherInv
<1> QED BY <1>1, <1>2, <1>3, <1>4 DEF Platform, ProcessBits

----------------------------------------------------------------------------
LEMMA InitInv == Init => Inv
<1> SUFFICES ASSUME Init PROVE Inv
  OBVIOUS
<1>1. Fresh \in CCType
  BY PipelineAssumption DEF Fresh, CCType
<1>2. TypeOK
  <2>1. scenario \in {"package", "droplet"}
    BY PipelineAssumption DEF Init, After
  <2>2. "LookUp" \in DOMAIN After[scenario]
    BY <2>1, StepNames DEF PackageSteps, DropletSteps
  <2>3. 1 \in Specs
    BY PipelineAssumption DEF Specs
  <2>4. cc \in CCType /\ missed \in BOOLEAN
    BY <1>1 DEF Init
  <2>5. /\ app \in [Specs -> {"none", "live", "gone"}]
        /\ job \in [Specs -> {"none", "busy", "ready", "failed"}]
        /\ report \in [Specs -> {"none", "passed", "failed"}]
    BY DEF Init
  <2> QED BY <2>2, <2>3, <2>4, <2>5 DEF Init, TypeOK, CCType
<1>3. PathInv
  BY DEF Init, PathInv, StepInv, KeptInv, Fresh, Assembled, Routing
<1>4. OtherInv
  BY PipelineAssumption DEF Init, OtherInv, AppInv, JobInv, VerdictInv, ReportInv,
     FailsOnlyWithTrouble, PassedLeavesNothing, Specs
<1> QED BY <1>2, <1>3, <1>4 DEF Inv

LEMMA NextInv == Inv /\ [Next]_vars => Inv'
<1> SUFFICES ASSUME Inv, [Next]_vars PROVE Inv'
  OBVIOUS
<1>1. CASE Next
  BY <1>1, PrepareKeepsInv, AssembleKeepsInv, DeleteAppKeepsInv, PollJobKeepsInv,
     PlatformKeepsInv DEF Next, Driver
<1>2. CASE UNCHANGED vars
  BY <1>2 DEF vars, driver, Inv, TypeOK, Specs, PathInv, StepInv, KeptInv, OtherInv, AppInv,
     JobInv, VerdictInv, ReportInv, FailsOnlyWithTrouble, PassedLeavesNothing
<1> QED BY <1>1, <1>2

THEOREM PipelineInvariant == Spec => []Inv
BY InitInv, NextInv, PTL DEF Spec

(* Every reachable state is well typed.                                            *)
THEOREM PipelineTypeCorrect == Spec => []TypeOK
<1>1. Inv => TypeOK
  BY DEF Inv
<1> QED BY <1>1, PipelineInvariant, PTL

(* The lines of a spec begin with its own app, assembled (revisions.go:30-57).     *)
THEOREM SpecsStartReady == Spec => []BodyStartsReady
<1>1. Inv => BodyStartsReady
  BY Facts DEF Inv, OtherInv, AppInv, PathInv, StepInv, KeptInv, Assembled, Routing,
     BodyStartsReady, At
<1> QED BY <1>1, PipelineInvariant, PTL

(* No spec fails by the order of its calls or by what another one left behind.     *)
THEOREM FailuresHaveACause == Spec => []FailsOnlyWithTrouble
<1>1. Inv => FailsOnlyWithTrouble
  BY DEF Inv, OtherInv, ReportInv
<1> QED BY <1>1, PipelineInvariant, PTL

(* A passed spec's app is gone (app.go:73-75, job.go:18-23).                        *)
THEOREM PassedSpecsCleanUp == Spec => []PassedLeavesNothing
<1>1. Inv => PassedLeavesNothing
  BY DEF Inv, OtherInv, ReportInv
<1> QED BY <1>1, PipelineInvariant, PTL
=============================================================================
