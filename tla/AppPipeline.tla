---------------------------- MODULE AppPipeline ----------------------------
(***************************************************************************)
(* What the specs of one container do around their own lines: create an    *)
(* app, give it a droplet (staged from a package, or uploaded), map a      *)
(* route, start it, wait, and delete it in AfterEach, all with the v3      *)
(* helpers.  The specs run one after the other in one Ginkgo process and   *)
(* share the container's variables: appGUID keeps the GUID of the spec     *)
(* before until CreateApp returns.                                         *)
(*                                                                         *)
(* A request is carried out and answered, refused, or carried out with its *)
(* answer lost.  What the spec makes of that depends on the helper: with   *)
(* "curl -f" and a checked exit or body it ends there, without them it     *)
(* goes on with what it has.  Between requests the Cloud Controller        *)
(* processes uploads, stages builds, runs instances and works off jobs,    *)
(* each of which may fail; it is not in this repository, and its actions   *)
(* are what the specs take it to do.                                       *)
(***************************************************************************)
EXTENDS Integers

CONSTANTS
  NSpecs,     \* specs of the container that run in this process
  Scenarios,  \* how their apps get a droplet
  Types,      \* the process types of the droplet
  Instances   \* what ScaleApp asks for

\* The step after each: revisions.go:30-57 and droplets.go:25-34, 67-80.
\* "body" is the rest of the spec.
After == [
  package |-> [LookUp |-> "CreateApp", CreateApp |-> "EnableRevisions",
               EnableRevisions |-> "CreatePackage", CreatePackage |-> "UploadPackage",
               UploadPackage |-> "WaitForPackageToBeReady",
               WaitForPackageToBeReady |-> "StagePackage",
               StagePackage |-> "WaitForBuildToStage",
               WaitForBuildToStage |-> "GetDropletFromBuild",
               GetDropletFromBuild |-> "AssignDroplet", AssignDroplet |-> "GetProcesses",
               GetProcesses |-> "ScaleProcesses", ScaleProcesses |-> "CreateRoute",
               CreateRoute |-> "InsertDestinations", InsertDestinations |-> "ScaleApp",
               ScaleApp |-> "StartApp", StartApp |-> "WaitForInstances",
               WaitForInstances |-> "body"],
  droplet |-> [LookUp |-> "CreateApp", CreateApp |-> "CreateRoute",
               CreateRoute |-> "InsertDestinations", InsertDestinations |-> "Create",
               Create |-> "UploadFrom", UploadFrom |-> "WaitForUpload",
               WaitForUpload |-> "AssignDroplet", AssignDroplet |-> "GetProcesses",
               GetProcesses |-> "ScaleProcesses", ScaleProcesses |-> "StartApp",
               StartApp |-> "WaitForInstances", WaitForInstances |-> "body"]]

ASSUME PipelineAssumption ==
  /\ NSpecs \in Nat \ {0}
  /\ Scenarios \subseteq DOMAIN After
  /\ Instances \in Nat \ {0}

VARIABLES
  scenario,   \* chosen once
  spec,       \* the spec that runs
  at,         \* its step
  mode,       \* "spec", AfterEach's "delete" and "job", "over"
  verdict,    \* of the spec that runs: "running", "passed", "failed"
  appGUID,    \* the container's variable, 0 is the empty string
  toScale,    \* the process types AssignDropletToApp still has to scale
  missed,     \* GetProcesses read an error as an app without processes
  cc,         \* what the current spec has made in the Cloud Controller
  app,        \* each spec's app
  job,        \* the last deletion of each app
  report,     \* how each spec ended, its AfterEach included
  trouble     \* specs that met a failure, or a platform too slow for a wait

driver == <<scenario, spec, at, mode, verdict, appGUID, toScale, missed, report>>
vars == <<driver, cc, app, job, trouble>>

Specs == 1..NSpecs

\* A package and an uploaded droplet are "new" until they get their bits; what the
\* platform works at is "busy".
Fresh == [package |-> "none", build |-> "none", droplet |-> "none", route |-> "none",
          current |-> FALSE, scaled |-> {}, started |-> FALSE, want |-> 1, running |-> 0]

TypeOK ==
  /\ scenario \in Scenarios
  /\ spec \in Specs
  /\ at \in DOMAIN After[scenario] \cup {"body"}
  /\ mode \in {"spec", "delete", "job", "over"}
  /\ verdict \in {"running", "passed", "failed"}
  /\ appGUID \in 0..spec
  /\ toScale \subseteq Types
  /\ missed \in BOOLEAN
  /\ cc \in [package : {"none", "new", "busy", "ready", "failed"},
             build : {"none", "busy", "ready", "failed"},
             droplet : {"none", "new", "busy", "ready", "failed"},
             route : {"none", "new", "mapped"},
             current : BOOLEAN, scaled : SUBSET Types, started : BOOLEAN,
             want : {1, Instances}, running : 0..Instances]
  /\ app \in [Specs -> {"none", "live", "gone"}]
  /\ job \in [Specs -> {"none", "busy", "ready", "failed"}]
  /\ report \in [Specs -> {"none", "passed", "failed"}]
  /\ trouble \subseteq Specs

Init ==
  /\ scenario \in Scenarios
  /\ spec = 1 /\ at = "LookUp" /\ mode = "spec" /\ verdict = "running" /\ appGUID = 0
  /\ toScale = {} /\ missed = FALSE
  /\ cc = Fresh
  /\ app = [k \in Specs |-> "none"]
  /\ job = [k \in Specs |-> "none"]
  /\ report = [k \in Specs |-> "none"]
  /\ trouble = {}

----------------------------------------------------------------------------
\* The spec's thread.

At(s) == mode = "spec" /\ at = s

Advance ==
  /\ at' = After[scenario][at]
  /\ UNCHANGED <<scenario, spec, mode, verdict, appGUID, report>>

\* An Expect that does not hold, or a wait that times out, ends the spec, and
\* AfterEach runs.
End(v) ==
  /\ verdict' = v /\ mode' = "delete"
  /\ UNCHANGED <<scenario, spec, at, appGUID, report, toScale, missed>>

Troubled == trouble' = trouble \cup {spec}

\* The spec ends on a request: the platform refuses what it is not ready for, and
\* anything may fail, before or after it has been carried out.
Ends(needs, done) ==
  /\ End("failed")
  /\ UNCHANGED <<app, job>>
  /\ \/ ~needs /\ UNCHANGED <<cc, trouble>>
     \/ Troubled /\ UNCHANGED cc
     \/ Troubled /\ needs /\ cc' = done

Goes(needs, done) ==
  /\ needs
  /\ Advance
  /\ cc' = done
  /\ UNCHANGED <<toScale, missed, app, job, trouble>>

Request(s, needs, done) == At(s) /\ (Goes(needs, done) \/ Ends(needs, done))

\* Eventually: a poll that does not find the state is no step.  A timeout blames
\* the platform only when it was still at work.
Wait(s, found, busy) ==
  /\ At(s)
  /\ \/ Goes(found, cc)
     \/ /\ ~found
        /\ End("failed")
        /\ IF busy THEN Troubled ELSE UNCHANGED trouble
        /\ UNCHANGED <<cc, app, job>>

\* A poll whose request fails ends the spec where the polled function asserts it.
Hiccup(s) ==
  /\ At(s)
  /\ End("failed")
  /\ Troubled
  /\ UNCHANGED <<cc, app, job>>

LookUp == Request("LookUp", TRUE, cc)

CreateApp ==
  /\ At("CreateApp")
  /\ \/ /\ at' = After[scenario][at]
        /\ appGUID' = spec
        /\ app' = [app EXCEPT ![spec] = "live"]
        /\ UNCHANGED <<scenario, spec, mode, verdict, report, toScale, missed, trouble>>
     \/ /\ End("failed")
        /\ Troubled
        /\ app' \in {app, [app EXCEPT ![spec] = "live"]}
  /\ UNCHANGED <<cc, job>>

EnableRevisions == Request("EnableRevisions", TRUE, cc)

CreatePackage == Request("CreatePackage", TRUE, [cc EXCEPT !.package = "new"])

UploadPackage ==
  Request("UploadPackage", cc.package = "new", [cc EXCEPT !.package = "busy"])

\* Faulty: a package that has been uploaded is taken for ready.
WaitForPackageBusyOrReady ==
  Wait("WaitForPackageToBeReady", cc.package \in {"busy", "ready"}, cc.package = "busy")

\* Does not look for FAILED: a package that failed is waited for until the timeout.
WaitForPackageToBeReady ==
  \/ Wait("WaitForPackageToBeReady", cc.package = "ready", cc.package = "busy")
  \/ Hiccup("WaitForPackageToBeReady")

StagePackage == Request("StagePackage", cc.package = "ready", [cc EXCEPT !.build = "busy"])

\* The build that failed ends it at once or, polled no more, by the timeout.
WaitForBuildToStage ==
  Wait("WaitForBuildToStage", cc.build = "ready", cc.build = "busy")

GetDropletFromBuild == Request("GetDropletFromBuild", cc.build = "ready", cc)

Create == Request("Create", TRUE, [cc EXCEPT !.droplet = "new"])

\* curl without -f: an HTTP error has exit 0, and the link to poll is then empty.
UploadFrom ==
  \/ Request("UploadFrom", cc.droplet = "new", [cc EXCEPT !.droplet = "busy"])
  \/ /\ At("UploadFrom")
     /\ Advance
     /\ IF cc.droplet = "new" THEN Troubled ELSE UNCHANGED trouble
     /\ UNCHANGED <<toScale, missed, cc, app, job>>

WaitForUpload == Wait("WaitForUpload", cc.droplet = "ready", cc.droplet = "busy")

\* AssignDropletToApp is the PATCH, the list of processes, and a loop over it.
AssignDroplet ==
  Request("AssignDroplet", cc.droplet = "ready", [cc EXCEPT !.current = TRUE])

\* curl without -f: an error is valid JSON without resources, hence an empty list.
GetProcesses ==
  /\ At("GetProcesses")
  /\ UNCHANGED <<cc, app, job>>
  /\ \/ /\ Advance
        /\ toScale' = IF cc.current THEN Types ELSE {}
        /\ UNCHANGED <<missed, trouble>>
     \/ Advance /\ Troubled /\ missed' = TRUE /\ UNCHANGED toScale
     \/ End("failed") /\ Troubled

ScaleProcess ==
  /\ At("ScaleProcesses")
  /\ \E t \in toScale :
       LET done == [cc EXCEPT !.scaled = @ \cup {t}] IN
       \/ /\ cc' = done
          /\ toScale' = toScale \ {t}
          /\ UNCHANGED <<scenario, spec, at, mode, verdict, appGUID, missed, report>>
          /\ UNCHANGED <<app, job, trouble>>
       \/ Ends(TRUE, done)

\* Faulty: a return inside the loop over the processes.
ScaledSome == At("ScaleProcesses") /\ cc.scaled # {} /\ Goes(TRUE, cc)

ScaledAll == At("ScaleProcesses") /\ toScale = {} /\ Goes(TRUE, cc)

CreateRoute == Request("CreateRoute", TRUE, [cc EXCEPT !.route = "new"])

InsertDestinations ==
  Request("InsertDestinations", cc.route = "new", [cc EXCEPT !.route = "mapped"])

ScaleApp == Request("ScaleApp", TRUE, [cc EXCEPT !.want = Instances])

StartApp == Request("StartApp", cc.current, [cc EXCEPT !.started = TRUE])

WaitForInstances ==
  \/ Wait("WaitForInstances", cc.started /\ cc.running = cc.want, cc.started)
  \/ Hiccup("WaitForInstances")

\* What the spec is about: it passes, or the platform fails it.
Body ==
  /\ At("body")
  /\ \/ End("passed") /\ UNCHANGED trouble
     \/ End("failed") /\ Troubled
  /\ UNCHANGED <<cc, app, job>>

\* Faulty: the specs do not stop at the last one.
FinishAndGoOn(v) ==
  /\ report' = [report EXCEPT ![spec] = v]
  /\ spec' = spec + 1 /\ at' = "LookUp" /\ mode' = "spec" /\ verdict' = "running"
  /\ toScale' = {} /\ missed' = FALSE /\ cc' = Fresh
  /\ UNCHANGED <<scenario, appGUID, app>>

\* The spec and its AfterEach are over; the next one finds the container's variables
\* as they are.
Finish(v) ==
  /\ report' = [report EXCEPT ![spec] = v]
  /\ IF spec < NSpecs
     THEN /\ spec' = spec + 1 /\ at' = "LookUp" /\ mode' = "spec" /\ verdict' = "running"
          /\ toScale' = {} /\ missed' = FALSE /\ cc' = Fresh
     ELSE mode' = "over" /\ UNCHANGED <<spec, at, verdict, toScale, missed, cc>>
  /\ UNCHANGED <<scenario, appGUID, app>>

Known == appGUID \in Specs /\ app[appGUID] = "live"
Deletion == [job EXCEPT ![appGUID] = "busy"]

\* DELETE answers 202 with a job, or 404 for an app that is gone or has no GUID.
DeleteApp ==
  /\ mode = "delete"
  /\ \/ /\ Known
        /\ mode' = "job" /\ job' = Deletion
        /\ UNCHANGED <<scenario, spec, at, verdict, appGUID, toScale, missed, report>>
        /\ UNCHANGED <<cc, app, trouble>>
     \/ /\ Finish("failed")
        /\ \/ ~Known /\ UNCHANGED <<job, trouble>>
           \/ Troubled /\ UNCHANGED job
           \/ Troubled /\ Known /\ job' = Deletion

\* Faulty: the job is left to itself.
PollNoJob == mode = "job" /\ Finish(verdict) /\ UNCHANGED <<job, trouble>>

\* Faulty: the job is polled without a timeout.
PollJobForEver ==
  mode = "job" /\ job[appGUID] = "ready" /\ Finish(verdict) /\ UNCHANGED <<job, trouble>>

\* Looks for COMPLETE only: a job that failed is polled until the timeout.
PollJob ==
  /\ mode = "job"
  /\ \/ job[appGUID] = "ready" /\ Finish(verdict) /\ UNCHANGED trouble
     \/ /\ job[appGUID] # "ready"
        /\ Finish("failed")
        /\ IF job[appGUID] = "busy" THEN Troubled ELSE UNCHANGED trouble
  /\ UNCHANGED job

----------------------------------------------------------------------------
\* The Cloud Controller and Diego.

Works(field) ==
  /\ cc[field] = "busy"
  /\ \/ cc' = [cc EXCEPT ![field] = "ready"] /\ UNCHANGED trouble
     \/ cc' = [cc EXCEPT ![field] = "failed"] /\ Troubled
  /\ UNCHANGED <<driver, app, job>>

ProcessBits == Works("package") \/ Works("droplet")

Stage ==
  /\ cc.build = "busy"
  /\ \/ cc' = [cc EXCEPT !.build = "ready", !.droplet = "ready"] /\ UNCHANGED trouble
     \/ cc' = [cc EXCEPT !.build = "failed"] /\ Troubled
  /\ UNCHANGED <<driver, app, job>>

RunInstance ==
  /\ cc.started /\ cc.running < cc.want
  /\ cc' = [cc EXCEPT !.running = @ + 1]
  /\ UNCHANGED <<driver, app, job, trouble>>

Crash ==
  /\ cc.running > 0
  /\ cc' = [cc EXCEPT !.running = @ - 1]
  /\ Troubled
  /\ UNCHANGED <<driver, app, job>>

WorkJob(k) ==
  /\ job[k] = "busy"
  /\ \/ /\ job' = [job EXCEPT ![k] = "ready"]
        /\ app' = [app EXCEPT ![k] = "gone"]
        /\ UNCHANGED trouble
     \/ /\ job' = [job EXCEPT ![k] = "failed"]
        /\ IF mode = "job" /\ k = appGUID THEN Troubled ELSE UNCHANGED trouble
        /\ UNCHANGED app
  /\ UNCHANGED <<driver, cc>>

Platform == ProcessBits \/ Stage \/ RunInstance \/ Crash \/ \E k \in Specs : WorkJob(k)

Prepare ==
  \/ LookUp \/ CreateApp \/ EnableRevisions \/ CreatePackage \/ UploadPackage
  \/ WaitForPackageToBeReady \/ StagePackage \/ WaitForBuildToStage
  \/ GetDropletFromBuild \/ Create \/ UploadFrom \/ WaitForUpload

Assemble ==
  \/ AssignDroplet \/ GetProcesses \/ ScaleProcess \/ ScaledAll \/ CreateRoute
  \/ InsertDestinations \/ ScaleApp \/ StartApp \/ WaitForInstances \/ Body

Driver == Prepare \/ Assemble \/ DeleteApp \/ PollJob

Next == Driver \/ Platform

Spec == Init /\ [][Next]_vars

\* Ginkgo goes on with the spec, and every wait has a timeout.
FairSpec == Spec /\ WF_vars(Driver)

----------------------------------------------------------------------------
(* The lines of a spec begin with an app that is ready for them, whatever failed   *)
(* before without ending the spec: its own app, with its droplet, its route and,   *)
(* unless the list of processes was an error read as none, every process scaled    *)
(* (revisions.go:30-57, droplet.go:15-23).                                         *)
BodyStartsReady ==
  At("body") =>
    /\ appGUID = spec /\ app[spec] = "live"
    /\ cc.current /\ cc.droplet = "ready" /\ cc.route = "mapped" /\ cc.started
    /\ missed \/ cc.scaled = Types
    /\ scenario = "package" => cc.want = Instances

(* A spec fails only where a request or a task failed, or the platform was still   *)
(* at work when a wait ended: no helper calls the platform too early, none waits   *)
(* for what nobody works at, and what a spec before left behind fails no other     *)
(* (package.go:33-40, build.go:59-66, app_droplet.go:63-85, v3.go:64-71).          *)
FailsOnlyWithTrouble ==
  /\ verdict = "failed" => spec \in trouble
  /\ \A k \in Specs : report[k] = "failed" => k \in trouble

(* A spec that is reported as passed has left no app in the space: AfterEach waits *)
(* for the job of its own app's deletion (app.go:73-75, job.go:18-23).             *)
PassedLeavesNothing == \A k \in Specs : report[k] = "passed" => app[k] = "gone"

(* Whatever the platform does or fails to do, every spec and its AfterEach end,    *)
(* those included whose package, upload or job failed, a state their waits do not  *)
(* look for (package.go:39, app_droplet.go:82-84, job.go:19-22).                   *)
EverySpecEnds == <>(mode = "over")
=============================================================================
