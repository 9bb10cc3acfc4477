--------------------------- MODULE ManifestSpecs ---------------------------
(***************************************************************************)
(* The apply_manifest specs (baras/manifest.go) and the service broker one *)
(* of them registers (helpers/services/broker.go), with all they clean up. *)
(*                                                                         *)
(* A spec makes its apps, posts a manifest, polls the job and looks at the *)
(* result.  What an app has is a set of features; a manifest adds some and *)
(* drops some, and Init may pick one that the platform does not handle as  *)
(* the manifest says.  Any request may fail, with or without having been   *)
(* carried out; what a spec fails in, it still cleans up: the broker, then *)
(* the apps it has listed, then the organisation.                          *)
(*                                                                         *)
(* The platform is not in this repository: its actions are what the specs  *)
(* take it to do.                                                          *)
(***************************************************************************)
EXTENDS Integers, Sequences

CONSTANTS
  Scenarios, \* the specs to run
  MaxErrors  \* failed requests in one spec

\* The specs of manifest.go.
Specs ==
  {"multi", "single", "noRoute", "randomRoute", "sidecars", "process", "tooSmall",
   "potato", "bean", "buildpacks", "autodetect", "services", "custom"}

ASSUME ManifestAssumption == Scenarios \subseteq Specs /\ MaxErrors \in Nat

VARIABLES
  scenario, fault,       \* chosen once
  pc, verdict, errs,     \* the spec
  listed, known,         \* its variables: apps, and whether broker is assigned
  phase, trouble,        \* how far the cleanup is, whether a request of it failed
  made,                  \* the apps in the spec's organisation
  has, runs,             \* features each app has, and those its instances show
  job,                   \* of the manifest
  broker                 \* at the Cloud Controller: [registered, instance]

chosen == <<scenario, fault>>
driver == <<pc, verdict, errs, listed, known>>
cleanup == <<phase, trouble>>
platform == <<made, has, runs, job, broker>>
vars == <<chosen, driver, cleanup, platform>>

Apps == {"a1", "a2", "own", "broker"}

-----------------------------------------------------------------------------
(* The specs: the manifest of each and its steps. *)

Make(a) == [op |-> "make", app |-> a]
Does(op, a) == [op |-> op, app |-> a]
Has(a, f) == [op |-> "has", app |-> a, f |-> f]       \* one look
HasNot(a, f) == [op |-> "hasNot", app |-> a, f |-> f]
Shows(a, f) == [op |-> "shows", app |-> a, f |-> f]   \* Eventually

\* Features a manifest adds to an app, or drops from it.
Adds(s) ==
  CASE s = "multi" -> {"a1", "a2"} \X {"env", "route"}
    [] s = "single" -> {"a1"} \X {"route", "instances", "memory", "health", "env", "labels"}
    [] s = "randomRoute" -> {<<"a1", "randomRoute">>}
    [] s = "sidecars" -> {"a1"} \X {"left", "right"}
    [] s = "process" -> {"a1"} \X {"instances", "memory", "command", "health"}
    [] s \in {"potato", "bean"} ->
         {"a1"} \X {"process", "instances", "memory", "command", "health"}
    [] s = "buildpacks" -> {<<"a1", "buildpacks">>}
    [] s = "services" -> {<<"a1", "bound">>}
    [] s = "custom" -> {"own"} \X {"process", "instances"}
    [] OTHER -> {}

Drops(s) ==
  CASE s = "noRoute" -> {<<"a1", "route">>}
    [] s = "autodetect" -> {<<"a1", "buildpacks">>}
    [] OTHER -> {}

\* Faulty: the job is not awaited.
AppliedUnpolled == <<Does("apply", "a1")>>

\* The manifest is posted and its job awaited.
Applied == <<Does("apply", "a1"), Does("complete", "a1")>>

One == <<Make("a1")>>
Two == One \o <<Make("a2")>>

MultiSpec ==
  Two \o Applied \o <<Has("a1", "env"), Has("a2", "env"), Shows("a1", "route"),
                      Shows("a2", "route")>>

SingleSpec ==
  One \o Applied
    \o <<Does("restage", "a1"), Has("a1", "route"), Has("a1", "instances"), Has("a1", "env"),
         Has("a1", "health"), Has("a1", "labels"), Has("a1", "memory")>>

\* The apps of makeApp have no route, neither to unmap nor for no-route to remove.
NoRouteSpec == One \o Applied \o <<HasNot("a1", "route")>>
RandomRouteSpec == One \o <<Does("unmap", "a1")>> \o Applied \o <<Has("a1", "randomRoute")>>

SidecarsSpec ==
  One \o Applied
    \o <<Does("mapPorts", "a1"), Does("restart", "a1"), Shows("a1", "left"),
         Shows("a1", "right")>>

\* Faulty: the process is not read after the job.
ProcessSpecUnread == One \o Applied \o <<Has("a1", "instances"), Has("a1", "health")>>

ProcessRead ==
  One \o Applied \o <<Has("a1", "instances"), Has("a1", "command"), Has("a1", "health")>>

ProcessSpec == ProcessRead

\* The process has a sidecar that needs all the memory: the job is to fail and to say so.
TooSmallSpec ==
  One \o <<Does("addSidecar", "a1"), Does("apply", "a1"), Does("failed", "a1"),
           Does("errors", "a1")>>

PotatoSpec ==
  One \o Applied
    \o <<Has("a1", "process"), Has("a1", "instances"), Has("a1", "command"),
         Has("a1", "health")>>

BeanSpec ==
  One \o Applied
    \o <<Has("a1", "process"), Has("a1", "instances"), Does("assignDroplet", "a1"),
         Has("a1", "command")>>

BuildpacksSpec == One \o Applied \o <<Has("a1", "buildpacks")>>

\* The droplet looked at is the one of makeApp: nothing has been staged since.
AutodetectSpec == One \o Applied \o <<Has("a1", "droplet")>>

\* PublicizePlans indexes the offering it lists; create-service wants the plan public.
ServicesSpec ==
  Two \o <<Does("newBroker", "broker"), Does("pushBroker", "broker"),
           Does("configureBroker", "broker"), Does("createBroker", "broker"),
           Has("broker", "offering"), Does("publicizePlans", "broker"),
           Has("broker", "public"), Does("createService", "broker")>>
      \o Applied \o <<Does("restage", "a1"), Has("a1", "bound")>>

CustomSpec ==
  One \o <<Make("own")>> \o Applied
    \o <<Does("restart", "own"), Shows("own", "instances"), Has("own", "process"),
         Does("delete", "own")>>

Script(s) ==
  CASE s = "multi" -> MultiSpec
    [] s = "single" -> SingleSpec
    [] s = "noRoute" -> NoRouteSpec
    [] s = "randomRoute" -> RandomRouteSpec
    [] s = "sidecars" -> SidecarsSpec
    [] s = "process" -> ProcessSpec
    [] s = "tooSmall" -> TooSmallSpec
    [] s = "potato" -> PotatoSpec
    [] s = "bean" -> BeanSpec
    [] s = "buildpacks" -> BuildpacksSpec
    [] s = "autodetect" -> AutodetectSpec
    [] s = "services" -> ServicesSpec
    [] s = "custom" -> CustomSpec

Sound == [kind |-> "none", at |-> <<"a1", "env">>]
Fault(kind, at) == [kind |-> kind, at |-> at]

\* A platform ignores a line of a manifest, never ends its job, carries out a manifest
\* it refuses or takes one it must refuse, or forgets processes with a new droplet.
Broken(s) ==
  {Fault("ignores", at) : at \in Adds(s) \cup Drops(s)}
    \cup {Fault("stuck", <<"a1", "env">>)}
    \cup (IF s = "tooSmall" THEN {Fault("accepts", <<"a1", "memory">>),
                                  Fault("changes", <<"a1", "memory">>)} ELSE {})
    \cup (IF s = "bean" THEN {Fault("removes", <<"a1", "command">>)} ELSE {})

Features == {"droplet", "sidecar", "offering", "public"} \cup {at[2] : at \in UNION {Adds(s) : s \in Specs}}

TypeOK ==
  /\ scenario \in Scenarios /\ fault \in {Sound} \cup Broken(scenario)
  /\ pc \in 1..(Len(Script(scenario)) + 1)
  /\ verdict \in {"running", "passed", "failed"}
  /\ errs \in 0..MaxErrors
  /\ listed \subseteq {"a1", "a2"} /\ known \in BOOLEAN
  /\ phase \in {"spec", "purge", "unregister", "unpush", "delete", "teardown", "done"}
  /\ trouble \in BOOLEAN
  /\ made \subseteq Apps
  /\ has \in [Apps -> SUBSET Features] /\ runs \in [Apps -> SUBSET Features]
  /\ job \in {"none", "processing", "COMPLETE", "FAILED"}
  /\ broker \in [registered : BOOLEAN, instance : BOOLEAN]

Init ==
  /\ scenario \in Scenarios
  /\ fault \in {Sound} \cup Broken(scenario)
  /\ pc = 1 /\ verdict = "running" /\ errs = 0
  /\ listed = {} /\ known = FALSE
  /\ phase = "spec" /\ trouble = FALSE
  /\ made = {} /\ job = "none"
  /\ has = [a \in Apps |-> {}] /\ runs = [a \in Apps |-> {}]
  /\ broker = [registered |-> FALSE, instance |-> FALSE]

Spot == Script(scenario)[pc]
InSpec == phase = "spec" /\ verdict = "running"
At(ops) == InSpec /\ Spot.op \in ops

-----------------------------------------------------------------------------
(* The platform. *)

\* What the app has once the manifest has been carried out.
Handled(a, f) == ~(fault.kind = "ignores" /\ fault.at = <<a, f>>)
Carried(a) ==
  (has[a] \cup {f \in Features : <<a, f>> \in Adds(scenario) /\ Handled(a, f)})
    \ {f \in Features : <<a, f>> \in Drops(scenario) /\ Handled(a, f)}

\* The job of a manifest ends; one that asks for too little memory fails.
JobEnds ==
  /\ job = "processing" /\ fault.kind # "stuck"
  /\ IF scenario = "tooSmall"
       THEN /\ job' = IF fault.kind = "accepts" THEN "COMPLETE" ELSE "FAILED"
            /\ has' = IF fault.kind = "none" THEN has ELSE [has EXCEPT !["a1"] = @ \cup {"memory"}]
       ELSE /\ job' = "COMPLETE"
            /\ has' = [a \in Apps |-> IF a \in made THEN Carried(a) ELSE has[a]]
  /\ UNCHANGED <<made, runs, broker>>

\* A mapped route reaches the router.
RouteServes(a) ==
  /\ "route" \in has[a] \ runs[a]
  /\ runs' = [runs EXCEPT ![a] = @ \cup {"route"}]
  /\ UNCHANGED <<made, has, job, broker>>

Platform ==
  /\ JobEnds \/ \E a \in Apps : RouteServes(a)
  /\ UNCHANGED <<chosen, driver, cleanup>>

-----------------------------------------------------------------------------
(* The requests of a spec: what each does to the platform. *)

\* makeApp (or cf create-app): CreateApp first, the droplet last.
MakeApp ==
  /\ Spot.op = "make"
  /\ made' = made \cup {Spot.app}
  /\ has' = [has EXCEPT ![Spot.app] = IF Spot.app = "own" THEN {} ELSE {"droplet"}]
  /\ UNCHANGED <<runs, job, broker>>

ApplyManifest ==
  /\ Spot.op = "apply" /\ job' = "processing" /\ UNCHANGED <<made, has, runs, broker>>

\* cf restart or cf push: the instances are started anew.
Restart ==
  /\ Spot.op = "restart"
  /\ runs' = [runs EXCEPT ![Spot.app] = has[Spot.app]]
  /\ UNCHANGED <<made, has, job, broker>>

CreateSidecar ==
  /\ Spot.op = "addSidecar"
  /\ has' = [has EXCEPT !["a1"] = @ \cup {"sidecar"}]
  /\ UNCHANGED <<made, runs, job, broker>>

AssignDropletToApp ==
  /\ Spot.op = "assignDroplet"
  /\ has' = IF fault.kind = "removes" THEN [has EXCEPT !["a1"] = @ \ {"process", "command"}]
            ELSE has
  /\ UNCHANGED <<made, runs, job, broker>>

\* Push, Configure, Create, PublicizePlans and the service instance; the routes are left
\* out, which go with their app.
PushBroker ==
  /\ Spot.op = "pushBroker" /\ made' = made \cup {"broker"}
  /\ UNCHANGED <<has, runs, job, broker>>

\* The catalog the broker is to offer, and the visibility of its plans.
Publish ==
  /\ \/ Spot.op = "configureBroker" /\ has' = [has EXCEPT !["broker"] = @ \cup {"offering"}]
     \/ Spot.op = "publicizePlans" /\ has' = [has EXCEPT !["broker"] = @ \cup {"public"}]
  /\ UNCHANGED <<made, runs, job, broker>>

CreateBroker ==
  /\ Spot.op = "createBroker" /\ broker' = [broker EXCEPT !.registered = TRUE]
  /\ UNCHANGED <<made, has, runs, job>>

CreateService ==
  /\ Spot.op = "createService" /\ broker' = [broker EXCEPT !.instance = TRUE]
  /\ UNCHANGED <<made, has, runs, job>>

DeleteOwn ==
  /\ Spot.op = "delete" /\ made' = made \ {"own"} /\ UNCHANGED <<has, runs, job, broker>>

Other ==
  /\ Spot.op \in {"unmap", "mapPorts", "newBroker", "restage"}
  /\ UNCHANGED platform

Effect ==
  \/ MakeApp \/ ApplyManifest \/ Restart \/ CreateSidecar \/ AssignDropletToApp
  \/ PushBroker \/ Publish \/ CreateBroker \/ CreateService \/ DeleteOwn \/ Other

Waits == {"complete", "failed", "shows"}
Looks == {"has", "hasNot", "errors"}

\* Requests whose failure the spec may not notice: a curl without -f exits 0 with an HTTP
\* error, and nobody looks how a restage went.
Unnoticed == {"restage", "configureBroker", "publicizePlans"}

-----------------------------------------------------------------------------
(* The spec. *)

\* A failure ends the spec and starts its AfterEach; so does the last step.
Leave(v) ==
  /\ verdict' = v
  /\ phase' = IF scenario = "services" THEN "purge" ELSE "delete"

Advance ==
  /\ pc' = pc + 1
  /\ IF pc = Len(Script(scenario)) THEN Leave("passed") ELSE UNCHANGED <<verdict, phase>>

Fail == Leave("failed") /\ UNCHANGED pc

\* Faulty: the app the spec deletes by itself is listed as well.
RequestListingAll ==
  /\ InSpec /\ Spot.op \notin Waits \cup Looks /\ Effect
  /\ listed' = IF Spot.op = "make" THEN listed \cup {Spot.app} ELSE listed
  /\ known' = (known \/ Spot.op = "newBroker")
  /\ Advance /\ UNCHANGED <<chosen, errs, trouble>>

\* A request is answered; the app or the broker is the spec's variable from now on.
Request ==
  /\ InSpec /\ Spot.op \notin Waits \cup Looks /\ Effect
  /\ listed' = IF Spot.op = "make" THEN listed \cup ({Spot.app} \ {"own"}) ELSE listed
  /\ known' = (known \/ Spot.op = "newBroker")
  /\ Advance /\ UNCHANGED <<chosen, errs, trouble>>

\* A request fails, with or without effect; the spec ends, or goes on unknowing.
Refused ==
  /\ InSpec /\ Spot.op \notin Waits \cup {"newBroker"} /\ errs < MaxErrors
  /\ Effect \/ UNCHANGED platform
  /\ errs' = errs + 1
  /\ \/ Spot.op \in Unnoticed /\ Advance
     \/ Spot.op # "restage" /\ Fail
  /\ UNCHANGED <<chosen, listed, known, trouble>>

Seen ==
  CASE Spot.op = "complete" -> job = "COMPLETE"
    [] Spot.op \in {"failed", "errors"} -> job = "FAILED"
    [] Spot.op = "shows" -> Spot.f \in runs[Spot.app]
    [] Spot.op = "has" -> Spot.f \in has[Spot.app]
    [] Spot.op = "hasNot" -> Spot.f \notin has[Spot.app]

\* PollJob and the Eventually of a curl: a failed poll is one that sees nothing.
Poll == At(Waits) /\ Seen /\ Advance /\ UNCHANGED <<chosen, errs, listed, known, trouble, platform>>

\* Faulty: a job is polled for ever.
TimeoutExceptJob ==
  /\ At({"shows"}) /\ ~Seen /\ ~ENABLED Platform
  /\ Fail /\ UNCHANGED <<chosen, errs, listed, known, trouble, platform>>

Timeout ==
  /\ At(Waits) /\ ~Seen /\ ~ENABLED Platform
  /\ Fail /\ UNCHANGED <<chosen, errs, listed, known, trouble, platform>>

\* One look at an answer that is there: Eventually looks at the same text again.
Look ==
  /\ At(Looks)
  /\ IF Seen THEN Advance ELSE Fail
  /\ UNCHANGED <<chosen, errs, listed, known, trouble, platform>>

-----------------------------------------------------------------------------
(* AfterEach: broker.Destroy, DeleteApp of each listed app, Teardown. *)

\* The step of the cleanup after p: one that fails skips the rest of its node.
Ahead(p) ==
  CASE p = "purge" -> "unregister" [] p = "unregister" -> "unpush" [] p = "unpush" -> "delete"
    [] p = "delete" -> "teardown" [] p = "teardown" -> "done"
Skipped(p) == IF p \in {"purge", "unregister", "unpush"} THEN "delete" ELSE Ahead(p)

\* Faulty: Destroy deletes the app of the broker before the broker.
CleansAppFirst(p) ==
  \/ p = "purge" /\ made' = made \ {"broker"} /\ UNCHANGED broker
  \/ p = "unregister" /\ broker' = [broker EXCEPT !.instance = FALSE] /\ UNCHANGED made
  \/ p = "unpush" /\ broker' = [broker EXCEPT !.registered = FALSE] /\ UNCHANGED made
  \/ p = "delete" /\ made' = made \ listed /\ UNCHANGED broker
  \/ p = "teardown" /\ made' = {} /\ UNCHANGED broker

\* Faulty: Destroy does not purge the offering, whose instance then keeps the broker.
CleansUnpurged(p) ==
  \/ p = "purge" /\ UNCHANGED <<made, broker>>
  \/ p = "unregister" /\ UNCHANGED made
       /\ broker' = [broker EXCEPT !.registered = broker.instance]
  \/ p = "unpush" /\ made' = made \ {"broker"} /\ UNCHANGED broker
  \/ p = "delete" /\ made' = made \ listed /\ UNCHANGED broker
  \/ p = "teardown" /\ made' = {} /\ UNCHANGED broker

\* What a step does: a broker goes only when it has no instance, an organisation takes
\* its apps with it but no broker.
Cleans(p) ==
  \/ p = "purge" /\ broker' = [broker EXCEPT !.instance = FALSE] /\ UNCHANGED made
  \/ p = "unregister" /\ UNCHANGED made
       /\ broker' = [broker EXCEPT !.registered = broker.instance]
  \/ p = "unpush" /\ made' = made \ {"broker"} /\ UNCHANGED broker
  \/ p = "delete" /\ made' = made \ listed /\ UNCHANGED broker
  \/ p = "teardown" /\ made' = {} /\ UNCHANGED broker

Cleaning == phase \in {"purge", "unregister", "unpush", "delete", "teardown"}

\* Destroy without a broker, and the report of apps[0] without an app, panic; after
\* another spec apps still holds its app, gone, which is deleted as little.
Panics == (phase = "purge" /\ ~known) \/ (phase = "delete" /\ listed = {})

CleanupStep ==
  /\ Cleaning /\ ~Panics
  /\ Cleans(phase) /\ phase' = Ahead(phase)
  /\ UNCHANGED <<chosen, driver, trouble, has, runs, job>>

CleanupPanics ==
  /\ Cleaning /\ Panics
  /\ phase' = Skipped(phase)
  /\ UNCHANGED <<chosen, driver, trouble, platform>>

\* A request of the cleanup fails, with its effect, with a part of it or without.
CleanupFails ==
  /\ Cleaning /\ ~Panics /\ errs < MaxErrors
  /\ \/ Cleans(phase)
     \/ phase = "delete" /\ (\E done \in SUBSET listed : made' = made \ done) /\ UNCHANGED broker
     \/ UNCHANGED <<made, broker>>
  /\ errs' = errs + 1 /\ trouble' = TRUE /\ phase' = Skipped(phase)
  /\ UNCHANGED <<chosen, pc, verdict, listed, known, has, runs, job>>

Driver ==
  Request \/ Poll \/ Timeout \/ Look \/ CleanupStep \/ CleanupPanics

Next == Platform \/ Driver \/ Refused \/ CleanupFails

Spec == Init /\ [][Next]_vars

\* The platform's jobs go on; the spec goes on, polls and gives up in time.
FairSpec == Spec /\ WF_vars(Platform) /\ WF_vars(Driver)

-----------------------------------------------------------------------------
(* Properties. *)

\* What no step of a spec can tell: memory is read in the spec "single" alone; the
\* apps have no route for no-route to remove; the droplet that autodetection is told
\* by was there before; the bean's health check is not read.
Unseen(s) ==
  {Fault("ignores", at) : at \in Drops(s)}
    \cup (IF s \in {"process", "potato", "bean"} THEN {Fault("ignores", <<"a1", "memory">>)} ELSE {})
    \cup (IF s = "bean" THEN {Fault("ignores", <<"a1", "health">>)} ELSE {})
    \cup (IF s = "tooSmall" THEN {Fault("changes", <<"a1", "memory">>)} ELSE {})

\* A spec passes only on a platform that handles every line of its manifest the spec
\* can tell (manifest.go:106-769), whichever request fails.
NoFaultPasses == verdict = "passed" => fault \in {Sound} \cup Unseen(scenario)

\* A registered broker has its app (Push before Create, broker.go:124-149; Delete
\* before cf delete, :174-180), unless a request of the cleanup failed.
RegisteredHasApp == broker.registered /\ ~trouble => "broker" \in made

\* Wherever the spec fails, it leaves no app, broker or service instance behind, unless
\* a request of the cleanup fails as well (manifest.go:97-102, :691-693).
NothingLeft ==
  phase = "done" /\ ~trouble => made = {} /\ ~broker.registered /\ ~broker.instance

\* The specs pass on a sound platform when no request fails.
SoundPlatformPasses == (fault = Sound) => <>(verdict = "passed" \/ errs > 0)

\* Every spec ends and has cleaned up what it could.
EverySpecEnds == <>(phase = "done")
=============================================================================
