----------------------------- MODULE Revisions -----------------------------
(***************************************************************************)
(* The revisions specs (baras/revisions.go) against the platform they      *)
(* test.  Each starts an app, changes something about it (its environment, *)
(* command, droplet or sidecars, or nothing), restarts it in one of the    *)
(* ways the platform has, and reads the revisions, the web process and the *)
(* app's answers.                                                          *)
(*                                                                         *)
(* Settings are the set of aspects that differ from the app as made.  Init *)
(* picks the spec, the promise the platform breaks and whether a restart   *)
(* is answered while the instances of before still run; every request may  *)
(* fail, and some helpers read an error as an empty answer.                *)
(*                                                                         *)
(* The platform is not in this repository: its actions are what the specs  *)
(* take it to do.                                                          *)
(***************************************************************************)
EXTENDS Integers, SequencesExt

CONSTANTS
  Scenarios, \* [how : Hows, change : SUBSET Aspects], the specs to run
  Instances, \* what every spec scales its app to (revisions.go:35)
  MaxErrors  \* failed requests in one spec

Aspects == {"droplet", "env", "command", "sidecar"}
Hows == {"stopStart", "restart", "start", "deploy", "rollback"}

ASSUME RevisionsAssumption ==
  /\ Scenarios \subseteq [how : Hows, change : SUBSET Aspects]
  /\ Instances \in Nat \ {0} /\ MaxErrors \in Nat

VARIABLES
  scenario, fault, linger, \* chosen once
  pc, verdict, \* of the spec
  noted,       \* what BeforeEach keeps: the revisions and the web process' revision
  errs,        \* requests that have failed
  app,         \* the settings the next start will use
  revs,        \* the settings each revision records, oldest first
  web,         \* the web process: its revision, what it runs, instances
  old,         \* instances of before a restart that still run and serve
  deploying    \* whether a deployment is under way

chosen == <<scenario, fault, linger>>
driver == <<pc, verdict, noted, errs>>
platform == <<app, revs, web, old, deploying>>
vars == <<chosen, driver, platform>>

-----------------------------------------------------------------------------
(* The scripts. *)

Does(op) == [op |-> op]
Records(a, new) == [op |-> "records", a |-> a, new |-> new] \* the newest revision
Serves(a, new) == [op |-> "serves", a |-> a, new |-> new]   \* one curl of the app
Longer(n) == [op |-> "longer", by |-> n]  \* revisions more than BeforeEach noted

\* Faulty: the instances are not awaited.
AllUpAtOnce == <<>>

AllUp == <<Does("allUp")>>
Prelude == <<Does("start")>> \o AllUp
             \o <<Serves("droplet", FALSE), Does("noteRevisions"), Does("noteProcess")>>
Zdt == <<Does("deploy"), Does("deployed")>>

\* `if` of a list of steps.
When(b, steps) == IF b THEN steps ELSE <<>>

\* "does not create a new revision"
NoRevision == <<Does("same"), Records("droplet", FALSE), Does("kept")>>

\* "creates a new revision" for a change other than a sidecar, then the app's answers.
NewRevision(c, wait) ==
  <<Longer(1)>>
    \o When(c # {"command"}, <<Records("droplet", "droplet" \in c)>>)
    \o <<Does("isNew")>>
    \o When(c = {"command"}, <<Records("command", TRUE)>>)
    \o <<Does("linked")>> \o When(wait, AllUp)
    \o <<Serves("droplet", "droplet" \in c)>>
    \o When(c # {"droplet"}, <<Serves(CHOOSE a \in c : TRUE, TRUE)>>)

After(c, wait) ==
  IF c = {} THEN NoRevision \o When(wait, AllUp) \o <<Serves("droplet", FALSE)>>
  ELSE NewRevision(c, wait)

\* Faulty: the newest revision and its process are not compared with the first.
AfterCounting(c, wait) ==
  <<Longer(IF c = {} THEN 0 ELSE 1)>> \o When(wait, AllUp)

Checked(c, wait) == After(c, wait)

Stopping == <<Does("stop"), Does("stopped"), Does("start")>>

\* Faulty: WaitForAppToStop is left out.
StoppingAtOnce == <<Does("stop"), Does("start")>>

StopAndStart == Stopping

StopStartScript(c) ==
  StopAndStart
    \o IF c = {"sidecar"} THEN <<Longer(1), Records("sidecar", TRUE)>> ELSE Checked(c, TRUE)

RestartScript(c) == <<Does("restart")>> \o Checked(c, TRUE)

StartedScript(c) ==
  <<Does("start"), Does("same")>>
    \o When("droplet" \in c, <<Records("droplet", FALSE)>>) \o <<Does("kept")>>
    \o When("command" \in c, <<Does("commandKept")>>) \o <<Serves("droplet", FALSE)>>

\* Only the spec about the command waits for the instances here.
DeployScript(c) == Zdt \o Checked(c, c = {"command"})

RollbackScript(c) ==
  Zdt
    \o <<Serves("droplet", "droplet" \in c), Does("rollback"), Does("deployed"), Longer(2),
         Records("droplet", FALSE), Does("isNew"), Does("originalEnv"),
         Records("command", FALSE), Does("linked"),
         Serves("droplet", FALSE), Serves("env", FALSE)>>

\* BeforeEach of a context.
Changes(c) ==
  When("droplet" \in c, <<Does("droplet")>>) \o When("command" \in c, <<Does("command")>>)
    \o When("env" \in c, <<Does("env")>>) \o When("sidecar" \in c, <<Does("sidecar")>>)

Script(s) ==
  Prelude \o Changes(s.change)
    \o CASE s.how = "stopStart" -> StopStartScript(s.change)
         [] s.how = "restart" -> RestartScript(s.change)
         [] s.how = "start" -> StartedScript(s.change)
         [] s.how = "deploy" -> DeployScript(s.change)
         [] s.how = "rollback" -> RollbackScript(s.change)

\* The promises a platform can break where the spec may notice.
Sound == [kind |-> "none", a |-> "env"]
Of(kinds, as) == [kind : kinds, a : as]
Broken(s) ==
  CASE s.how = "start" -> Of({"startsAnew"}, {"env"})
    [] s.how = "rollback" ->
         Of({"reuses", "unlinked"}, {"env"}) \cup Of({"records", "runs"}, s.change)
    [] s.change = {} -> Of({"spurious"}, {"env"})
    [] OTHER -> Of({"missed", "unlinked"}, {"env"}) \cup Of({"records", "runs"}, s.change)
                  \cup Of({"neverStops"}, {a \in {"env"} : s.how = "stopStart"})
                  \cup Of({"neverDeploys"}, {a \in {"env"} : s.how = "deploy"})

\* The specs there are.
Specs ==
  [how : {"stopStart", "restart", "deploy"}, change : {{}, {"env"}, {"command"}, {"droplet"}}]
    \cup [how : {"stopStart"}, change : {{"sidecar"}}]
    \cup [how : {"start"}, change : {{"droplet"}, {"command"}}]
    \cup [how : {"rollback"}, change : {{"droplet", "env", "command"}, {"env", "command"}}]

TypeOK ==
  /\ scenario \in Scenarios /\ fault \in {Sound} \cup Broken(scenario) /\ linger \in BOOLEAN
  /\ pc \in 1..(Len(Script(scenario)) + 1)
  /\ verdict \in {"running", "passed", "failed"}
  /\ errs \in 0..MaxErrors
  /\ noted.revs \in Seq(SUBSET Aspects) /\ noted.guid \in 0..1
  /\ app \subseteq Aspects /\ revs \in Seq(SUBSET Aspects) /\ Len(revs) <= 3
  /\ web \in [rev : 0..3, runs : SUBSET Aspects, want : {0, Instances}, up : 0..Instances]
  /\ old \in [runs : SUBSET Aspects, up : 0..Instances]
  /\ deploying \in BOOLEAN

\* BeforeEach has made the app with its route, enabled revisions, assigned a droplet
\* and scaled it.
Init ==
  /\ scenario \in Scenarios
  /\ fault \in {Sound} \cup Broken(scenario)
  /\ linger \in BOOLEAN
  /\ pc = 1 /\ verdict = "running" /\ errs = 0
  /\ noted = [revs |-> <<>>, guid |-> 0]
  /\ app = {} /\ revs = <<>> /\ deploying = FALSE
  /\ web = [rev |-> 0, runs |-> {}, want |-> 0, up |-> 0]
  /\ old = [runs |-> {}, up |-> 0]

Spot == Script(scenario)[pc]
AtStep(ops) == verdict = "running" /\ Spot.op \in ops

-----------------------------------------------------------------------------
(* The platform. *)

Running == web.up + old.up
Serving ==
  {web.runs : i \in {i \in {1} : web.up > 0}} \cup {old.runs : i \in {i \in {1} : old.up > 0}}

\* A promise is broken at the restart the spec is about.
Breaks(kind) ==
  fault.kind = kind /\ Len(revs) >= IF scenario.how = "rollback" THEN 2 ELSE 1

\* Settings s but for one aspect, which is as before.
Mixed(kind, s, before) ==
  IF Breaks(kind) THEN (s \ {fault.a}) \cup (before \cap {fault.a}) ELSE s

\* Faulty: the instances asked for are added to the ones there are.
LaunchAdding(s, revert) ==
  /\ web' = [web EXCEPT !.runs = s, !.want = @ + Instances]
  /\ revs' = IF revs = <<>> THEN <<s>> ELSE revs
  /\ app' = s

\* The app is started with settings s: a revision is made if they are new ones.
Launch(s, revert) ==
  LET isNew == IF Breaks("spurious") \/ revs = <<>> THEN TRUE
               ELSE s # revs[web.rev] /\ ~Breaks("missed") /\ ~Breaks("reuses")
      rev == CASE isNew /\ ~Breaks("unlinked") -> Len(revs) + 1
               [] Breaks("reuses") -> revert
               [] OTHER -> web.rev
  IN /\ revs' = IF isNew THEN Append(revs, Mixed("records", s, web.runs)) ELSE revs
     /\ web' = [rev |-> rev, runs |-> Mixed("runs", s, web.runs),
                want |-> Instances, up |-> 0]
     /\ app' = s

\* The instances of before go on running, until Diego has stopped them.
LeaveOld(still) == old' = [runs |-> web.runs, up |-> IF still THEN web.up ELSE 0]

\* Diego starts and stops one instance.
StartOne ==
  /\ web.up < web.want
  /\ web' = [web EXCEPT !.up = @ + 1] /\ UNCHANGED <<app, revs, old, deploying>>

StopOne ==
  /\ web.up > web.want /\ fault.kind # "neverStops"
  /\ web' = [web EXCEPT !.up = @ - 1] /\ UNCHANGED <<app, revs, old, deploying>>

StopOld ==
  /\ old.up > 0
  /\ old' = [old EXCEPT !.up = @ - 1] /\ UNCHANGED <<app, revs, web, deploying>>

\* Every instance is new.
Deployed ==
  /\ deploying /\ web.up = web.want /\ old.up = 0 /\ fault.kind # "neverDeploys"
  /\ deploying' = FALSE /\ UNCHANGED <<app, revs, web, old>>

Platform == (StartOne \/ StopOne \/ StopOld \/ Deployed) /\ UNCHANGED <<chosen, driver>>

-----------------------------------------------------------------------------
(* The driver. *)

Advance ==
  /\ pc' = pc + 1
  /\ verdict' = IF pc = Len(Script(scenario)) THEN "passed" ELSE "running"

Fail == verdict' = "failed" /\ UNCHANGED pc
Verdict(b) == IF b THEN Advance ELSE Fail

StartApp ==
  /\ AtStep({"start"})
  /\ IF web.want = 0 \/ fault.kind = "startsAnew"
       THEN Launch(app, 0) /\ LeaveOld(TRUE)
       ELSE UNCHANGED <<app, revs, web, old>>
  /\ Advance /\ UNCHANGED <<chosen, noted, errs, deploying>>

StopApp ==
  /\ AtStep({"stop"})
  /\ web' = [web EXCEPT !.want = 0]
  /\ Advance /\ UNCHANGED <<chosen, noted, errs, app, revs, old, deploying>>

RestartApp ==
  /\ AtStep({"restart"})
  /\ Launch(app, 0) /\ LeaveOld(linger)
  /\ Advance /\ UNCHANGED <<chosen, noted, errs, deploying>>

\* A request that changes one aspect of the app.
Alter(a) ==
  /\ AtStep({a})
  /\ app' = app \cup {a}
  /\ Advance /\ UNCHANGED <<chosen, noted, errs, revs, web, old, deploying>>

CreateAndAssociateNewDroplet == Alter("droplet")
UpdateEnvironmentVariables == Alter("env")
SetCommandOnProcess == Alter("command")
CreateSidecar == Alter("sidecar")
Change ==
  \/ CreateAndAssociateNewDroplet \/ UpdateEnvironmentVariables
  \/ SetCommandOnProcess \/ CreateSidecar

\* CreateDeployment, rolling: the new process takes over from the old one.
CreateDeployment ==
  /\ AtStep({"deploy"})
  /\ Launch(app, 0) /\ LeaveOld(TRUE) /\ deploying' = TRUE
  /\ Advance /\ UNCHANGED <<chosen, noted, errs>>

\* RollbackDeployment to the revision noted; an empty guid is refused.
RollbackDeployment ==
  /\ AtStep({"rollback"})
  /\ IF noted.guid # 0
       THEN /\ Launch(revs[noted.guid], noted.guid) /\ LeaveOld(TRUE) /\ deploying' = TRUE
            /\ Advance
       ELSE Fail /\ UNCHANGED platform
  /\ UNCHANGED <<chosen, noted, errs>>

Awaited ==
  CASE Spot.op = "stopped" -> Running = 0
    [] Spot.op = "allUp" -> Running = Instances
    [] Spot.op = "deployed" -> ~deploying

Waits == {"stopped", "allUp", "deployed"}

Wait ==
  /\ AtStep(Waits) /\ Awaited
  /\ Advance /\ UNCHANGED <<chosen, noted, errs, platform>>

\* Faulty: WaitForAppToStop waits for ever.
TimeoutExceptStop ==
  /\ AtStep(Waits \ {"stopped"}) /\ ~Awaited /\ ~ENABLED Platform
  /\ Fail /\ UNCHANGED <<chosen, noted, errs, platform>>

\* The wait is over and the platform has done all it will do.
Timeout ==
  /\ AtStep(Waits) /\ ~Awaited /\ ~ENABLED Platform
  /\ Fail /\ UNCHANGED <<chosen, noted, errs, platform>>

\* GetRevisions and GetProcesses curl without -f: an error is an empty answer.
Forgiving == {"noteRevisions", "noteProcess", "same", "kept", "commandKept"}
ReadRevisions(e) == IF e THEN <<>> ELSE revs
ReadRevision(e) == IF e THEN 0 ELSE web.rev
CanErr == errs < MaxErrors

Read(e) == errs' = (IF e THEN errs + 1 ELSE errs) /\ (e => CanErr)

NoteRevisions(e) ==
  /\ AtStep({"noteRevisions"})
  /\ noted' = [noted EXCEPT !.revs = ReadRevisions(e)]
  /\ Advance

NoteProcess(e) ==
  /\ AtStep({"noteProcess"})
  /\ noted' = [noted EXCEPT !.guid = ReadRevision(e)]
  /\ Advance

\* The lengths are compared, of the lists or of what is left of them after an error.
Count(e) ==
  /\ AtStep({"same", "longer"})
  /\ Verdict(IF Spot.op = "same" THEN ReadRevisions(e) = noted.revs
             ELSE Len(ReadRevisions(e)) = Len(noted.revs) + Spot.by)
  /\ UNCHANGED noted

\* The web process keeps its revision, and its command.
Keep(e) ==
  /\ AtStep({"kept", "commandKept"})
  /\ Verdict(IF Spot.op = "kept" THEN ReadRevision(e) = noted.guid
             ELSE e \/ "command" \notin web.runs)
  /\ UNCHANGED noted

Reads ==
  \E e \in BOOLEAN :
    /\ NoteRevisions(e) \/ NoteProcess(e) \/ Count(e) \/ Keep(e)
    /\ Read(e) /\ UNCHANGED <<chosen, platform>>

\* The checks on GetNewestRevision, which panics on an empty list.
Newest ==
  CASE Spot.op = "records" -> (Spot.a \in Last(revs)) = Spot.new
    [] Spot.op = "isNew" -> Len(revs) # noted.guid
    [] Spot.op = "linked" -> web.rev = Len(revs)
    [] Spot.op = "originalEnv" -> noted.guid # 0 /\ "env" \notin revs[noted.guid]

Inspect ==
  /\ AtStep({"records", "isNew", "linked", "originalEnv"})
  /\ Verdict(Newest) /\ UNCHANGED <<chosen, noted, errs, platform>>

\* CurlApp reaches one of the instances that serve, once.
Curl ==
  /\ AtStep({"serves"})
  /\ IF Serving = {} THEN Fail ELSE \E s \in Serving : Verdict((Spot.a \in s) = Spot.new)
  /\ UNCHANGED <<chosen, noted, errs, platform>>

\* Every other request that fails ends the spec: an Expect, or an index of nothing.
Hiccup ==
  /\ verdict = "running" /\ Spot.op \notin Forgiving /\ CanErr
  /\ Fail /\ errs' = errs + 1
  /\ UNCHANGED <<chosen, noted, platform>>

Driver ==
  \/ StartApp \/ StopApp \/ RestartApp \/ Change \/ CreateDeployment
  \/ RollbackDeployment \/ Wait \/ Timeout \/ Reads \/ Inspect \/ Curl

Next == Platform \/ Driver \/ Hiccup

Spec == Init /\ [][Next]_vars

\* The platform keeps working; the spec keeps polling and gives up in time.
FairSpec == Spec /\ WF_vars(Platform) /\ WF_vars(Driver)

-----------------------------------------------------------------------------
(* Properties. *)

\* The broken promises a spec has no check for: what a revision records of the
\* environment is never read, a sidecar's spec reads the list alone, and no spec
\* looks at the command that runs after a rollback.
Unseen(s) ==
  (IF "env" \in s.change THEN Of({"records"}, {"env"}) ELSE {})
    \cup (IF s.change = {"sidecar"} THEN Of({"unlinked", "runs"}, Aspects) ELSE {})
    \cup (IF s.how = "rollback" THEN Of({"runs"}, {"command"}) ELSE {})

\* Both reads at the end of BeforeEach came back empty (revisions.go:58-59).
NothingNoted == noted.revs = <<>> /\ noted.guid = 0

\* A spec passes on a platform that breaks one of its promises only where it has no
\* check for it (revisions.go:74-432), whichever reads of BeforeEach or of the checks
\* come back empty; but when BeforeEach noted nothing at all, a revision too few or too
\* many is compared with nothing, and passes too.
NoFaultPasses ==
  verdict = "passed" /\ fault # Sound =>
    \/ fault \in Unseen(scenario)
    \/ NothingNoted /\ fault.kind \in {"missed", "spurious", "startsAnew"}

\* "rolling back ... creates a new revision with the droplet, environment variables,
\* and detected start command from the specified revision" (revisions.go:391, :425).
RollbackRecordsAll ==
  verdict = "passed" /\ scenario.how = "rollback" => Last(revs) = revs[noted.guid]

\* Once an app that was stopped is awaited (WaitForAppToStop, app.go:22) no instance
\* of before can answer for the new ones, or be counted as one of them
\* (waitForAllInstancesToStart, revisions.go:447).
OnlyNewServes == scenario.how = "stopStart" => old.up = 0

\* The specs pass on a sound platform, if it answers a restart once the instances of
\* before are gone: the specs that restart do not wait for that.
SoundPlatformPasses ==
  (fault = Sound /\ (scenario.how = "restart" => ~linger))
    => <>(verdict = "passed" \/ errs > 0)

\* Every spec ends, whatever the platform breaks.
EverySpecEnds == <>(verdict # "running")
=============================================================================
