------------------------- MODULE CanaryDeployments -------------------------
(***************************************************************************)
(* The deployment specs (baras/deployments.go) against the platform they   *)
(* test.  A spec is a script of calls and waits; each wait polls the Cloud *)
(* Controller or the app's route until it sees what it wants or times out. *)
(* Between two polls the platform runs on: its deployment updater changes  *)
(* a deployment's status, Diego starts and stops instances, and specs on   *)
(* other parallel processes start apps of their own.                       *)
(*                                                                         *)
(* A spec is right when it passes on a platform that keeps its promises    *)
(* and on no other.  Init picks the spec, the promise the platform breaks  *)
(* ("none", or one the spec's text says it is about) and the pace: a       *)
(* "prompt" spec polls between any two changes of status, waits until the  *)
(* platform is done, and has every request answered.                       *)
(*                                                                         *)
(* A curl of the app's route (CurlAppRoot, of cf-test-helpers) reaches one *)
(* instance of any process that serves it.                                 *)
(*                                                                         *)
(* The platform is not in this repository: its actions are what the specs  *)
(* take it to do.                                                          *)
(***************************************************************************)
EXTENDS Integers, Sequences

CONSTANTS
  Scenarios,   \* the specs to run
  Instances,   \* what every spec scales its app to (deployments.go:32)
  StepTargets, \* canary instances at each step: weights 1, 50, 75, 99 of 4
  MaxInFlight, \* max_in_flight of the two specs about it
  Neighbours   \* whether other parallel specs start workers

\* The specs of deployments.go.
Specs ==
  {"continue", "cancel", "supersede", "steps", "rolling", "inFlight", "inFlightCanary",
   "badDroplet"}

ASSUME DeploymentsAssumption ==
  /\ Scenarios \subseteq Specs
  /\ Instances \in Nat \ {0, 1} /\ MaxInFlight \in 1..Instances
  /\ StepTargets \in Seq(1..Instances) /\ Len(StepTargets) > 0
  /\ Neighbours \in BOOLEAN

VARIABLES
  scenario, fault, pace, \* chosen once
  pc,      \* the driver's position in its script
  verdict, \* of the spec
  noted,   \* the process guids the spec keeps: [canary, original]
  lucky,   \* curls have missed an instance that the spec says is not there
  fresh,   \* the platform has changed a status the driver has not looked at yet
  dep,     \* the deployments, oldest first
  proc,    \* the app's web processes, oldest first
  started  \* the starts of workers that count as new: "own", "other", or an "old" one

driver == <<pc, verdict, noted, lucky>>
chosen == <<scenario, fault, pace>>
vars == <<chosen, driver, fresh, dep, proc, started>>

-----------------------------------------------------------------------------
(* The scripts. *)

Serves(v) == [op |-> "serves", v |-> v]          \* Eventually CurlAppRoot shows v
Only(v) == [op |-> "only", v |-> v]              \* Eventually ten times in a row
Never(v) == [op |-> "never", v |-> v]            \* Consistently not
Create(strategy, droplet, targets, mif) ==
  [op |-> "create", strategy |-> strategy, droplet |-> droplet,
   targets |-> targets, mif |-> mif]
TwoWebs == [op |-> "twoWebs"]
Status(d, s) == [op |-> "status", d |-> d, s |-> s]
Is(d, s) == [op |-> "is", d |-> d, s |-> s]        \* Expect, once
Note == [op |-> "note"]
Running(who, n) == [op |-> "running", who |-> who, n |-> n]
Wants(n) == [op |-> "wants", n |-> n]
WantsNot(n) == [op |-> "wantsNot", n |-> n]
Continue == [op |-> "continue"]
Cancel == [op |-> "cancel"]
Sleep == [op |-> "sleep"]
NoteWorker == [op |-> "noteWorker"]
WorkerStarted == [op |-> "workerStarted"]
Scale == [op |-> "scale"]
HealthTimeout == [op |-> "healthTimeout"]

Canary(targets, mif) == <<Create("canary", "static", targets, mif), TwoWebs>>

Paused == <<Status(1, "PAUSED")>>
BothServe == <<Serves("static"), Serves("dora"), Note>>

\* One turn of the loop over the instance weights.
StepTurn(i) ==
  Paused \o BothServe \o <<Running("canary", i), Continue, Status(1, "DEPLOYING")>>

\* A faulty turn: it does not wait for the pause before it looks and continues.
StepTurnUnpaused(i) ==
  BothServe \o <<Running("canary", i), Continue, Status(1, "DEPLOYING")>>

\* A faulty loop, counting from zero.
StepTurnFromZero(i) ==
  Paused \o BothServe \o <<Running("canary", i - 1), Continue, Status(1, "DEPLOYING")>>

Turn(i) == StepTurn(i)

\* The last checks of a canary that is rolled out.
Checks == <<Running("canary", Instances), Only("static"), WorkerStarted>>

\* Faulty checks: the spec trusts the status and the instances.
ChecksTrusting == <<Running("canary", Instances)>>

RolledOut == Checks

\* One script for each spec.
ContinueScript ==
  <<Serves("dora"), NoteWorker>> \o Canary(<<1>>, 1) \o Paused \o BothServe
    \o <<Running("canary", 1), Continue, Status(1, "DEPLOYED")>> \o RolledOut

\* A faulty cancel: the spec waits to see the cancelling, which may be over.
CancelScriptSeeingIt ==
  <<Serves("dora")>> \o Canary(<<1>>, 1) \o Paused \o BothServe
    \o <<Running("canary", 1), Cancel, Status(1, "CANCELING"),
         Running("original", Instances), Never("static"), Only("dora")>>

CancelScript ==
  <<Serves("dora")>> \o Canary(<<1>>, 1) \o Paused \o BothServe
    \o <<Running("canary", 1), Cancel, Status(1, "CANCELED"),
         Running("original", Instances), Never("static"), Only("dora")>>

SupersedeScript ==
  <<Serves("dora")>> \o Canary(<<1>>, 1) \o Paused
    \o <<Note, Running("canary", 1), Create("rolling", "dora", <<>>, 1),
         Status(1, "SUPERSEDED"), Status(2, "DEPLOYED"), Note,
         Running("canary", Instances), Never("static"), Only("dora")>>

\* The turns of the loop, one after the other.
Loop ==
  LET n == Len(Turn(1)) IN
  [k \in 1..(n * Len(StepTargets)) |-> Turn(((k - 1) \div n) + 1)[((k - 1) % n) + 1]]

StepsScript ==
  <<Serves("dora"), NoteWorker>> \o Canary(StepTargets, 1) \o Loop
    \o <<Status(1, "DEPLOYED"), Note>> \o RolledOut

RollingScript ==
  <<Scale, HealthTimeout, Create("rolling", "dora", <<>>, 1), Status(1, "DEPLOYED")>>

InFlightScript ==
  <<Serves("dora"), Create("rolling", "dora", <<>>, MaxInFlight), TwoWebs, Note,
    Wants(MaxInFlight), Running("canary", Instances)>>

InFlightCanaryScript ==
  <<Serves("dora"), Create("canary", "dora", <<1>>, MaxInFlight), TwoWebs>> \o Paused
    \o <<Note, Continue, WantsNot(1), Wants(MaxInFlight), Running("canary", Instances)>>

\* From the deployment on; the droplet is made as AppPipeline has it.
BadDropletScript == <<Create("rolling", "bad", <<>>, 1), Sleep, Is(1, "DEPLOYING")>>

Script(s) ==
  CASE s = "continue" -> ContinueScript
    [] s = "cancel" -> CancelScript
    [] s = "supersede" -> SupersedeScript
    [] s = "steps" -> StepsScript
    [] s = "rolling" -> RollingScript
    [] s = "inFlight" -> InFlightScript
    [] s = "inFlightCanary" -> InFlightCanaryScript
    [] s = "badDroplet" -> BadDropletScript

\* The broken promises each spec is about, by the texts of its steps.
Broken(s) ==
  CASE s = "continue" -> {"neverPauses", "losesOriginal", "keepsOriginal", "noWorkerRestart"}
    [] s = "cancel" -> {"neverPauses", "losesOriginal", "keepsCanary"}
    [] s = "supersede" -> {"neverPauses", "neverSupersedes", "keepsCanary"}
    [] s = "steps" -> {"neverPauses", "losesOriginal", "keepsOriginal", "noWorkerRestart",
                       "skipsSteps", "oneCanary"}
    [] s = "rolling" -> {"neverDeploys"}
    [] s = "inFlight" -> {"oneInFlight"}
    [] s = "inFlightCanary" -> {"neverPauses", "oneInFlight"}
    [] s = "badDroplet" -> {"deploysBlindly", "healthyBlindly"}

Faults == {"none"} \cup UNION {Broken(s) : s \in Scenarios}
Droplets == {"dora", "static", "bad"}
Statuses == {"DEPLOYING", "PAUSED", "CANCELING", "DEPLOYED", "CANCELED", "SUPERSEDED"}

TypeOK ==
  /\ scenario \in Scenarios /\ fault \in Faults /\ pace \in {"prompt", "any"}
  /\ pc \in 1..(Len(Script(scenario)) + 1)
  /\ verdict \in {"running", "passed", "failed"}
  /\ noted \in [canary : 0..3, original : 0..3]
  /\ lucky \in BOOLEAN
  /\ fresh \in BOOLEAN
  /\ dep \in Seq([strategy : {"canary", "rolling"}, status : Statuses, step : Nat \ {0},
                  targets : Seq(1..Instances), mif : 1..Instances, proc : 2..3])
  /\ Len(dep) <= 2
  /\ proc \in Seq([droplet : Droplets, want : 0..Instances, running : 0..Instances,
                   live : BOOLEAN])
  /\ started \subseteq {"own", "other", "old"}

\* BeforeEach has left every instance of the dora droplet running.
Init ==
  /\ scenario \in Scenarios
  /\ fault \in {"none"} \cup Broken(scenario)
  /\ pace \in {"prompt", "any"}
  /\ pc = 1 /\ verdict = "running"
  /\ noted = [canary |-> 0, original |-> 0]
  /\ lucky = FALSE
  /\ fresh = FALSE
  /\ dep = <<>>
  /\ proc = <<[droplet |-> "dora", want |-> Instances, running |-> Instances, live |-> TRUE]>>
  /\ started = {}

\* The step the driver is at.
Spot == Script(scenario)[pc]
AtStep(ops) == verdict = "running" /\ Spot.op \in ops

-----------------------------------------------------------------------------
(* The platform. *)

Least(a, b) == IF a < b THEN a ELSE b
Live == {p \in 1..Len(proc) : proc[p].live}
Newest == CHOOSE p \in Live : \A q \in Live : q <= p
Serving == {proc[p].droplet : p \in {q \in Live : proc[q].running > 0}}
Final == {"DEPLOYED", "CANCELED", "SUPERSEDED"}

\* The instances of the app: the spec on the health check has scaled it to two.
Size == IF scenario = "rolling" THEN 2 ELSE Instances

\* The processes once p is to have n instances, and the other ones m.
Rescale(p, n, m) ==
  [q \in 1..Len(proc) |->
     IF q = p THEN [proc[q] EXCEPT !.want = n]
     ELSE IF proc[q].live THEN [proc[q] EXCEPT !.want = m] ELSE proc[q]]

\* The processes once only those of S are left.
Keep(S) ==
  [q \in 1..Len(proc) |->
     IF q \in S THEN proc[q] ELSE [proc[q] EXCEPT !.live = FALSE, !.want = 0, !.running = 0]]

\* POST /v3/deployments: an active deployment of the app is superseded.
Deploy(c) ==
  /\ dep' = Append([d \in 1..Len(dep) |->
                      IF dep[d].status \in Final \/ fault = "neverSupersedes" THEN dep[d]
                      ELSE [dep[d] EXCEPT !.status = "SUPERSEDED"]],
                   [strategy |-> c.strategy, status |-> "DEPLOYING", step |-> 1,
                    targets |-> c.targets, mif |-> c.mif, proc |-> Len(proc) + 1])
  /\ proc' = Append(proc, [droplet |-> c.droplet, running |-> 0, live |-> TRUE,
                           want |-> IF c.strategy = "canary" THEN c.targets[1]
                                    ELSE IF fault = "oneInFlight" THEN 1
                                    ELSE Least(c.mif, Size)])

\* Process p has an instance too few or too many; a bad droplet never comes up.
Due(p) ==
  /\ p \in Live /\ proc[p].running # proc[p].want
  /\ proc[p].running < proc[p].want => proc[p].droplet # "bad"

\* Diego starts or stops one instance.
Diego(p) ==
  /\ Due(p)
  /\ proc' = [proc EXCEPT ![p].running =
                IF @ < proc[p].want THEN @ + 1 ELSE @ - 1]
  /\ UNCHANGED <<chosen, driver, fresh, dep, started>>

InSteps(d) == dep[d].strategy = "canary" /\ dep[d].step <= Len(dep[d].targets)
Up(d) == proc[dep[d].proc].running = proc[dep[d].proc].want

\* The canary of the step is up: the deployment pauses.
CanPause(d) ==
  dep[d].status = "DEPLOYING" /\ InSteps(d) /\ Up(d) /\ fault # "neverPauses"

Pause(d) ==
  /\ CanPause(d)
  /\ dep' = [dep EXCEPT ![d].status = "PAUSED"]
  /\ proc' = IF fault = "losesOriginal"
               THEN [q \in 1..Len(proc) |->
                       IF q = dep[d].proc THEN proc[q]
                       ELSE [proc[q] EXCEPT !.want = 0, !.running = 0]]
               ELSE proc
  /\ UNCHANGED started

\* The new process grows by max_in_flight as the other ones shrink.
CanRollOn(d) ==
  /\ dep[d].status = "DEPLOYING" /\ ~InSteps(d) /\ Up(d)
  /\ proc[dep[d].proc].want < Size

RollOn(d) ==
  LET p == dep[d].proc
      inc == IF fault = "oneInFlight" THEN 1 ELSE dep[d].mif
      n == Least(proc[p].want + inc, Size) IN
  /\ CanRollOn(d)
  /\ proc' = IF fault \in {"keepsOriginal", "keepsCanary"}
               THEN [proc EXCEPT ![p].want = n]
               ELSE Rescale(p, n, Size - n)
  /\ UNCHANGED <<dep, started>>

\* Every instance is new: the others go, and the other process types restart.
CanFinish(d) ==
  /\ dep[d].status = "DEPLOYING" /\ ~InSteps(d) /\ fault # "neverDeploys"
  /\ fault = "deploysBlindly" \/ (Up(d) /\ proc[dep[d].proc].want = Size)

Finish(d) ==
  /\ CanFinish(d)
  /\ dep' = [dep EXCEPT ![d].status = "DEPLOYED"]
  /\ proc' = CASE fault = "keepsOriginal" -> proc
               [] fault = "keepsCanary" -> Keep({dep[d].proc, 2})
               [] OTHER -> Keep({dep[d].proc})
  /\ started' = IF fault = "noWorkerRestart" THEN started ELSE started \cup {"own"}

\* The original process is back at full size: the canary goes.
CanFinishCancel(d) == dep[d].status = "CANCELING" /\ proc[1].running = Instances

FinishCancel(d) ==
  /\ CanFinishCancel(d)
  /\ dep' = [dep EXCEPT ![d].status = "CANCELED"]
  /\ proc' = IF fault = "keepsCanary" THEN proc ELSE Keep({1})
  /\ UNCHANGED started

\* A prompt spec does not let the updater run ahead.
Waited == pace = "prompt" => ~fresh \/ AtStep({"sleep"})

\* A round of the deployment updater.
Update(d) ==
  /\ Waited
  /\ Pause(d) \/ RollOn(d) \/ Finish(d) \/ FinishCancel(d)
  /\ fresh' = TRUE
  /\ UNCHANGED <<chosen, driver>>

Platform == (\E p \in 1..Len(proc) : Diego(p)) \/ (\E d \in 1..Len(dep) : Update(d))

\* The platform has nothing left to do.
Idle ==
  /\ \A p \in 1..Len(proc) : ~Due(p)
  /\ Waited => \A d \in 1..Len(dep) :
                ~(CanPause(d) \/ CanRollOn(d) \/ CanFinish(d) \/ CanFinishCancel(d))

\* A spec on another process starts an app that has a worker.
Neighbour ==
  /\ Neighbours /\ started' = started \cup {"other"}
  /\ UNCHANGED <<chosen, driver, fresh, dep, proc>>

-----------------------------------------------------------------------------
(* The driver. *)

\* On to the next step, or to the end of the spec.
Advance ==
  /\ pc' = pc + 1
  /\ verdict' = IF pc = Len(Script(scenario)) THEN "passed" ELSE "running"

\* On, with nothing noted.
GoOn == Advance /\ UNCHANGED <<noted, lucky>>

Fail == verdict' = "failed" /\ UNCHANGED <<pc, noted, lucky>>

\* ScaleApp(appGUID, 2)
ScaleApp ==
  /\ AtStep({"scale"})
  /\ proc' = [proc EXCEPT ![1].want = Size]
  /\ GoOn /\ UNCHANGED <<chosen, fresh, dep, started>>

\* Five seconds for the health check, which an instance that comes up passes.
SetHealthCheckTimeoutOnProcess ==
  /\ AtStep({"healthTimeout"})
  /\ GoOn /\ UNCHANGED <<chosen, fresh, dep, proc, started>>

\* The last start of a worker, of any app.  When the answer is an error, which is
\* not looked at, none is noted and the starts before it count as well.
NoteWorkerStart ==
  /\ AtStep({"noteWorker"})
  /\ \/ started' = {}
     \/ pace = "any" /\ started' = {"old"}
  /\ GoOn /\ UNCHANGED <<chosen, fresh, dep, proc>>

\* POST /v3/deployments and its two actions; Continue and Cancel expect "200 OK".
PostDeployment ==
  /\ AtStep({"create"})
  /\ Deploy(Spot) /\ GoOn /\ fresh' = TRUE
  /\ UNCHANGED <<chosen, started>>

ContinueDeployment ==
  /\ AtStep({"continue"})
  /\ IF dep[1].status = "PAUSED"
       THEN LET d == dep[1]
                step == IF fault = "skipsSteps" THEN Len(d.targets) + 1 ELSE d.step + 1
                n == IF fault = "oneCanary" THEN 1 ELSE d.targets[step]
            IN /\ dep' = [dep EXCEPT ![1].status = "DEPLOYING", ![1].step = step]
               /\ proc' = IF step <= Len(d.targets) THEN Rescale(d.proc, n, Instances - n + 1)
                                                     ELSE proc
               /\ GoOn /\ fresh' = TRUE
       ELSE Fail /\ UNCHANGED <<dep, proc, fresh>>
  /\ UNCHANGED <<chosen, started>>

\* A faulty cancel: the original is to make up for the canary as well.
CancelOvershooting ==
  /\ AtStep({"cancel"})
  /\ dep' = [dep EXCEPT ![1].status = "CANCELING"]
  /\ proc' = [proc EXCEPT ![1].want = Instances + proc[2].want]
  /\ GoOn /\ fresh' = TRUE
  /\ UNCHANGED <<chosen, started>>

CancelDeployment ==
  /\ AtStep({"cancel"})
  /\ IF dep[1].status \notin Final
       THEN /\ dep' = [dep EXCEPT ![1].status = "CANCELING"]
            /\ proc' = [proc EXCEPT ![1].want = Instances]
            /\ GoOn /\ fresh' = TRUE
       ELSE Fail /\ UNCHANGED <<dep, proc, fresh>>
  /\ UNCHANGED <<chosen, started>>

\* GetProcessGuidsForType, of which the spec keeps the last one, and the last but
\* one if it cancels: an index out of range ends it.
NoteProcesses ==
  /\ AtStep({"note"})
  /\ IF scenario = "cancel" => Live # {Newest}
       THEN /\ noted' = [canary |-> Newest,
                         original |-> IF Live = {Newest} THEN 0
                                      ELSE CHOOSE p \in Live \ {Newest} :
                                             \A q \in Live \ {Newest} : q <= p]
            /\ Advance /\ fresh' = FALSE /\ UNCHANGED lucky
       ELSE Fail /\ UNCHANGED fresh
  /\ UNCHANGED <<chosen, dep, proc, started>>

\* The field last_successful_healthcheck of a deployment is set.
Healthy(d) == fault = "healthyBlindly" \/ proc[dep[d].proc].running > 0

Awaited == {"serves", "only", "twoWebs", "status", "running", "wantsNot", "workerStarted"}
Asserted == {"never", "wants", "is"}

\* A look can show what the step wants: a curl may reach any instance that serves.
Seen ==
  CASE Spot.op \in {"serves", "only"} -> Spot.v \in Serving
    [] Spot.op = "never" -> Serving # {Spot.v}
    [] Spot.op = "twoWebs" -> \E p, q \in Live : p # q
    [] Spot.op = "status" -> dep[Spot.d].status = Spot.s
    [] Spot.op = "is" -> dep[Spot.d].status = Spot.s /\ ~Healthy(Spot.d)
    [] Spot.op = "running" -> proc[noted[Spot.who]].running = Spot.n
    [] Spot.op = "wants" -> proc[noted.canary].want = Spot.n
    [] Spot.op = "wantsNot" -> proc[noted.canary].want # Spot.n
    [] Spot.op = "workerStarted" -> started # {}

\* Every look shows it.
Sure ==
  CASE Spot.op \in {"serves", "only"} -> Serving = {Spot.v}
    [] Spot.op = "never" -> Spot.v \notin Serving
    [] OTHER -> Seen

\* What the step wants is shown, by luck when ten curls in a row, or all the curls
\* of a Consistently, have missed an instance that serves.
Show ==
  /\ Seen /\ Advance
  /\ lucky' = (lucky \/ (Spot.op \in {"only", "never"} /\ ~Sure))
  /\ UNCHANGED noted

\* GetRunningInstancesStats expects 200 whenever it is called.
Gone == Spot.op = "running" /\ noted[Spot.who] \notin Live

\* One poll; a poll that does not see what it wants leaves only the time it took.
Poll ==
  /\ AtStep(Awaited)
  /\ \/ Gone /\ Fail
     \/ ~Gone /\ Show
     \/ ~Gone /\ ~Sure /\ UNCHANGED driver
  /\ fresh' = FALSE
  /\ UNCHANGED <<chosen, dep, proc, started>>

\* A look of a Consistently or of an Expect: the first that disagrees ends the spec;
\* the others go on until the time of the Consistently is over.
Check ==
  /\ AtStep(Asserted)
  /\ \/ ~Sure /\ Fail
     \/ Show
     \/ Spot.op # "is" /\ Seen /\ UNCHANGED driver
  /\ fresh' = FALSE
  /\ UNCHANGED <<chosen, dep, proc, started>>

\* time.Sleep(60s): the platform has done all it is going to do.
SleepOver ==
  /\ AtStep({"sleep"}) /\ Idle
  /\ GoOn
  /\ UNCHANGED <<chosen, fresh, dep, proc, started>>

\* A faulty WaitUntilDeploymentReachesStatus: it waits for ever.
TimeoutExceptStatus ==
  /\ AtStep(Awaited \ {"status"}) /\ ~Gone /\ ~Seen /\ ~fresh /\ Idle
  /\ Fail
  /\ UNCHANGED <<chosen, fresh, dep, proc, started>>

\* The wait is over and the platform has nothing left to do.
Timeout ==
  /\ AtStep(Awaited) /\ ~Gone /\ ~Seen /\ ~fresh /\ Idle
  /\ Fail
  /\ UNCHANGED <<chosen, fresh, dep, proc, started>>

\* A request fails and its Expect, inside Eventually too, ends the spec, an empty
\* answer is indexed, or a wait runs out before the platform is done.
Hiccup ==
  /\ pace = "any" /\ verdict = "running" /\ Spot.op # "sleep"
  /\ Fail
  /\ UNCHANGED <<chosen, fresh, dep, proc, started>>

\* GetProcessByGuid does not notice an error: the process it makes of one has no
\* instances, which is not one instance either.
Misread ==
  /\ pace = "any" /\ AtStep({"wantsNot"})
  /\ GoOn
  /\ UNCHANGED <<chosen, fresh, dep, proc, started>>

Driver ==
  \/ ScaleApp \/ SetHealthCheckTimeoutOnProcess \/ NoteWorkerStart
  \/ PostDeployment \/ ContinueDeployment \/ CancelDeployment \/ NoteProcesses
  \/ Poll \/ Check \/ SleepOver \/ Timeout

Next == Platform \/ Driver \/ Neighbour \/ Hiccup \/ Misread

Spec == Init /\ [][Next]_vars

\* The updater and Diego keep working; the spec keeps polling and gives up in time.
FairSpec == Spec /\ WF_vars(Platform) /\ WF_vars(Driver)

-----------------------------------------------------------------------------
(* Properties. *)

\* The specs whose Consistently sees a ramp only if it looks early enough.
Ramps == {"inFlight", "inFlightCanary"}

\* What cannot be told: another app's worker, or an old start, passes for the
\* restart (see WorkerRestarted), and curls that miss an instance for its absence.
Hidden ==
  (IF started \cap {"other", "old"} # {} THEN {"noWorkerRestart"} ELSE {})
    \cup (IF lucky THEN {"keepsOriginal", "keepsCanary"} ELSE {})

\* No spec passes on a platform that breaks a promise the spec is about, at
\* whatever pace it polls and whichever of its requests and looks go wrong, other
\* than one its looks could not tell.  The two on max_in_flight need to poll
\* promptly.
NoFaultPasses ==
  verdict = "passed" /\ (pace = "prompt" \/ scenario \notin Ramps)
    => fault \in {"none"} \cup Hidden

\* "Did not find a start event indicating the 'worker' process restarted"
\* (deployments.go:199, :374): a spec that passes has seen its worker restart, if
\* the events before the deployment were noted.
WorkerRestarted ==
  verdict = "passed" /\ scenario \in {"continue", "steps"} /\ "old" \notin started
    => "own" \in started

\* On a sound platform the spec never asks to continue or cancel a deployment that
\* cannot be, and never asks for the instances of a process that is gone.
NoCallRefused ==
  fault = "none" =>
    /\ AtStep({"continue"}) => dep[1].status = "PAUSED"
    /\ AtStep({"cancel"}) => dep[1].status \notin Final
    /\ AtStep({"running"}) => ~Gone

\* What the updater's next round may undo: ACTIVE/DEPLOYING after a continue
\* (deployments.go:347), and the two processes of a rolling deployment (:388).
Transient == Spot = Status(1, "DEPLOYING") \/ (Spot.op = "twoWebs" /\ scenario = "inFlight")

\* However slowly it polls, a spec waits in vain on a sound platform for no more than
\* what the updater may undo before the spec looks, and what a Consistently or a last
\* Expect asserts is so for good by the time the spec comes to it.
OnlyTransientsMissed ==
  fault = "none" =>
    /\ AtStep(Awaited) /\ ~Gone /\ ~Seen /\ ~fresh /\ Idle => Transient
    /\ AtStep({"never", "is"}) => Sure

\* A spec that polls promptly, whose requests are answered and whose waits are long
\* enough, passes on a sound platform.
SoundPlatformPasses ==
  (fault = "none" /\ pace = "prompt") => <>(verdict = "passed")

\* Every spec ends, whatever the platform breaks and however slowly it polls.
EverySpecEnds == <>(verdict # "running")
=============================================================================
