---------------------------- MODULE AsyncBroker ----------------------------
(***************************************************************************)
(* The configurable service broker the suite pushes as an app              *)
(* (assets/service_broker/service_broker.rb), with the platform as its     *)
(* client and whoever reconfigures, resets or restarts it.                 *)
(*                                                                         *)
(* The broker serves every request in a thread of its own.  A handler does *)
(* its work in steps another thread may come between: it looks its         *)
(* instance up (or creates it), changes it and picks the configured        *)
(* behaviour, sleeps as long as that says, and only then responds.  The    *)
(* platform has at most one request per instance under way, and gives up   *)
(* on a response that takes too long while the handler goes on.            *)
(*                                                                         *)
(* obj[i] is the ServiceInstance last made for i, and i is in listed while *)
(* $datasource holds it.  A handler that has looked its instance up keeps  *)
(* the object: through a reset, which replaces $datasource, and when POST  *)
(* /config puts another object under the guid (kept, in its request).      *)
(***************************************************************************)
EXTENDS Integers

CONSTANTS
  Instances,    \* service instance guids
  Plans,        \* plan ids of the catalog
  Default,      \* the behaviour key "default"
  Limit,        \* bound: the largest max_fetch_service_instance_requests configured
  DataJson,     \* data.json: behaviours, fetch behaviours, maximum
  Configurations, \* bound: what POST /config may send
  None          \* no behaviour, no instance, no plan; nothing sent for a key

Actions == {"provision", "update", "deprovision"}
Keys == Plans \cup {Default}
Behavior == [status : {"200", "202", "400"}, async_only : BOOLEAN]
Behaviors == [Keys -> Behavior \cup {None}]

\* What the platform reads in a response to last_operation: the state in its body, or
\* "500" for a response that has no such body, or another status.
Outcomes == {"in progress", "succeeded", "failed", "500"}
FetchBehavior == [in_progress : Outcomes, finished : Outcomes]
FetchBehaviors == [Keys -> FetchBehavior \cup {None}]
ServiceInstance == [plan_id : Plans, fetch_count : 0..(Limit + 1), deleted : BOOLEAN]

\* The body of POST /config.
Configuration ==
  [behaviors : [Actions -> Behaviors \cup {None}], fetch : FetchBehaviors \cup {None},
   max : 0..Limit \cup {None}, instances : [Instances -> ServiceInstance \cup {None}]]

ASSUME BrokerAssumption ==
  /\ Limit \in Nat
  /\ Default \notin Plans /\ None \notin Plans /\ None \notin 0..(Limit + 1)
  /\ None \notin Behavior /\ None \notin ServiceInstance
  /\ None \notin Behaviors /\ None \notin FetchBehavior /\ None \notin FetchBehaviors
  /\ DataJson \in [behaviors : [Actions -> Behaviors], fetch : FetchBehaviors, max : 0..Limit]
  /\ Configurations \subseteq Configuration

VARIABLES
  behaviors,  \* $datasource.data['behaviors'], for the three actions
  fetch,      \* ... and for 'fetch'
  max,        \* $datasource.data['max_fetch_service_instance_requests']
  obj,        \* per guid, the last ServiceInstance made for it
  listed,     \* the guids $datasource.data['service_instances'] holds
  req,        \* per guid, the request the platform has under way
  client,     \* per guid, what the platform believes
  told,       \* per guid, the response of last_operation since its operation began, or
              \* POST /config wrote it
  origin      \* per guid, what the platform knows of the change that gave it its plan

vars == <<behaviors, fetch, max, obj, listed, req, client, told, origin>>
config == <<behaviors, fetch, max>>

Op == Actions \cup {"last_operation"}
Statuses == {"200", "202", "400", "422", "500"}
States == {"in_progress", "finished", "failed"}

\* What may set platform and broker apart on a plan: an answer that was lost, a 422
\* for what had been carried out, an operation whose end was called a failure, and an
\* instance written by POST /config.
Causes == {"lost", "refused", "failed", "config"}

Idle == [pc |-> "idle", op |-> "last_operation", plan |-> None, ai |-> FALSE,
         found |-> FALSE, kept |-> None, answer |-> "500"]

Request ==
  [pc : {"idle", "sent", "looked", "sleeping"}, op : Op, plan : Plans \cup {None},
   ai : BOOLEAN, found : BOOLEAN, kept : ServiceInstance \cup {None},
   answer : Statuses \cup Outcomes]

Client ==
  [state : {"absent", "creating", "ready", "updating", "deleting", "unsure"},
   plan : Plans \cup {None}, want : Plans \cup {None}]

TypeOK ==
  /\ behaviors \in [Actions -> Behaviors]
  /\ fetch \in FetchBehaviors
  /\ max \in 0..Limit
  /\ obj \in [Instances -> ServiceInstance \cup {None}]
  /\ listed \subseteq Instances
  /\ req \in [Instances -> Request]
  /\ client \in [Instances -> Client]
  /\ told \in [Instances -> States \cup {"nothing", "written"}]
  /\ origin \in [Instances -> Causes \cup {"untold", "told"}]

Init ==
  /\ behaviors = DataJson.behaviors /\ fetch = DataJson.fetch /\ max = DataJson.max
  /\ obj = [i \in Instances |-> None]
  /\ listed = {}
  /\ req = [i \in Instances |-> Idle]
  /\ client = [i \in Instances |-> [state |-> "absent", plan |-> None, want |-> None]]
  /\ told = [i \in Instances |-> "nothing"]
  /\ origin = [i \in Instances |-> "told"]

-----------------------------------------------------------------------------
(* The platform sends a request. *)

Send(i, op, plan, ai) ==
  /\ req[i].pc = "idle"
  /\ req' = [req EXCEPT ![i] = [Idle EXCEPT !.pc = "sent", !.op = op,
                                            !.plan = plan, !.ai = ai]]
  /\ UNCHANGED <<config, obj, listed, client, told, origin>>

SendProvision(i) ==
  /\ client[i].state = "absent"
  /\ \E p \in Plans, ai \in BOOLEAN : Send(i, "provision", p, ai)

SendUpdate(i) ==
  /\ client[i].state = "ready"
  /\ \E p \in Plans, ai \in BOOLEAN : Send(i, "update", p, ai)

SendDeprovision(i) ==
  /\ client[i].state \in {"ready", "unsure"}
  /\ \E ai \in BOOLEAN : Send(i, "deprovision", None, ai)

SendPoll(i) ==
  /\ client[i].state \in {"creating", "updating", "deleting"}
  /\ Send(i, "last_operation", None, FALSE)

-----------------------------------------------------------------------------
(* The broker's handlers. *)

\* DataSource#behavior_for_type; None stands for the exception it raises.
BehaviorForType(type, plan) ==
  IF plan \in Plans /\ behaviors[type][plan] # None
    THEN behaviors[type][plan]
    ELSE behaviors[type][Default]

\* The same for 'fetch', and what the platform makes of its response.
FetchFor(plan, state) ==
  LET f == IF fetch[plan] # None THEN fetch[plan] ELSE fetch[Default] IN
  IF f = None THEN "500" ELSE f[state]

\* The status respond_with_behavior sends; an exception becomes a 500.
StatusOf(behavior, ai) ==
  CASE behavior = None -> "500"
    [] behavior # None /\ behavior.async_only /\ ~ai -> "422"
    [] OTHER -> behavior.status

\* The object the handler holds.
Held(i) == IF req[i].kept = None THEN obj[i] ELSE req[i].kept

\* The handler leaves the object as it is, and falls asleep with its answer.
Fall(i, answer) ==
  /\ req' = [req EXCEPT ![i] = [@ EXCEPT !.pc = "sleeping", !.answer = answer]]
  /\ UNCHANGED obj

\* ... or changes it to o, which nobody will see if another has taken its place.
FallWith(i, o, answer) ==
  IF req[i].kept = None
    THEN /\ obj' = [obj EXCEPT ![i] = o]
         /\ req' = [req EXCEPT ![i] = [@ EXCEPT !.pc = "sleeping", !.answer = answer]]
    ELSE /\ req' = [req EXCEPT ![i] = [@ EXCEPT !.pc = "sleeping", !.answer = answer,
                                                 !.kept = o]]
         /\ UNCHANGED obj

\* An operation begins: last_operation has not answered about it yet.
Began(i) == told' = [told EXCEPT ![i] = "nothing"]

\* The plan of the instance in $datasource is another, and the platform does not know.
Replanned(i) ==
  origin' = IF req[i].kept = None THEN [origin EXCEPT ![i] = "untold"] ELSE origin

\* PUT first creates the instance, over any it finds, whatever it will answer;
\* the other handlers look theirs up in $datasource.
Look(i) ==
  /\ req[i].pc = "sent"
  /\ IF req[i].op = "provision"
       THEN /\ obj' = [obj EXCEPT ![i] =
                         [plan_id |-> req[i].plan, fetch_count |-> 0, deleted |-> FALSE]]
            /\ listed' = listed \cup {i}
            /\ Began(i) /\ Replanned(i)
       ELSE UNCHANGED <<obj, listed, told, origin>>
  /\ req' = [req EXCEPT ![i] = [@ EXCEPT !.pc = "looked", !.found = (i \in listed')]]
  /\ UNCHANGED <<config, client>>

DecideProvision(i) ==
  /\ req[i].pc = "looked" /\ req[i].op = "provision"
  /\ Fall(i, StatusOf(BehaviorForType("provision", req[i].plan), req[i].ai))
  /\ UNCHANGED <<config, listed, client, told, origin>>

\* A faulty PATCH: the update is applied whatever the configured status.
DecideUpdateAlways(i) ==
  /\ req[i].pc = "looked" /\ req[i].op = "update"
  /\ LET answer == StatusOf(BehaviorForType("update", req[i].plan), req[i].ai) IN
     IF req[i].found
       THEN /\ FallWith(i, [Held(i) EXCEPT !.plan_id = req[i].plan, !.fetch_count = 0], answer)
            /\ Began(i) /\ Replanned(i)
       ELSE Fall(i, answer) /\ UNCHANGED <<told, origin>>
  /\ UNCHANGED <<config, listed, client>>

\* A faulty update!: the requests counted for the last operation stay counted.
DecideUpdateKeepingCount(i) ==
  /\ req[i].pc = "looked" /\ req[i].op = "update"
  /\ LET behavior == BehaviorForType("update", req[i].plan)
         answer == StatusOf(behavior, req[i].ai) IN
     IF behavior # None /\ behavior.status \in {"200", "202"} /\ req[i].found
       THEN /\ FallWith(i, [Held(i) EXCEPT !.plan_id = req[i].plan], answer)
            /\ Began(i) /\ Replanned(i)
       ELSE Fall(i, answer) /\ UNCHANGED <<told, origin>>
  /\ UNCHANGED <<config, listed, client>>

\* PATCH: update! is called when the configured status is 200 or 202.
DecideUpdate(i) ==
  /\ req[i].pc = "looked" /\ req[i].op = "update"
  /\ LET behavior == BehaviorForType("update", req[i].plan)
         answer == StatusOf(behavior, req[i].ai) IN
     IF behavior # None /\ behavior.status \in {"200", "202"} /\ req[i].found
       THEN /\ FallWith(i, [Held(i) EXCEPT !.plan_id = req[i].plan, !.fetch_count = 0], answer)
            /\ Began(i) /\ Replanned(i)
       ELSE Fall(i, answer) /\ UNCHANGED <<told, origin>>
  /\ UNCHANGED <<config, listed, client>>

\* A faulty delete!: it clears the count to nothing instead of to zero.
DecideDeprovisionToNil(i) ==
  /\ req[i].pc = "looked" /\ req[i].op = "deprovision"
  /\ LET answer == StatusOf(BehaviorForType("deprovision", None), req[i].ai) IN
     IF req[i].found
       THEN FallWith(i, [Held(i) EXCEPT !.deleted = TRUE, !.fetch_count = None], answer)
       ELSE Fall(i, answer)
  /\ UNCHANGED <<config, listed, client, told, origin>>

\* DELETE: delete! first, then the behaviour of the instance's plan.
DecideDeprovision(i) ==
  /\ req[i].pc = "looked" /\ req[i].op = "deprovision"
  /\ IF req[i].found
       THEN /\ FallWith(i, [Held(i) EXCEPT !.deleted = TRUE, !.fetch_count = 0],
                        StatusOf(BehaviorForType("deprovision", Held(i).plan_id), req[i].ai))
            /\ Began(i)
       ELSE /\ Fall(i, StatusOf(BehaviorForType("deprovision", None), req[i].ai))
            /\ UNCHANGED told
  /\ UNCHANGED <<config, listed, client, origin>>

\* increment_fetch_count, with the count no longer told apart above Limit.
Incremented(count) == IF count > Limit THEN count ELSE count + 1

\* A faulty increment_fetch_count: it returns the new count and forgets it.
NotIncremented(count) == count

Counted(count) == Incremented(count)

\* last_operation compares the new count, and answers what is configured for the state.
DecidePoll(i) ==
  /\ req[i].pc = "looked" /\ req[i].op = "last_operation"
  /\ IF req[i].found
       THEN LET o == Held(i)
                state == IF o.fetch_count + 1 > max THEN "finished" ELSE "in_progress" IN
            /\ FallWith(i, [o EXCEPT !.fetch_count = Counted(@)], FetchFor(o.plan_id, state))
            /\ told' = [told EXCEPT ![i] = state]
       ELSE Fall(i, "failed") /\ told' = [told EXCEPT ![i] = "failed"]
  /\ UNCHANGED <<config, listed, client, origin>>

-----------------------------------------------------------------------------
(* The response, or its loss, at the platform. *)

\* What the platform believes once it has the answer of its request.  An answer to
\* last_operation that it does not understand is none: it asks again.
Believes(i) ==
  LET c == client[i]  r == req[i]  ok == r.answer = "200"  accepted == r.answer = "202" IN
  CASE r.op = "provision" ->
         IF ok \/ accepted
           THEN [c EXCEPT !.state = IF ok THEN "ready" ELSE "creating", !.plan = r.plan]
           ELSE c
    [] r.op = "update" ->
         CASE ok -> [c EXCEPT !.plan = r.plan]
           [] accepted -> [c EXCEPT !.state = "updating", !.want = r.plan]
           [] OTHER -> c
    [] r.op = "deprovision" ->
         CASE ok -> [c EXCEPT !.state = "absent", !.plan = None]
           [] accepted -> [c EXCEPT !.state = "deleting"]
           [] OTHER -> c
    [] r.op = "last_operation" /\ r.answer = "succeeded" ->
         CASE c.state = "updating" -> [state |-> "ready", plan |-> c.want, want |-> None]
           [] c.state = "creating" -> [c EXCEPT !.state = "ready"]
           [] OTHER -> [state |-> "absent", plan |-> None, want |-> None]
    [] r.op = "last_operation" /\ r.answer = "failed" ->
         IF c.state = "creating" \/ c.plan = None
           THEN [state |-> "unsure", plan |-> None, want |-> None]
           ELSE [state |-> "ready", plan |-> c.plan, want |-> None]
    [] OTHER -> c

\* What it then knows of the change that gave the instance its plan.
Learned(i) ==
  LET r == req[i] IN
  IF origin[i] # "untold" THEN origin[i] ELSE
  CASE r.op \in {"provision", "update"} /\ r.answer = "200" -> "told"
    [] r.op \in {"provision", "update"} /\ r.answer = "422" -> "refused"
    [] r.op = "last_operation" /\ r.answer = "succeeded" -> "told"
    [] r.op = "last_operation" /\ r.answer = "failed" -> "failed"
    [] OTHER -> "untold"

\* After a request without an answer: an instance it tried to create is deprovisioned,
\* an update it takes for failed, whatever the broker has done.
Doubts(i) ==
  IF req[i].op = "provision" THEN [client[i] EXCEPT !.state = "unsure"] ELSE client[i]

Unlearned(i) ==
  IF origin[i] = "untold" /\ req[i].op \in {"provision", "update"} THEN "lost" ELSE origin[i]

\* The handler is gone; the next poll is about the object in $datasource, which may be
\* another than the one this handler held.
Leave(i) ==
  /\ req' = [req EXCEPT ![i] = Idle]
  /\ told' = IF i \in listed /\ (req[i].kept # None \/ ~req[i].found)
               THEN [told EXCEPT ![i] = "written"] ELSE told
  /\ UNCHANGED <<config, obj, listed>>

\* The sleep is over and the response reaches the platform.
Respond(i) ==
  /\ req[i].pc = "sleeping"
  /\ client' = [client EXCEPT ![i] = Believes(i)]
  /\ origin' = [origin EXCEPT ![i] = Learned(i)]
  /\ Leave(i)

\* The sleep outlasts the platform's patience and the answer is not read.
GiveUp(i) ==
  /\ req[i].pc = "sleeping"
  /\ client' = [client EXCEPT ![i] = Doubts(i)]
  /\ origin' = [origin EXCEPT ![i] = Unlearned(i)]
  /\ Leave(i)

-----------------------------------------------------------------------------
(* The configuration API, and the app's own life. *)

InHandler(i) == req[i].pc \in {"looked", "sleeping"}

\* POST /config: merge! replaces the whole entry of an action (it is shallow), the
\* maximum, and the instances it is sent, under whatever a handler is doing.
Merge(c) ==
  /\ behaviors' = [a \in Actions |-> IF c.behaviors[a] = None THEN behaviors[a]
                                                              ELSE c.behaviors[a]]
  /\ fetch' = IF c.fetch = None THEN fetch ELSE c.fetch
  /\ max' = IF c.max = None THEN max ELSE c.max
  /\ LET written == {i \in Instances : c.instances[i] # None} IN
     /\ obj' = [i \in Instances |-> IF i \in written THEN c.instances[i] ELSE obj[i]]
     /\ listed' = listed \cup written
     /\ req' = [i \in Instances |->
                  IF i \in written /\ InHandler(i) /\ req[i].found
                    THEN [req[i] EXCEPT !.kept = Held(i)] ELSE req[i]]
     /\ told' = [i \in Instances |->
                   IF i \in written /\ ~InHandler(i) THEN "written" ELSE told[i]]
     /\ origin' = [i \in Instances |-> IF i \in written THEN "config" ELSE origin[i]]
  /\ UNCHANGED client

Reconfigure == \E c \in Configurations : Merge(c)

\* data.json is read into a new $datasource.
ReadDataJson ==
  /\ behaviors' = DataJson.behaviors /\ fetch' = DataJson.fetch /\ max' = DataJson.max
  /\ listed' = {}

\* POST /config/reset.
Reset == ReadDataJson /\ UNCHANGED <<obj, req, client, told, origin>>

\* The broker app is restarted: as a reset, and requests under way are lost.
Restart ==
  /\ ReadDataJson
  /\ client' = [i \in Instances |-> IF req[i].pc = "idle" THEN client[i] ELSE Doubts(i)]
  /\ req' = [i \in Instances |-> Idle]
  /\ UNCHANGED <<obj, told, origin>>

Decide(i) == DecideProvision(i) \/ DecideUpdate(i) \/ DecideDeprovision(i) \/ DecidePoll(i)

Next ==
  \/ \E i \in Instances :
       \/ SendProvision(i) \/ SendUpdate(i) \/ SendDeprovision(i) \/ SendPoll(i)
       \/ Look(i) \/ Decide(i)
       \/ Respond(i) \/ GiveUp(i)
  \/ Reconfigure
  \/ Reset
  \/ Restart

Spec == Init /\ [][Next]_vars

\* The platform keeps polling an operation it knows of; not every request is cut
\* off by a restart before its thread runs, nor every response too late.
Fairness == \A i \in Instances : /\ WF_vars(SendPoll(i))
                                 /\ SF_vars(Look(i))
                                 /\ SF_vars(Decide(i))
                                 /\ SF_vars(Respond(i))

FairSpec == Spec /\ Fairness

-----------------------------------------------------------------------------
(* Properties. *)

\* Platform and broker hold different plans of an instance at rest only for one of
\* the Causes: after a lost answer, a 422, an operation called a failure or a write
\* by POST /config, and until the next plan the platform is told of.  No refusal, no
\* order of requests, reconfigurations, resets and restarts sets them apart (update!,
\* create_service_instance, respond_with_behavior).
PlanAgreed ==
  \A i \in listed :
    client[i].state = "ready" /\ req[i].pc = "idle" /\ obj[i].plan_id # client[i].plan
      => origin[i] \in Causes

\* The README's promise about last_operation: see AsyncOperation.  What is asked is
\* counted by the object the handler under way holds, which may be one that
\* $datasource has lost, and else by the one $datasource has.
AskedOf(i) ==
  IF InHandler(i)
    THEN IF req[i].found THEN Held(i).fetch_count ELSE None
    ELSE IF i \in listed THEN obj[i].fetch_count ELSE None

Promise == INSTANCE AsyncOperation
             WITH asked <- [i \in Instances |-> AskedOf(i)], said <- told, NoOperation <- None

KeepsPromise == Promise!Spec

\* The configured response to an operation that is finished tells the platform so.
Conclusive ==
  \A plan \in Plans : FetchFor(plan, "finished") \in {"succeeded", "failed"}

\* POST /config writes instance i, with the requests it has seen.
Writes(i) == \E c \in Configurations : c.instances[i] # None /\ Merge(c)

\* Every operation the platform was told to wait for comes to an end for it, when from
\* some time on the configured response to a finished operation says so and POST
\* /config writes the instance no more: however the maximum and the behaviours are
\* changed, the broker reset or restarted meanwhile.
OperationsEnd ==
  \A i \in Instances :
    <>[]Conclusive /\ <>[][~Writes(i)]_vars =>
      (client[i].state \in {"creating", "updating", "deleting"}
         ~> client[i].state \notin {"creating", "updating", "deleting"})

\* The broker's own tests (spec/service_broker_spec.rb:72, :135, :189) say it
\* "rejects request if it does not include accepts_incomplete": a request it
\* answers 422 has left the instance as the handler found it.
RejectedChangesNothing ==
  [][\A i \in Instances :
       (req[i].pc = "looked" /\ req'[i].answer = "422" /\ req'[i].pc = "sleeping")
         => obj'[i] = obj[i]]_vars
=============================================================================
