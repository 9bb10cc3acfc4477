------------------------- MODULE AsyncBrokerProofs -------------------------
(***************************************************************************)
(* Type correctness of the broker model, PlanAgreed, and that the broker   *)
(* keeps the promise of AsyncOperation, for any number of instances and    *)
(* plans, any data.json and anything POST /config may send.  PlanAgreed    *)
(* speaks of an instance at rest; what makes it inductive is where the two *)
(* sides stand in the middle of each request.  The promise needs only that *)
(* a handler which found its instance holds an object of it.               *)
(***************************************************************************)
EXTENDS AsyncBroker, TLAPS

Waiting == {"creating", "updating", "deleting"}

\* A ServiceInstance exists for every guid listed, and for every handler that
\* found one; only a write of POST /config parts a handler from the listed object.
ObjectInv(i) ==
  /\ i \in listed \/ req[i].found => obj[i] # None
  /\ req[i].kept # None => req[i].found /\ origin[i] = "config"
  /\ req[i].found => InHandler(i)
  /\ InHandler(i) /\ ~req[i].found /\ i \in listed => origin[i] = "config"

\* The platform sends a request only in the states that call for it, and holds no
\* plan of an instance that it does not take to exist.
TurnInv(i) ==
  /\ req[i].pc # "idle" =>
       /\ req[i].op = "provision" => client[i].state = "absent" /\ req[i].plan \in Plans
       /\ req[i].op = "update" => client[i].state = "ready" /\ req[i].plan \in Plans
       /\ req[i].op = "deprovision" => client[i].state \in {"ready", "unsure"}
       /\ req[i].op = "last_operation" => client[i].state \in Waiting
  /\ client[i].state \in {"absent", "unsure"} => client[i].plan = None

\* The change that gave the instance its plan is one the platform has not been told
\* the end of.
Pending(i, plan) == origin[i] = "untold" /\ obj[i].plan_id = plan

\* An update whose answer does not say that it was left alone.
Changed(i) == /\ req[i].pc = "sleeping" /\ req[i].op = "update"
              /\ req[i].answer \in {"200", "202", "422"}

\* The plan the broker stores, in the middle of a request and between requests.
PlanInv(i) ==
  i \in listed /\ origin[i] \notin Causes =>
    /\ req[i].op = "provision" /\ InHandler(i) => Pending(i, req[i].plan)
    /\ Changed(i) => \/ Pending(i, req[i].plan)
                     \/ req[i].answer = "422" /\ obj[i].plan_id = client[i].plan
    /\ client[i].state = "creating" => Pending(i, client[i].plan)
    /\ client[i].state = "updating" => Pending(i, client[i].want)
    /\ client[i].state = "ready" /\ ~Changed(i) => obj[i].plan_id = client[i].plan
    /\ client[i].state = "deleting" /\ client[i].plan # None
         => obj[i].plan_id = client[i].plan

InstanceInv(i) == ObjectInv(i) /\ TurnInv(i) /\ PlanInv(i)

IInv == TypeOK /\ \A i \in Instances : InstanceInv(i)

-----------------------------------------------------------------------------
\* behavior_for_type returns a behaviour or raises.
LEMMA BehaviorType ==
  ASSUME TypeOK, NEW type \in Actions, NEW plan \in Plans \cup {None}
  PROVE  BehaviorForType(type, plan) \in Behavior \cup {None}
BY BrokerAssumption DEF TypeOK, BehaviorForType, Behaviors, Keys

\* The platform is answered the configured status, a 422 or a 500.
LEMMA StatusType ==
  ASSUME NEW b \in Behavior \cup {None}, NEW ai \in BOOLEAN
  PROVE  /\ StatusOf(b, ai) \in Statuses
         /\ StatusOf(b, ai) \in {"200", "202"} => b # None /\ b.status \in {"200", "202"}
BY BrokerAssumption DEF StatusOf, Behavior, Statuses

\* What last_operation is configured to answer.
LEMMA FetchType ==
  ASSUME TypeOK, NEW plan \in Plans, NEW state \in {"in_progress", "finished"}
  PROVE  FetchFor(plan, state) \in Outcomes
BY BrokerAssumption DEF TypeOK, FetchFor, FetchBehaviors, FetchBehavior, Keys, Outcomes

\* The records the handlers build have their types.
LEMMA RequestType ==
  ASSUME NEW r \in Request
  PROVE  /\ \A answer \in Statuses \cup Outcomes :
              /\ [r EXCEPT !.pc = "sleeping", !.answer = answer] \in Request
              /\ \A o \in ServiceInstance :
                   [r EXCEPT !.pc = "sleeping", !.answer = answer, !.kept = o] \in Request
         /\ \A found \in BOOLEAN : [r EXCEPT !.pc = "looked", !.found = found] \in Request
         /\ \A o \in ServiceInstance : [r EXCEPT !.kept = o] \in Request
BY DEF Request

LEMMA IdleType ==
  /\ Idle \in Request
  /\ \A op \in Op, plan \in Plans \cup {None}, ai \in BOOLEAN :
       [Idle EXCEPT !.pc = "sent", !.op = op, !.plan = plan, !.ai = ai] \in Request
BY DEF Idle, Request, Op, Statuses, Outcomes

LEMMA InstanceType ==
  ASSUME NEW o \in ServiceInstance
  PROVE  /\ \A plan \in Plans :
              /\ [o EXCEPT !.plan_id = plan, !.fetch_count = 0] \in ServiceInstance
              /\ [o EXCEPT !.plan_id = plan, !.fetch_count = 0].plan_id = plan
              /\ [o EXCEPT !.plan_id = plan, !.fetch_count = 0].fetch_count = 0
         /\ [o EXCEPT !.deleted = TRUE, !.fetch_count = 0] \in ServiceInstance
         /\ [o EXCEPT !.deleted = TRUE, !.fetch_count = 0].plan_id = o.plan_id
         /\ [o EXCEPT !.deleted = TRUE, !.fetch_count = 0].fetch_count = 0
         /\ [o EXCEPT !.fetch_count = Counted(@)] \in ServiceInstance
         /\ [o EXCEPT !.fetch_count = Counted(@)].plan_id = o.plan_id
         /\ [o EXCEPT !.fetch_count = Counted(@)].fetch_count = Counted(o.fetch_count)
<1>1. \A n \in 0..(Limit + 1) : Counted(n) \in 0..(Limit + 1)
  BY BrokerAssumption DEF Counted, Incremented
<1>2. 0 \in 0..(Limit + 1) /\ Counted(o.fetch_count) \in 0..(Limit + 1)
  BY <1>1, BrokerAssumption DEF ServiceInstance
<1>3. \A n \in 0..(Limit + 1) :
        /\ [o EXCEPT !.fetch_count = n] \in ServiceInstance
        /\ [o EXCEPT !.fetch_count = n].plan_id = o.plan_id
        /\ [o EXCEPT !.fetch_count = n].fetch_count = n
  BY DEF ServiceInstance
<1>4. \A plan \in Plans :
        /\ [o EXCEPT !.plan_id = plan, !.fetch_count = 0] \in ServiceInstance
        /\ [o EXCEPT !.plan_id = plan, !.fetch_count = 0].plan_id = plan
        /\ [o EXCEPT !.plan_id = plan, !.fetch_count = 0].fetch_count = 0
  BY <1>2 DEF ServiceInstance
<1>5. /\ [o EXCEPT !.deleted = TRUE, !.fetch_count = 0] \in ServiceInstance
      /\ [o EXCEPT !.deleted = TRUE, !.fetch_count = 0].plan_id = o.plan_id
      /\ [o EXCEPT !.deleted = TRUE, !.fetch_count = 0].fetch_count = 0
  BY <1>2 DEF ServiceInstance
<1>6. QED  BY <1>2, <1>3, <1>4, <1>5

\* A handler that has found its instance holds an object.
LEMMA HeldType ==
  ASSUME TypeOK, NEW i \in Instances, ObjectInv(i), req[i].found
  PROVE  Held(i) \in ServiceInstance
BY DEF TypeOK, Request, ObjectInv, Held

\* The platform's view is well-formed whatever it is answered, or is not.
LEMMA ClientType ==
  ASSUME TypeOK, NEW i \in Instances
  PROVE  Believes(i) \in Client /\ Doubts(i) \in Client
<1>1. client[i] \in Client /\ req[i] \in Request
  BY DEF TypeOK
<1>2. \A c \in Client, p \in Plans \cup {None} :
        /\ [c EXCEPT !.plan = p] \in Client
        /\ \A s \in {"absent", "creating", "ready", "updating", "deleting", "unsure"} :
             /\ [c EXCEPT !.state = s] \in Client
             /\ [c EXCEPT !.state = s, !.plan = p] \in Client
             /\ [c EXCEPT !.state = s, !.want = p] \in Client
  BY ZenonT(60) DEF Client
<1>3. req[i].plan \in Plans \cup {None} /\ client[i].plan \in Plans \cup {None}
      /\ client[i].want \in Plans \cup {None}
  BY <1>1 DEF Client, Request
<1>4. Doubts(i) \in Client
  BY <1>1, <1>2, <1>3 DEF Doubts
<1>5. Believes(i) \in Client
  <2>1. CASE req[i].op = "provision"
    BY <2>1, <1>1, <1>2, <1>3 DEF Believes
  <2>2. CASE req[i].op = "update"
    BY <2>2, <1>1, <1>2, <1>3, ZenonT(60) DEF Believes
  <2>3. CASE req[i].op = "deprovision"
    BY <2>3, <1>1, <1>2, <1>3 DEF Believes
  <2>4. CASE req[i].op \notin {"provision", "update", "deprovision"}
    <3>1. \A p \in Plans \cup {None}, s \in {"absent", "ready", "unsure"} :
            [state |-> s, want |-> None, plan |-> p] \in Client
      BY DEF Client
    <3>2. QED  BY <2>4, <3>1, <1>1, <1>2, <1>3 DEF Believes
  <2>5. QED  BY <2>1, <2>2, <2>3, <2>4
<1>6. QED  BY <1>4, <1>5

\* What is known of a change is always one of the Causes, or told, or untold.
LEMMA OriginType ==
  ASSUME TypeOK, NEW i \in Instances
  PROVE  {Learned(i), Unlearned(i)} \subseteq Causes \cup {"untold", "told"}
BY DEF TypeOK, Learned, Unlearned, Causes

-----------------------------------------------------------------------------
(* What the two ways to fall asleep do to the request and to the object.   *)

\* The fields of a request that has its answer.
Slept(i, answer) ==
  /\ req'[i].pc = "sleeping" /\ req'[i].op = req[i].op /\ req'[i].plan = req[i].plan
  /\ req'[i].ai = req[i].ai /\ req'[i].found = req[i].found /\ req'[i].answer = answer
  /\ req'[i].kept = None <=> req[i].kept = None
  /\ \A j \in Instances \ {i} : req'[j] = req[j] /\ obj'[j] = obj[j]

LEMMA FallStep ==
  ASSUME TypeOK, NEW i \in Instances, NEW answer \in Statuses \cup Outcomes, Fall(i, answer)
  PROVE  /\ req' \in [Instances -> Request] /\ obj' = obj
         /\ Slept(i, answer) /\ req'[i].kept = req[i].kept
<1>1. [req[i] EXCEPT !.pc = "sleeping", !.answer = answer] \in Request
  BY RequestType DEF TypeOK
<1>2. req' = [req EXCEPT ![i] = [req[i] EXCEPT !.pc = "sleeping", !.answer = answer]]
  BY DEF Fall, TypeOK
<1>3. QED  BY <1>1, <1>2 DEF Fall, TypeOK, Slept, Request

LEMMA FallWithStep ==
  ASSUME TypeOK, NEW i \in Instances, NEW answer \in Statuses \cup Outcomes,
         NEW o \in ServiceInstance, FallWith(i, o, answer)
  PROVE  /\ req' \in [Instances -> Request]
         /\ obj' \in [Instances -> ServiceInstance \cup {None}]
         /\ Slept(i, answer) /\ Held(i)' = o
         /\ req[i].kept = None => obj'[i] = o
         /\ req[i].kept # None => obj' = obj
<1> USE BrokerAssumption
<1>1. /\ [req[i] EXCEPT !.pc = "sleeping", !.answer = answer] \in Request
      /\ [req[i] EXCEPT !.pc = "sleeping", !.answer = answer, !.kept = o] \in Request
  BY RequestType DEF TypeOK
<1>2. CASE req[i].kept = None
  <2>1. /\ obj' = [obj EXCEPT ![i] = o]
        /\ req' = [req EXCEPT ![i] = [req[i] EXCEPT !.pc = "sleeping", !.answer = answer]]
    BY <1>2 DEF FallWith, TypeOK
  <2>2. QED  BY <2>1, <1>1, <1>2 DEF TypeOK, Slept, Request, Held
<1>3. CASE req[i].kept # None
  <2>1. /\ obj' = obj
        /\ req' = [req EXCEPT ![i] =
                     [req[i] EXCEPT !.pc = "sleeping", !.answer = answer, !.kept = o]]
    BY <1>3 DEF FallWith, TypeOK
  <2>2. o # None
    OBVIOUS
  <2>3. QED  BY <2>1, <2>2, <1>1, <1>3 DEF TypeOK, Slept, Request, Held
<1>4. QED  BY <1>2, <1>3

\* What each handler makes of the instance it found: nothing, or an object that starts
\* an operation, or one more request counted.
LEMMA DecideCases ==
  ASSUME IInv, NEW i \in Instances, Decide(i)
  PROVE  /\ req[i].pc = "looked" /\ UNCHANGED <<config, listed, client>>
         /\ \/ /\ req[i].op \in {"provision", "update", "deprovision"}
               /\ \E answer \in Statuses :
                    /\ Fall(i, answer)
                    /\ req[i].op = "update" =>
                         (answer \in {"200", "202"} => ~req[i].found)
               /\ UNCHANGED <<told, origin>>
            \/ /\ req[i].op = "update" /\ req[i].found
               /\ \E answer \in {"200", "202", "422"} :
                    FallWith(i, [Held(i) EXCEPT !.plan_id = req[i].plan, !.fetch_count = 0],
                             answer)
               /\ Began(i) /\ Replanned(i)
            \/ /\ req[i].op = "deprovision" /\ req[i].found
               /\ \E answer \in Statuses :
                    FallWith(i, [Held(i) EXCEPT !.deleted = TRUE, !.fetch_count = 0], answer)
               /\ Began(i) /\ UNCHANGED origin
            \/ /\ req[i].op = "last_operation" /\ req[i].found
               /\ \E answer \in Outcomes :
                    FallWith(i, [Held(i) EXCEPT !.fetch_count = Counted(@)], answer)
               /\ told' = [told EXCEPT ![i] = IF Held(i).fetch_count + 1 > max
                                               THEN "finished" ELSE "in_progress"]
               /\ UNCHANGED origin
            \/ /\ req[i].op = "last_operation" /\ ~req[i].found
               /\ Fall(i, "failed")
               /\ told' = [told EXCEPT ![i] = "failed"] /\ UNCHANGED origin
<1>t. TypeOK /\ req[i] \in Request /\ (req[i].found => Held(i) \in ServiceInstance)
  BY HeldType DEF IInv, InstanceInv, TypeOK
<1>p. req[i].plan \in Plans \cup {None} /\ req[i].ai \in BOOLEAN
  BY <1>t DEF Request
<1>s. \A type \in Actions, plan \in Plans \cup {None} :
        StatusOf(BehaviorForType(type, plan), req[i].ai) \in Statuses
  BY <1>t, <1>p, BehaviorType, StatusType
<1>1. CASE DecideProvision(i)
  <2>1. StatusOf(BehaviorForType("provision", req[i].plan), req[i].ai) \in Statuses
    BY <1>s, <1>p DEF Actions
  <2>2. QED  BY <1>1, <2>1 DEF DecideProvision
<1>2. CASE DecideUpdate(i)
  <2> DEFINE behavior == BehaviorForType("update", req[i].plan)
             answer == StatusOf(behavior, req[i].ai)
  <2>1. answer \in Statuses
    BY <1>s, <1>p DEF Actions
  <2>2. behavior \in Behavior \cup {None}
    BY <1>t, <1>p, BehaviorType DEF Actions
  <2>3. answer \in {"200", "202"} => behavior # None /\ behavior.status \in {"200", "202"}
    BY <2>2, <1>p, StatusType
  <2>4. behavior # None /\ behavior.status \in {"200", "202"} => answer \in {"200", "202", "422"}
    BY DEF StatusOf
  <2>5. /\ req[i].pc = "looked" /\ req[i].op = "update"
        /\ UNCHANGED <<config, listed, client>>
        /\ IF behavior # None /\ behavior.status \in {"200", "202"} /\ req[i].found
             THEN /\ FallWith(i, [Held(i) EXCEPT !.plan_id = req[i].plan, !.fetch_count = 0],
                              answer)
                  /\ Began(i) /\ Replanned(i)
             ELSE Fall(i, answer) /\ UNCHANGED <<told, origin>>
    BY <1>2 DEF DecideUpdate
  <2> HIDE DEF behavior, answer
  <2>6. QED  BY <2>1, <2>3, <2>4, <2>5
<1>3. CASE DecideDeprovision(i)
  <2>1. req[i].found => Held(i).plan_id \in Plans
    BY <1>t DEF ServiceInstance
  <2>2. req[i].found =>
          StatusOf(BehaviorForType("deprovision", Held(i).plan_id), req[i].ai) \in Statuses
    BY <2>1, <1>s DEF Actions
  <2>3. StatusOf(BehaviorForType("deprovision", None), req[i].ai) \in Statuses
    BY <1>s DEF Actions
  <2>4. QED  BY <1>3, <2>2, <2>3 DEF DecideDeprovision
<1>4. CASE DecidePoll(i)
  <2>1. req[i].found => Held(i).plan_id \in Plans
    BY <1>t DEF ServiceInstance
  <2>2. req[i].found => \A state \in {"in_progress", "finished"} :
          FetchFor(Held(i).plan_id, state) \in Outcomes
    BY <2>1, <1>t, FetchType
  <2>3. QED  BY <1>4, <2>2 DEF DecidePoll
<1>5. QED  BY <1>1, <1>2, <1>3, <1>4 DEF Decide

-----------------------------------------------------------------------------
(* Every variable keeps its type in every step.                            *)

\* What is written to told and to origin has its type.
LEMMA NotesType ==
  ASSUME TypeOK, NEW i \in Instances
  PROVE  /\ Began(i) => told' \in [Instances -> States \cup {"nothing", "written"}]
         /\ \A state \in States : [told EXCEPT ![i] = state]
                                   \in [Instances -> States \cup {"nothing", "written"}]
         /\ Replanned(i) => origin' \in [Instances -> Causes \cup {"untold", "told"}]
BY DEF TypeOK, Began, Replanned

\* A handler that is done, and what the platform makes of it.
LEMMA LeaveType ==
  ASSUME TypeOK, NEW i \in Instances, Respond(i) \/ GiveUp(i)
  PROVE  TypeOK'
<1>1. \E c \in Client : client' = [client EXCEPT ![i] = c]
  BY ClientType DEF Respond, GiveUp
<1>2. \E g \in Causes \cup {"untold", "told"} : origin' = [origin EXCEPT ![i] = g]
  BY OriginType DEF Respond, GiveUp
<1>3. Leave(i)
  BY DEF Respond, GiveUp
<1>4. /\ req' \in [Instances -> Request]
      /\ told' \in [Instances -> States \cup {"nothing", "written"}]
      /\ UNCHANGED <<config, obj, listed>>
  BY <1>3, IdleType DEF Leave, TypeOK
<1>5. /\ client' \in [Instances -> Client]
      /\ origin' \in [Instances -> Causes \cup {"untold", "told"}]
  <2>1. client \in [Instances -> Client]
        /\ origin \in [Instances -> Causes \cup {"untold", "told"}]
    BY DEF TypeOK
  <2>2. QED  BY <1>1, <1>2, <2>1
<1>6. /\ behaviors' = behaviors /\ fetch' = fetch /\ max' = max
      /\ obj' = obj /\ listed' = listed
  BY <1>4 DEF config
<1>7. QED  BY <1>4, <1>5, <1>6 DEF TypeOK

LEMMA DecideType ==
  ASSUME IInv, NEW i \in Instances, Decide(i)
  PROVE  TypeOK'
<1>t. TypeOK /\ (req[i].found => Held(i) \in ServiceInstance)
  BY HeldType DEF IInv, InstanceInv
<1>p. req[i].op = "update" /\ req[i].pc # "idle" => req[i].plan \in Plans
  BY DEF IInv, InstanceInv, TurnInv
<1>1. req[i].pc = "looked" /\ UNCHANGED <<config, listed, client>>
  BY DecideCases
<1>2. /\ req' \in [Instances -> Request]
      /\ obj' \in [Instances -> ServiceInstance \cup {None}]
  <2>1. CASE \E answer \in Statuses \cup Outcomes : Fall(i, answer)
    BY <2>1, <1>t, FallStep DEF TypeOK
  <2>2. CASE req[i].found /\ req[i].op = "update" /\ \E answer \in Statuses :
               FallWith(i, [Held(i) EXCEPT !.plan_id = req[i].plan, !.fetch_count = 0], answer)
    <3>1. [Held(i) EXCEPT !.plan_id = req[i].plan, !.fetch_count = 0] \in ServiceInstance
      BY <2>2, <1>t, <1>p, <1>1, InstanceType
    <3>2. QED  BY <2>2, <3>1, <1>t, FallWithStep
  <2>3. CASE req[i].found /\ \E answer \in Statuses :
               FallWith(i, [Held(i) EXCEPT !.deleted = TRUE, !.fetch_count = 0], answer)
    <3>1. [Held(i) EXCEPT !.deleted = TRUE, !.fetch_count = 0] \in ServiceInstance
      BY <2>3, <1>t, InstanceType
    <3>2. QED  BY <2>3, <3>1, <1>t, FallWithStep
  <2>4. CASE req[i].found /\ \E answer \in Outcomes :
               FallWith(i, [Held(i) EXCEPT !.fetch_count = Counted(@)], answer)
    <3>1. [Held(i) EXCEPT !.fetch_count = Counted(@)] \in ServiceInstance
      BY <2>4, <1>t, InstanceType
    <3>2. QED  BY <2>4, <3>1, <1>t, FallWithStep
  <2>5. "failed" \in Outcomes /\ {"200", "202", "422"} \subseteq Statuses
    BY DEF Outcomes, Statuses
  <2>6. QED  BY <2>1, <2>2, <2>3, <2>4, <2>5, DecideCases
<1>3. /\ told' \in [Instances -> States \cup {"nothing", "written"}]
      /\ origin' \in [Instances -> Causes \cup {"untold", "told"}]
  <2>1. \/ Began(i) \/ UNCHANGED told
        \/ \E state \in States : told' = [told EXCEPT ![i] = state]
    BY DecideCases DEF States
  <2>2. Replanned(i) \/ UNCHANGED origin
    BY DecideCases
  <2>3. QED  BY <2>1, <2>2, <1>t, NotesType DEF TypeOK
<1>4. QED  BY <1>1, <1>2, <1>3, <1>t DEF TypeOK, config

LEMMA LookType ==
  ASSUME IInv, NEW i \in Instances, Look(i)
  PROVE  TypeOK'
<1>t. TypeOK /\ req[i] \in Request
  BY DEF IInv, TypeOK
<1>1. req' \in [Instances -> Request]
  <2>1. (i \in listed') \in BOOLEAN
    OBVIOUS
  <2>2. [req[i] EXCEPT !.pc = "looked", !.found = (i \in listed')] \in Request
    BY <1>t, <2>1, RequestType, Zenon
  <2>3. req' = [req EXCEPT ![i] = [req[i] EXCEPT !.pc = "looked", !.found = (i \in listed')]]
    BY <1>t DEF Look, TypeOK
  <2>4. QED  BY <1>t, <2>2, <2>3 DEF TypeOK
<1>2. obj' \in [Instances -> ServiceInstance \cup {None}] /\ listed' \subseteq Instances
  <2>1. req[i].op = "provision" => req[i].plan \in Plans
    BY DEF Look, IInv, InstanceInv, TurnInv
  <2>2. req[i].op = "provision" =>
          [plan_id |-> req[i].plan, fetch_count |-> 0, deleted |-> FALSE] \in ServiceInstance
    BY <2>1, BrokerAssumption DEF ServiceInstance
  <2>3. QED  BY <1>t, <2>2 DEF Look, TypeOK
<1>3. /\ told' \in [Instances -> States \cup {"nothing", "written"}]
      /\ origin' \in [Instances -> Causes \cup {"untold", "told"}]
  BY <1>t, NotesType DEF Look, TypeOK
<1>4. QED  BY <1>t, <1>1, <1>2, <1>3 DEF Look, TypeOK, config

\* What POST /config may send, field by field.
LEMMA ConfigurationType ==
  ASSUME NEW c \in Configurations
  PROVE  /\ \A a \in Actions : c.behaviors[a] \in Behaviors \cup {None}
         /\ c.fetch \in FetchBehaviors \cup {None} /\ c.max \in 0..Limit \cup {None}
         /\ \A i \in Instances : c.instances[i] \in ServiceInstance \cup {None}
BY BrokerAssumption DEF Configuration

LEMMA MergeType ==
  ASSUME IInv, NEW c \in Configurations, Merge(c)
  PROVE  TypeOK'
<1>t. TypeOK
  BY DEF IInv
<1>1. behaviors' \in [Actions -> Behaviors] /\ fetch' \in FetchBehaviors /\ max' \in 0..Limit
  BY <1>t, ConfigurationType DEF Merge, TypeOK
<1>2. obj' \in [Instances -> ServiceInstance \cup {None}] /\ listed' \subseteq Instances
  BY <1>t, ConfigurationType DEF Merge, TypeOK
<1>3. req' \in [Instances -> Request]
  <2>1. \A i \in Instances : req[i].found => [req[i] EXCEPT !.kept = Held(i)] \in Request
    BY <1>t, HeldType, RequestType DEF TypeOK, IInv, InstanceInv
  <2>2. QED  BY <1>t, <2>1 DEF Merge, TypeOK
<1>4. /\ told' \in [Instances -> States \cup {"nothing", "written"}]
      /\ origin' \in [Instances -> Causes \cup {"untold", "told"}]
  BY <1>t DEF Merge, TypeOK, Causes
<1>5. QED  BY <1>t, <1>1, <1>2, <1>3, <1>4 DEF Merge, TypeOK

LEMMA TypeStep == IInv /\ [Next]_vars => TypeOK'
<1> SUFFICES ASSUME IInv, [Next]_vars PROVE TypeOK'
  OBVIOUS
<1>t. TypeOK
  BY DEF IInv
<1>1. ASSUME NEW i \in Instances, NEW op \in Op, NEW plan \in Plans \cup {None},
             NEW ai \in BOOLEAN, Send(i, op, plan, ai)
      PROVE  TypeOK'
  BY <1>1, <1>t, IdleType DEF TypeOK, Send, config
<1>2. ASSUME NEW i \in Instances,
             SendProvision(i) \/ SendUpdate(i) \/ SendDeprovision(i) \/ SendPoll(i)
      PROVE  TypeOK'
  <2>1. {"provision", "update", "deprovision", "last_operation"} \subseteq Op
    BY DEF Op, Actions
  <2>2. PICK op \in Op, plan \in Plans \cup {None}, ai \in BOOLEAN : Send(i, op, plan, ai)
    BY <1>2, <2>1 DEF SendProvision, SendUpdate, SendDeprovision, SendPoll
  <2>3. QED  BY <2>2, <1>1
<1>3. CASE Reset \/ Restart
  <2>1. /\ behaviors' \in [Actions -> Behaviors] /\ fetch' \in FetchBehaviors
        /\ max' \in 0..Limit /\ listed' \subseteq Instances
    BY <1>3, BrokerAssumption DEF Reset, Restart, ReadDataJson
  <2>2. CASE Reset
    BY <2>1, <2>2, <1>t DEF Reset, TypeOK
  <2>3. CASE Restart
    BY <2>1, <2>3, <1>t, ClientType, IdleType DEF Restart, TypeOK
  <2>4. QED  BY <1>3, <2>2, <2>3
<1>4. CASE UNCHANGED vars
  BY <1>4, <1>t DEF vars, config, TypeOK
<1>5. QED
  BY <1>t, <1>2, <1>3, <1>4, LeaveType, DecideType, LookType, MergeType DEF Next, Reconfigure

-----------------------------------------------------------------------------
(* What is known of one instance survives every step.                      *)

\* A step on one instance leaves what is known of the others alone.
Same(j) == /\ obj'[j] = obj[j] /\ req'[j] = req[j] /\ client'[j] = client[j]
           /\ origin'[j] = origin[j] /\ (j \in listed') = (j \in listed)

LEMMA SameInstance ==
  ASSUME NEW j \in Instances, InstanceInv(j), Same(j)
  PROVE  InstanceInv(j)'
BY DEF Same, InstanceInv, ObjectInv, TurnInv, PlanInv, Pending, Changed, InHandler

\* A request sent finds the instance as the last one left it.
LEMMA SendStep ==
  ASSUME IInv, NEW i \in Instances,
         SendProvision(i) \/ SendUpdate(i) \/ SendDeprovision(i) \/ SendPoll(i)
  PROVE  InstanceInv(i)'
<1>t. TypeOK /\ InstanceInv(i)
  BY DEF IInv
<1>1. PICK op, plan, ai :
        /\ Send(i, op, plan, ai)
        /\ op = "provision" => client[i].state = "absent" /\ plan \in Plans
        /\ op = "update" => client[i].state = "ready" /\ plan \in Plans
        /\ op = "deprovision" => client[i].state \in {"ready", "unsure"}
        /\ op = "last_operation" => client[i].state \in Waiting
  <2>1. CASE SendProvision(i)
    BY <2>1 DEF SendProvision
  <2>2. CASE SendUpdate(i)
    BY <2>2 DEF SendUpdate
  <2>3. CASE SendDeprovision(i)
    BY <2>3 DEF SendDeprovision
  <2>4. CASE SendPoll(i)
    BY <2>4 DEF SendPoll, Waiting
  <2>5. QED  BY <2>1, <2>2, <2>3, <2>4
<1>2. /\ req[i].pc = "idle" /\ obj' = obj /\ listed' = listed
      /\ client' = client /\ origin' = origin
      /\ req'[i].pc = "sent" /\ req'[i].op = op /\ req'[i].plan = plan
      /\ req'[i].found = FALSE /\ req'[i].kept = None
  BY <1>1, <1>t DEF Send, TypeOK, Idle
<1>3. QED  BY <1>1, <1>2, <1>t
           DEF InstanceInv, ObjectInv, TurnInv, PlanInv, Pending, Changed, InHandler

\* Looking an instance up, or creating it.
LEMMA LookStep ==
  ASSUME IInv, NEW i \in Instances, Look(i)
  PROVE  InstanceInv(i)'
<1> USE BrokerAssumption
<1>t. TypeOK /\ InstanceInv(i) /\ req[i] \in Request
  BY DEF IInv, TypeOK
<1>1. /\ req[i].pc = "sent" /\ client' = client
      /\ req'[i].pc = "looked" /\ req'[i].op = req[i].op /\ req'[i].plan = req[i].plan
      /\ req'[i].kept = req[i].kept
  BY <1>t DEF Look, TypeOK, Request
<1>2. req'[i].found <=> i \in listed'
  BY <1>t DEF Look, TypeOK, Request
<1>3. req[i].kept = None
  BY <1>1, <1>t DEF InstanceInv, ObjectInv, InHandler
<1>4. TurnInv(i)'
  BY <1>1, <1>t DEF InstanceInv, TurnInv
<1>5. ObjectInv(i)' /\ PlanInv(i)'
  <2>1. CASE req[i].op = "provision"
    <3>1. [plan_id |-> req[i].plan, fetch_count |-> 0, deleted |-> FALSE] # None
      <4>1. req[i].plan \in Plans
        BY <2>1, <1>1, <1>t DEF InstanceInv, TurnInv
      <4>2. [plan_id |-> req[i].plan, fetch_count |-> 0, deleted |-> FALSE] \in ServiceInstance
        BY <4>1 DEF ServiceInstance
      <4>3. QED  BY <4>2
    <3>2. /\ obj'[i] = [plan_id |-> req[i].plan, fetch_count |-> 0, deleted |-> FALSE]
          /\ origin'[i] = "untold" /\ client[i].state = "absent"
      BY <2>1, <1>1, <1>3, <1>t DEF Look, Replanned, TypeOK, InstanceInv, TurnInv
    <3>3. QED  BY <3>1, <3>2, <1>1, <1>2, <1>3, <2>1
               DEF ObjectInv, PlanInv, Pending, Changed, InHandler
  <2>2. CASE req[i].op # "provision"
    <3>1. obj' = obj /\ listed' = listed /\ origin' = origin
      BY <2>2 DEF Look
    <3>2. QED  BY <3>1, <1>1, <1>2, <1>3, <1>t, <2>2
               DEF InstanceInv, ObjectInv, PlanInv, Pending, Changed, InHandler
  <2>3. QED  BY <2>1, <2>2
<1>6. QED  BY <1>4, <1>5 DEF InstanceInv

\* A handler at work on the instance it found.
LEMMA DecideStep ==
  ASSUME IInv, NEW i \in Instances, Decide(i)
  PROVE  InstanceInv(i)' /\ \A j \in Instances \ {i} : Same(j)
<1> USE BrokerAssumption
<1>t. /\ TypeOK /\ InstanceInv(i) /\ req[i] \in Request
      /\ req[i].found => Held(i) \in ServiceInstance
  BY HeldType DEF IInv, InstanceInv, TypeOK
<1>1. /\ req[i].pc = "looked" /\ listed' = listed /\ client' = client
  BY DecideCases
<1>p. req[i].op = "update" => req[i].plan \in Plans
  BY <1>1, <1>t DEF InstanceInv, TurnInv
<1>2. CASE /\ \E answer \in Statuses \cup Outcomes :
                /\ Fall(i, answer)
                /\ req[i].op = "update" => (answer \in {"200", "202"} => ~req[i].found)
           /\ UNCHANGED origin
  <2>1. PICK answer \in Statuses \cup Outcomes :
          /\ Fall(i, answer)
          /\ req[i].op = "update" => (answer \in {"200", "202"} => ~req[i].found)
    BY <1>2
  <2>2. obj' = obj /\ Slept(i, answer) /\ req'[i].kept = req[i].kept
    BY <2>1, <1>t, FallStep
  <2>3. QED
    BY <2>1, <2>2, <1>1, <1>2, <1>t
    DEF Slept, Same, InstanceInv, ObjectInv, TurnInv, PlanInv, Pending, Changed, InHandler, Causes
<1>3. CASE /\ req[i].op = "update" /\ req[i].found
           /\ \E answer \in {"200", "202", "422"} :
                FallWith(i, [Held(i) EXCEPT !.plan_id = req[i].plan, !.fetch_count = 0], answer)
           /\ Replanned(i)
  <2> DEFINE o == [Held(i) EXCEPT !.plan_id = req[i].plan, !.fetch_count = 0]
  <2>1. PICK answer \in {"200", "202", "422"} : FallWith(i, o, answer)
    BY <1>3
  <2>2. o \in ServiceInstance /\ o.plan_id = req[i].plan
    <3>1. Held(i) \in ServiceInstance /\ req[i].plan \in Plans
      BY <1>3, <1>t, <1>p
    <3>2. QED  BY <3>1, InstanceType
  <2> HIDE DEF o
  <2>3. /\ Slept(i, answer) /\ o # None
        /\ req[i].kept = None => obj'[i] = o
        /\ req[i].kept # None => obj' = obj
    BY <2>1, <2>2, <1>t, FallWithStep DEF Statuses
  <2>4. /\ req[i].kept = None => origin'[i] = "untold"
        /\ req[i].kept # None => origin'[i] = origin[i]
        /\ \A j \in Instances \ {i} : origin'[j] = origin[j]
    BY <1>3, <1>t DEF Replanned, TypeOK
  <2>5. \A j \in Instances \ {i} : Same(j)
    BY <2>3, <2>4, <1>1 DEF Slept, Same
  <2>6. InstanceInv(i)'
    BY <2>2, <2>3, <2>4, <1>1, <1>3, <1>t
    DEF Slept, InstanceInv, ObjectInv, TurnInv, PlanInv, Pending, Changed, InHandler, Causes
  <2>7. QED  BY <2>5, <2>6
<1>4. ASSUME NEW o \in ServiceInstance, NEW answer \in Statuses \cup Outcomes, FallWith(i, o, answer),
             o.plan_id = Held(i).plan_id, req[i].op \in {"deprovision", "last_operation"},
             req[i].found, UNCHANGED origin
      PROVE  InstanceInv(i)' /\ \A j \in Instances \ {i} : Same(j)
  <2>1. /\ Slept(i, answer) /\ o # None
        /\ req[i].kept = None => obj'[i] = o
        /\ req[i].kept # None => obj' = obj
    BY <1>4, <1>t, FallWithStep
  <2>2. obj'[i] # None /\ obj'[i].plan_id = obj[i].plan_id
    BY <2>1, <1>4, <1>t DEF Held, InstanceInv, ObjectInv
  <2>3. QED
    BY <2>1, <2>2, <1>1, <1>4, <1>t
    DEF Slept, Same, InstanceInv, ObjectInv, TurnInv, PlanInv, Pending, Changed, InHandler
<1>5. CASE /\ req[i].op = "deprovision" /\ req[i].found
           /\ \E answer \in Statuses :
                FallWith(i, [Held(i) EXCEPT !.deleted = TRUE, !.fetch_count = 0], answer)
           /\ UNCHANGED origin
  BY <1>5, <1>4, <1>t, InstanceType
<1>6. CASE /\ req[i].op = "last_operation" /\ req[i].found
           /\ \E answer \in Outcomes :
                FallWith(i, [Held(i) EXCEPT !.fetch_count = Counted(@)], answer)
           /\ UNCHANGED origin
  BY <1>6, <1>4, <1>t, InstanceType
<1>7. QED
  <2>1. "failed" \in Outcomes
    BY DEF Outcomes
  <2>2. QED  BY <2>1, <1>2, <1>3, <1>5, <1>6, DecideCases

\* The answer, or its loss.
LEMMA LeaveStep ==
  ASSUME IInv, NEW i \in Instances, Respond(i) \/ GiveUp(i)
  PROVE  InstanceInv(i)'
<1> USE BrokerAssumption
<1>t. TypeOK /\ InstanceInv(i) /\ req[i] \in Request /\ client[i] \in Client
  BY DEF IInv, TypeOK
<1>1. /\ req[i].pc = "sleeping" /\ obj' = obj /\ listed' = listed
      /\ req'[i].pc = "idle" /\ req'[i].found = FALSE /\ req'[i].kept = None
  BY <1>t DEF Respond, GiveUp, Leave, TypeOK, Idle
<1>o. ObjectInv(i)'
  BY <1>1, <1>t DEF InstanceInv, ObjectInv, InHandler
<1> USE DEF InstanceInv, ObjectInv, TurnInv, PlanInv, Pending, Changed, InHandler, Causes, Waiting
<1>2. CASE GiveUp(i)
  <2>1. client'[i] = Doubts(i) /\ origin'[i] = Unlearned(i)
    BY <1>2, <1>t DEF GiveUp, TypeOK
  <2>2. CASE req[i].op = "provision"
    <3>1. client'[i].state = "unsure" /\ client'[i].plan = client[i].plan
      BY <2>1, <2>2, <1>t DEF Doubts, Client
    <3>2. QED  BY <3>1, <2>2, <1>1, <1>t
  <2>3. CASE req[i].op # "provision"
    <3>1. client'[i] = client[i]
      BY <2>1, <2>3 DEF Doubts
    <3>2. QED  BY <3>1, <2>1, <2>3, <1>1, <1>t DEF Unlearned
  <2>4. QED  BY <2>2, <2>3
<1>3. CASE Respond(i)
  <2>1. client'[i] = Believes(i) /\ origin'[i] = Learned(i)
    BY <1>3, <1>t DEF Respond, TypeOK
  <2>c. origin[i] \in Causes => origin'[i] = origin[i]
    BY <2>1 DEF Learned
  <2>2. CASE req[i].op = "provision"
    <3>1. \/ /\ req[i].answer = "200"
             /\ client'[i].state = "ready" /\ client'[i].plan = req[i].plan
          \/ /\ req[i].answer = "202"
             /\ client'[i].state = "creating" /\ client'[i].plan = req[i].plan
          \/ client'[i] = client[i]
      BY <2>1, <2>2, <1>t DEF Believes, Client
    <3>2. /\ client[i].state = "absent"
          /\ i \in listed /\ origin[i] \notin Causes =>
               origin[i] = "untold" /\ obj[i].plan_id = req[i].plan
      BY <2>2, <1>1, <1>t
    <3>3. i \in listed /\ origin[i] \notin Causes /\ req[i].answer = "202" => origin'[i] = "untold"
      BY <2>1, <2>2, <3>2 DEF Learned
    <3>4. QED  BY <3>1, <3>2, <3>3, <2>c, <1>o, <1>1, <1>t
  <2>3. CASE req[i].op = "update"
    <3>1. \/ /\ req[i].answer = "200"
             /\ client'[i].state = client[i].state /\ client'[i].plan = req[i].plan
          \/ /\ req[i].answer = "202"
             /\ client'[i].state = "updating" /\ client'[i].want = req[i].plan
          \/ req[i].answer \notin {"200", "202"} /\ client'[i] = client[i]
      BY <2>1, <2>3, <1>t DEF Believes, Client
    <3>2. /\ client[i].state = "ready"
          /\ i \in listed /\ origin[i] \notin Causes =>
               /\ req[i].answer \in {"200", "202"} =>
                    origin[i] = "untold" /\ obj[i].plan_id = req[i].plan
               /\ req[i].answer \notin {"200", "202"} =>
                    \/ obj[i].plan_id = client[i].plan
                    \/ req[i].answer = "422" /\ origin[i] = "untold"
      BY <2>3, <1>1, <1>t
    <3>3. /\ origin[i] = "untold" /\ req[i].answer = "202" => origin'[i] = "untold"
          /\ origin[i] = "untold" /\ req[i].answer = "422" => origin'[i] = "refused"
      BY <2>1, <2>3 DEF Learned
    <3>4. QED  BY <3>1, <3>2, <3>3, <2>c, <2>3, <1>o, <1>1, <1>t
  <2>4. CASE req[i].op = "deprovision"
    <3>1. \/ client'[i].state = "absent" /\ client'[i].plan = None
          \/ client'[i].state = "deleting" /\ client'[i].plan = client[i].plan
          \/ client'[i] = client[i]
      BY <2>1, <2>4, <1>t DEF Believes, Client
    <3>2. QED  BY <3>1, <2>1, <2>4, <1>1, <1>t DEF Learned
  <2>5. CASE req[i].op = "last_operation"
    <3>1. client[i].state \in Waiting
      BY <2>5, <1>1, <1>t
    <3>2. CASE req[i].answer = "succeeded"
      <4>1. \/ /\ client[i].state = "updating"
               /\ client'[i].state = "ready" /\ client'[i].plan = client[i].want
            \/ /\ client[i].state = "creating"
               /\ client'[i].state = "ready" /\ client'[i].plan = client[i].plan
            \/ client'[i].state = "absent" /\ client'[i].plan = None
        BY <2>1, <2>5, <3>2, <1>t DEF Believes, Client
      <4>2. QED  BY <4>1, <2>c, <2>5, <1>o, <1>1, <1>t
    <3>3. CASE req[i].answer = "failed"
      <4>1. \/ client'[i].state = "unsure" /\ client'[i].plan = None
            \/ /\ client[i].state # "creating" /\ client[i].plan # None
               /\ client'[i].state = "ready" /\ client'[i].plan = client[i].plan
        BY <2>1, <2>5, <3>3, <1>t DEF Believes
      <4>2. QED  BY <4>1, <2>1, <2>5, <3>1, <3>3, <1>1, <1>t DEF Learned
    <3>4. CASE req[i].answer \notin {"succeeded", "failed"}
      <4>1. client'[i] = client[i]
        BY <2>1, <2>5, <3>4 DEF Believes
      <4>2. QED  BY <4>1, <2>1, <2>5, <3>4, <1>1, <1>t DEF Learned
    <3>5. QED  BY <3>2, <3>3, <3>4
  <2>6. QED  BY <2>2, <2>3, <2>4, <2>5, <1>t DEF Request, Op, Actions
<1>4. QED  BY <1>2, <1>3

\* POST /config, under whatever the handlers are doing.
LEMMA MergeStep ==
  ASSUME IInv, NEW c \in Configurations, Merge(c), NEW i \in Instances
  PROVE  InstanceInv(i)'
<1> USE BrokerAssumption
<1>t. /\ TypeOK /\ InstanceInv(i) /\ req[i] \in Request
      /\ req[i].found => Held(i) \in ServiceInstance
  BY HeldType DEF IInv, InstanceInv, TypeOK
<1>1. client' = client
  BY DEF Merge
<1>2. CASE c.instances[i] = None
  <2>1. Same(i)
    BY <1>2, <1>1 DEF Merge, Same
  <2>2. QED  BY <2>1, <1>t, SameInstance
<1>3. CASE c.instances[i] # None
  <2>1. obj'[i] # None /\ i \in listed' /\ origin'[i] = "config"
    BY <1>3 DEF Merge
  <2>2. /\ req'[i].pc = req[i].pc /\ req'[i].op = req[i].op /\ req'[i].plan = req[i].plan
        /\ req'[i].found = req[i].found
        /\ req'[i].kept # None => req[i].found
    BY <1>3, <1>t DEF Merge, Request, InstanceInv, ObjectInv
  <2>3. QED
    BY <2>1, <2>2, <1>1, <1>t
    DEF InstanceInv, ObjectInv, TurnInv, PlanInv, InHandler, Causes
<1>4. QED  BY <1>2, <1>3

\* A new $datasource lists nothing.
LEMMA ResetStep ==
  ASSUME IInv, Reset \/ Restart, NEW i \in Instances
  PROVE  InstanceInv(i)'
<1>t. TypeOK /\ InstanceInv(i) /\ req[i] \in Request /\ client[i] \in Client
  BY DEF IInv, TypeOK
<1> USE DEF InstanceInv, ObjectInv, TurnInv, PlanInv, InHandler
<1>1. i \notin listed' /\ obj' = obj /\ origin' = origin
  BY DEF Reset, Restart, ReadDataJson
<1>2. CASE Reset
  BY <1>1, <1>2, <1>t DEF Reset
<1>3. CASE Restart
  <2>1. req'[i].pc = "idle" /\ req'[i].found = FALSE /\ req'[i].kept = None
    BY <1>3 DEF Restart, Idle
  <2>2. \/ client'[i] = client[i]
        \/ req[i].pc # "idle" /\ client'[i] = Doubts(i)
    BY <1>3 DEF Restart
  <2>3. client'[i].state \in {"absent", "unsure"} => client'[i].plan = None
    <3>1. \/ Doubts(i) = client[i]
          \/ req[i].op = "provision" /\ Doubts(i).plan = client[i].plan
      BY <1>t DEF Doubts, Client
    <3>2. QED  BY <2>2, <3>1, <1>t
  <2>4. QED  BY <1>1, <2>1, <2>3
<1>4. QED  BY <1>2, <1>3

LEMMA InstanceStep ==
  ASSUME IInv, [Next]_vars, NEW j \in Instances
  PROVE  InstanceInv(j)'
<1>t. TypeOK /\ InstanceInv(j)
  BY DEF IInv
<1>1. ASSUME NEW i \in Instances,
             \/ SendProvision(i) \/ SendUpdate(i) \/ SendDeprovision(i) \/ SendPoll(i)
             \/ Look(i) \/ Decide(i) \/ Respond(i) \/ GiveUp(i)
      PROVE  InstanceInv(j)'
  <2>1. CASE i = j
    BY <1>1, <2>1, SendStep, LookStep, DecideStep, LeaveStep
  <2>2. CASE i # j
    <3>1. CASE SendProvision(i) \/ SendUpdate(i) \/ SendDeprovision(i) \/ SendPoll(i)
      <4>1. PICK op, plan, ai : Send(i, op, plan, ai)
        BY <3>1 DEF SendProvision, SendUpdate, SendDeprovision, SendPoll
      <4>2. Same(j)
        BY <4>1, <2>2, <1>t DEF Send, Same, TypeOK
      <4>3. QED  BY <4>2, <1>t, SameInstance
    <3>2. CASE Look(i)
      <4>1. Same(j)
        BY <3>2, <2>2, <1>t DEF Look, Replanned, Same, TypeOK
      <4>2. QED  BY <4>1, <1>t, SameInstance
    <3>3. CASE Decide(i)
      BY <3>3, <2>2, <1>t, DecideStep, SameInstance
    <3>4. CASE Respond(i) \/ GiveUp(i)
      <4>1. Same(j)
        BY <3>4, <2>2, <1>t DEF Respond, GiveUp, Leave, Same, TypeOK
      <4>2. QED  BY <4>1, <1>t, SameInstance
    <3>5. QED  BY <1>1, <3>1, <3>2, <3>3, <3>4
  <2>3. QED  BY <2>1, <2>2
<1>2. CASE UNCHANGED vars
  <2>1. Same(j)
    BY <1>2 DEF vars, Same
  <2>2. QED  BY <2>1, <1>t, SameInstance
<1>3. CASE Reconfigure
  BY <1>3, MergeStep DEF Reconfigure
<1>4. CASE Reset \/ Restart
  BY <1>4, ResetStep
<1>5. QED  BY <1>1, <1>2, <1>3, <1>4 DEF Next

\* IInv holds in every state.
THEOREM BrokerInvariance == Spec => []IInv
<1>1. Init => IInv
  <2> SUFFICES ASSUME Init PROVE IInv
    OBVIOUS
  <2>1. TypeOK
    BY BrokerAssumption, IdleType DEF Init, TypeOK, Client
  <2>2. \A i \in Instances : InstanceInv(i)
    BY DEF Init, Idle, InstanceInv, ObjectInv, TurnInv, PlanInv, InHandler
  <2>3. QED  BY <2>1, <2>2 DEF IInv
<1>2. IInv /\ [Next]_vars => IInv'
  BY TypeStep, InstanceStep DEF IInv
<1>3. QED
  BY <1>1, <1>2, PTL DEF Spec

\* TypeOK, whatever clients send and POST /config writes: a handler finds the object
\* it changes (create_service_instance, merge!).
THEOREM BrokerTypeCorrect == Spec => []TypeOK
<1>1. IInv => TypeOK
  BY DEF IInv
<1>2. QED
  BY <1>1, BrokerInvariance, PTL

\* PlanAgreed: after any sequence of operations, refusals, reconfigurations, resets and
\* restarts, platform and broker hold different plans of an instance at rest only for one
\* of the Causes, whatever clients send (update!, respond_with_behavior, merge!).
THEOREM PlansAgree == Spec => []PlanAgreed
<1>1. IInv => PlanAgreed
  BY DEF IInv, TypeOK, InstanceInv, PlanInv, Changed, PlanAgreed
<1>2. QED
  BY <1>1, BrokerInvariance, PTL

-----------------------------------------------------------------------------
(* The promise: what has been asked about an operation is the count of the *)
(* object a handler holds, and between handlers of the one listed.         *)

\* A count is asked for of every instance the promise knows.
LEMMA AskedType ==
  ASSUME TypeOK, NEW i \in Instances, ObjectInv(i)
  PROVE  AskedOf(i) \in 0..(Limit + 1) \cup {None}
<1>1. req[i].found => Held(i) \in ServiceInstance
  BY HeldType
<1>2. i \in listed => obj[i] \in ServiceInstance
  BY DEF TypeOK, ObjectInv
<1>3. QED  BY <1>1, <1>2 DEF AskedOf, ServiceInstance

\* A step on one instance takes a step of the promise.
LEMMA PromiseStep ==
  ASSUME TypeOK, NEW i \in Instances, max' = max,
         AskedOf(i)' \in 0..(Limit + 1) \cup {None},
         \A j \in Instances \ {i} : AskedOf(j)' = AskedOf(j),
         \/ AskedOf(i)' = 0 /\ told' = [told EXCEPT ![i] = "nothing"]
         \/ /\ AskedOf(i) # None /\ AskedOf(i)' = Counted(AskedOf(i))
            /\ told' = [told EXCEPT ![i] = IF AskedOf(i) + 1 > max THEN "finished"
                                                                   ELSE "in_progress"]
            /\ AskedOf(i) \in Nat
         \/ AskedOf(i) = None /\ AskedOf(i)' = None /\ told' = [told EXCEPT ![i] = "failed"]
         \/ AskedOf(i)' \in {AskedOf(i), None} /\ told' = told
         \/ AskedOf(i)' # None /\ told' = [told EXCEPT ![i] = "written"]
  PROVE  Promise!Next
<1> DEFINE L == [j \in Instances |-> AskedOf(j)]
<1>1. L' = [L EXCEPT ![i] = AskedOf(i)']
  OBVIOUS
<1>2. L[i] = AskedOf(i)
  OBVIOUS
<1>3. /\ \A v : [j \in Instances |-> IF j \in {i} THEN v ELSE L[j]] = [L EXCEPT ![i] = v]
      /\ [j \in Instances |-> IF j \in {} THEN None ELSE L[j]] = L
      /\ AskedOf(i)' = AskedOf(i) => L' = L
  BY <1>1
<1>4. told \in [Instances -> States \cup {"nothing", "written"}] /\ max \in 0..Limit
  BY DEF TypeOK
<1> HIDE DEF L
<1>5. ASSUME AskedOf(i)' = 0, told' = [told EXCEPT ![i] = "nothing"]
      PROVE  Promise!Start(i)
  BY <1>5, <1>1 DEF Promise!Start, L
<1>6. ASSUME AskedOf(i) # None, AskedOf(i)' = Counted(AskedOf(i)), AskedOf(i) \in Nat,
             told' = [told EXCEPT ![i] = IF AskedOf(i) + 1 > max THEN "finished"
                                                                 ELSE "in_progress"]
      PROVE  Promise!AnswerInProgress(i) \/ Promise!AnswerFinished(i)
  <2>1. L' = [L EXCEPT ![i] = Promise!Count(L[i])]
    BY <1>6, <1>1, <1>2 DEF Promise!Count, Counted, Incremented
  <2>2. L[i] # None /\ L[i] \in Nat
    BY <1>6, <1>2
  <2>3. CASE L[i] + 1 > max
    <3>1. told' = [told EXCEPT ![i] = "finished"]
      BY <1>6, <1>2, <2>3
    <3>2. QED  BY <3>1, <2>1, <2>2, <2>3 DEF Promise!AnswerFinished, Promise!Answer, L
  <2>4. CASE ~(L[i] + 1 > max)
    <3>1. told' = [told EXCEPT ![i] = "in_progress"]
      BY <1>6, <1>2, <2>4
    <3>2. L[i] + 1 <= max
      BY <2>2, <2>4, <1>4, BrokerAssumption
    <3>3. QED  BY <3>1, <3>2, <2>1, <2>2 DEF Promise!AnswerInProgress, Promise!Answer, L
  <2>5. QED  BY <2>3, <2>4
<1>7. ASSUME AskedOf(i) = None, AskedOf(i)' = None, told' = [told EXCEPT ![i] = "failed"]
      PROVE  Promise!AnswerFailed(i)
  BY <1>7, <1>3, <1>2 DEF Promise!AnswerFailed, L
<1>8. ASSUME AskedOf(i)' = None, told' = told PROVE Promise!Forget({i})
  BY <1>8, <1>1, <1>3, <1>4 DEF Promise!Forget, L
<1>9. ASSUME AskedOf(i)' = AskedOf(i), told' = told PROVE Promise!Forget({})
  BY <1>9, <1>3, <1>4 DEF Promise!Forget, L
<1>10. ASSUME AskedOf(i)' # None, told' = [told EXCEPT ![i] = "written"]
       PROVE  Promise!Configure({i})
  <2> DEFINE counts == [j \in Instances |-> AskedOf(i)']
  <2>1. counts \in [Instances -> 0..(Limit + 1)]
    BY <1>10
  <2>2. L' = [j \in Instances |-> IF j \in {i} THEN counts[j] ELSE L[j]]
    BY <1>1, <1>3
  <2>3. told' = [j \in Instances |-> IF j \in {i} THEN "written" ELSE told[j]]
    BY <1>10, <1>4
  <2> HIDE DEF counts
  <2>4. QED  BY <2>1, <2>2, <2>3, <1>4 DEF Promise!Configure, L
<1>11. {i} \in SUBSET Instances /\ {} \in SUBSET Instances
  OBVIOUS
<1>12. QED  BY <1>5, <1>6, <1>7, <1>8, <1>9, <1>10, <1>11 DEF Promise!Next

\* A handler counts an answer, or starts an operation; the platform and the
\* other requests do neither.
LEMMA InstancePromise ==
  ASSUME IInv, IInv', NEW i \in Instances,
         \/ SendProvision(i) \/ SendUpdate(i) \/ SendDeprovision(i) \/ SendPoll(i)
         \/ Look(i) \/ Decide(i) \/ Respond(i) \/ GiveUp(i)
  PROVE  Promise!Next
<1> USE BrokerAssumption
<1>t. /\ TypeOK /\ ObjectInv(i) /\ req[i] \in Request
      /\ req[i].found => Held(i) \in ServiceInstance
  BY HeldType DEF IInv, InstanceInv, TypeOK
<1>a. /\ AskedOf(i)' \in 0..(Limit + 1) \cup {None}
      /\ AskedOf(i) \in 0..(Limit + 1) \cup {None}
  <2>1. TypeOK' /\ ObjectInv(i)'
    BY DEF IInv, InstanceInv
  <2>2. ASSUME TypeOK', ObjectInv(i)' PROVE AskedOf(i)' \in 0..(Limit + 1) \cup {None}
    BY <2>2, <2>1 DEF TypeOK, ObjectInv, AskedOf, ServiceInstance, Held, Request
  <2>3. QED  BY <2>1, <2>2, <1>t, AskedType
<1>s. ASSUME NEW j \in Instances, Same(j) PROVE AskedOf(j)' = AskedOf(j)
  BY <1>s DEF Same, AskedOf, InHandler, Held
<1>1. CASE SendProvision(i) \/ SendUpdate(i) \/ SendDeprovision(i) \/ SendPoll(i)
  <2>1. PICK op, plan, ai : Send(i, op, plan, ai)
    BY <1>1 DEF SendProvision, SendUpdate, SendDeprovision, SendPoll
  <2>2. /\ obj' = obj /\ listed' = listed /\ told' = told /\ max' = max
        /\ req[i].pc = "idle" /\ req'[i].pc = "sent"
    BY <2>1, <1>t DEF Send, TypeOK, Idle, config
  <2>3. AskedOf(i)' = AskedOf(i)
    BY <2>2 DEF AskedOf, InHandler
  <2>4. \A j \in Instances \ {i} : AskedOf(j)' = AskedOf(j)
    BY <2>1, <1>t, <1>s DEF Send, Same, TypeOK
  <2>5. QED  BY <2>2, <2>3, <2>4, <1>t, <1>a, PromiseStep
<1>2. CASE Look(i)
  <2>1. /\ req[i].pc = "sent" /\ req'[i].pc = "looked" /\ max' = max
        /\ req'[i].kept = req[i].kept /\ (req'[i].found <=> i \in listed')
    BY <1>2, <1>t DEF Look, TypeOK, Request, config
  <2>2. req[i].kept = None
    BY <2>1, <1>t DEF ObjectInv, InHandler
  <2>3. \A j \in Instances \ {i} : AskedOf(j)' = AskedOf(j)
    BY <1>2, <1>t, <1>s DEF Look, Same, Replanned, TypeOK
  <2>4. AskedOf(i)' = IF i \in listed' THEN obj'[i].fetch_count ELSE None
    BY <2>1, <2>2 DEF AskedOf, InHandler, Held
  <2>5. CASE req[i].op = "provision"
    <3>1. obj'[i].fetch_count = 0 /\ i \in listed' /\ told' = [told EXCEPT ![i] = "nothing"]
      BY <2>5, <1>2, <1>t DEF Look, Began, TypeOK
    <3>2. QED  BY <3>1, <2>1, <2>3, <2>4, <1>t, <1>a, PromiseStep
  <2>6. CASE req[i].op # "provision"
    <3>1. obj' = obj /\ listed' = listed /\ told' = told
      BY <2>6, <1>2 DEF Look
    <3>2. AskedOf(i)' = AskedOf(i)
      BY <3>1, <2>1, <2>4 DEF AskedOf, InHandler
    <3>3. QED  BY <3>1, <3>2, <2>1, <2>3, <1>t, <1>a, PromiseStep
  <2>7. QED  BY <2>5, <2>6
<1>3. CASE Decide(i)
  <2>1. req[i].pc = "looked" /\ listed' = listed /\ max' = max
    BY <1>3, DecideCases DEF config
  <2>2. \A j \in Instances \ {i} : AskedOf(j)' = AskedOf(j)
    BY <1>3, DecideStep, <1>s
  <2>3. AskedOf(i) = IF req[i].found THEN Held(i).fetch_count ELSE None
    BY <2>1 DEF AskedOf, InHandler
  <2>4. ASSUME NEW answer \in Statuses \cup Outcomes, Fall(i, answer)
        PROVE  AskedOf(i)' = AskedOf(i)
    <3>1. obj' = obj /\ Slept(i, answer) /\ req'[i].kept = req[i].kept
      BY <2>4, <1>t, FallStep
    <3>2. QED  BY <3>1, <2>1 DEF Slept, AskedOf, InHandler, Held
  <2>5. ASSUME NEW answer \in Statuses \cup Outcomes, NEW o \in ServiceInstance,
               FallWith(i, o, answer), req[i].found
        PROVE  AskedOf(i)' = o.fetch_count
    <3>1. Slept(i, answer) /\ Held(i)' = o
      BY <2>5, <1>t, FallWithStep
    <3>2. QED  BY <3>1, <2>1, <2>5 DEF Slept, AskedOf, InHandler
  <2>6. CASE /\ \E answer \in Statuses : Fall(i, answer)
             /\ UNCHANGED told
    BY <2>6, <2>1, <2>2, <2>4, <1>t, <1>a, PromiseStep
  <2>7. CASE /\ req[i].op = "update" /\ req[i].found
             /\ \E answer \in Statuses :
                  FallWith(i, [Held(i) EXCEPT !.plan_id = req[i].plan, !.fetch_count = 0],
                           answer)
             /\ Began(i)
    <3>1. Held(i) \in ServiceInstance /\ req[i].plan \in Plans
      BY <2>1, <2>7, <1>t DEF IInv, InstanceInv, TurnInv
    <3>2. AskedOf(i)' = 0
      <4> DEFINE o == [Held(i) EXCEPT !.plan_id = req[i].plan, !.fetch_count = 0]
      <4>1. PICK answer \in Statuses : FallWith(i, o, answer)
        BY <2>7
      <4>2. o \in ServiceInstance /\ o.fetch_count = 0
        BY <3>1, InstanceType
      <4> HIDE DEF o
      <4>3. QED  BY <4>1, <4>2, <2>5, <2>7
    <3>3. QED  BY <3>2, <2>1, <2>2, <2>7, <1>t, <1>a, PromiseStep DEF Began
  <2>8. CASE /\ req[i].found /\ Began(i)
             /\ \E answer \in Statuses :
                  FallWith(i, [Held(i) EXCEPT !.deleted = TRUE, !.fetch_count = 0], answer)
    <3>1. AskedOf(i)' = 0
      <4> DEFINE o == [Held(i) EXCEPT !.deleted = TRUE, !.fetch_count = 0]
      <4>1. PICK answer \in Statuses : FallWith(i, o, answer)
        BY <2>8
      <4>2. Held(i) \in ServiceInstance
        BY <2>8, <1>t
      <4>3. o \in ServiceInstance /\ o.fetch_count = 0
        BY <4>2, InstanceType
      <4> HIDE DEF o
      <4>4. QED  BY <4>1, <4>3, <2>5, <2>8
    <3>2. QED  BY <3>1, <2>1, <2>2, <2>8, <1>t, <1>a, PromiseStep DEF Began
  <2>9. CASE /\ req[i].found
             /\ \E answer \in Outcomes :
                  FallWith(i, [Held(i) EXCEPT !.fetch_count = Counted(@)], answer)
             /\ told' = [told EXCEPT ![i] = IF Held(i).fetch_count + 1 > max
                                             THEN "finished" ELSE "in_progress"]
    <3>1. AskedOf(i)' = Counted(Held(i).fetch_count)
      BY <2>5, <2>9, <1>t, InstanceType
    <3>2. AskedOf(i) = Held(i).fetch_count /\ AskedOf(i) \in 0..(Limit + 1)
      BY <2>3, <2>9, <1>t DEF ServiceInstance
    <3>3. AskedOf(i) # None /\ AskedOf(i) \in Nat
      BY <3>2
    <3>4. QED  BY <3>1, <3>2, <3>3, <2>1, <2>2, <2>9, <1>t, <1>a, PromiseStep
  <2>10. CASE /\ ~req[i].found /\ Fall(i, "failed")
              /\ told' = [told EXCEPT ![i] = "failed"]
    <3>1. AskedOf(i)' = AskedOf(i)
      BY <2>4, <2>10 DEF Outcomes
    <3>2. QED  BY <3>1, <2>1, <2>2, <2>3, <2>10, <1>t, <1>a, PromiseStep
  <2>11. QED
    <3>1. {"200", "202", "422"} \subseteq Statuses
      BY DEF Statuses
    <3>2. QED  BY <3>1, <1>3, <2>6, <2>7, <2>8, <2>9, <2>10, DecideCases
<1>4. CASE Respond(i) \/ GiveUp(i)
  <2>1. /\ obj' = obj /\ listed' = listed /\ max' = max /\ req[i].pc = "sleeping"
        /\ req'[i].pc = "idle" /\ Leave(i)
    BY <1>4, <1>t DEF Respond, GiveUp, Leave, TypeOK, Idle, config
  <2>2. \A j \in Instances \ {i} : AskedOf(j)' = AskedOf(j)
    BY <1>4, <1>t, <1>s DEF Respond, GiveUp, Leave, Same, TypeOK
  <2>3. AskedOf(i)' = IF i \in listed THEN obj[i].fetch_count ELSE None
    BY <2>1 DEF AskedOf, InHandler
  <2>4. CASE i \in listed /\ (req[i].kept # None \/ ~req[i].found)
    <3>1. told' = [told EXCEPT ![i] = "written"]
      BY <2>4, <2>1 DEF Leave
    <3>2. AskedOf(i)' # None
      BY <2>3, <2>4, <1>t DEF ObjectInv, TypeOK, ServiceInstance
    <3>3. QED  BY <3>1, <3>2, <2>1, <2>2, <1>t, <1>a, PromiseStep
  <2>5. CASE ~(i \in listed /\ (req[i].kept # None \/ ~req[i].found))
    <3>1. told' = told
      BY <2>5, <2>1 DEF Leave
    <3>2. i \in listed => AskedOf(i) = obj[i].fetch_count
      BY <2>1, <2>5 DEF AskedOf, InHandler, Held
    <3>3. QED  BY <3>1, <3>2, <2>1, <2>2, <2>3, <1>t, <1>a, PromiseStep
  <2>6. QED  BY <2>4, <2>5
<1>5. QED  BY <1>1, <1>2, <1>3, <1>4

\* POST /config writes the counts of the instances it is sent, but not those of the
\* objects handlers hold.
LEMMA MergePromise ==
  ASSUME IInv, IInv', NEW c \in Configurations, Merge(c)
  PROVE  Promise!Next
<1> USE BrokerAssumption
<1> DEFINE S == {j \in Instances : c.instances[j] # None /\ ~InHandler(j)}
           counts == [j \in Instances |-> IF j \in S THEN AskedOf(j)' ELSE 0]
<1>t. TypeOK /\ max' \in 0..Limit
  BY DEF IInv, TypeOK
<1>1. \A j \in S : AskedOf(j)' = c.instances[j].fetch_count
  BY <1>t DEF AskedOf, InHandler, Merge
<1>2. counts \in [Instances -> 0..(Limit + 1)]
  <2>1. \A j \in S : c.instances[j] \in ServiceInstance
    BY ConfigurationType
  <2>2. QED  BY <1>1, <2>1 DEF ServiceInstance
<1>3. \A j \in Instances \ S : AskedOf(j)' = AskedOf(j)
  <2> SUFFICES ASSUME NEW j \in Instances, j \notin S PROVE AskedOf(j)' = AskedOf(j)
    OBVIOUS
  <2>1. CASE c.instances[j] = None
    <3>1. req'[j] = req[j] /\ obj'[j] = obj[j] /\ (j \in listed') = (j \in listed)
      BY <2>1 DEF Merge
    <3>2. QED  BY <3>1 DEF AskedOf, InHandler, Held
  <2>2. CASE c.instances[j] # None
    <3>1. InHandler(j) /\ req[j] \in Request
      BY <2>2, <1>t DEF TypeOK
    <3>2. CASE ~req[j].found
      <4>1. req'[j] = req[j]
        BY <2>2, <3>2 DEF Merge
      <4>2. QED  BY <4>1, <3>1, <3>2 DEF AskedOf, InHandler
    <3>3. CASE req[j].found
      <4>1. Held(j) \in ServiceInstance
        BY <3>3, <1>t, HeldType DEF IInv, InstanceInv
      <4>2. req'[j] = [req[j] EXCEPT !.kept = Held(j)]
        BY <2>2, <3>1, <3>3 DEF Merge
      <4>3. req'[j].kept = Held(j) /\ req'[j].pc = req[j].pc /\ req'[j].found
        BY <4>2, <3>1, <3>3 DEF Request
      <4>4. AskedOf(j)' = Held(j).fetch_count
        BY <4>1, <4>3, <3>1 DEF AskedOf, InHandler, Held
      <4>5. QED  BY <4>4, <3>1, <3>3 DEF AskedOf
    <3>4. QED  BY <3>2, <3>3
  <2>3. QED  BY <2>1, <2>2
<1>4. told' = [j \in Instances |-> IF j \in S THEN "written" ELSE told[j]]
  BY DEF Merge
<1>5. \A j \in S : AskedOf(j)' = counts[j]
  OBVIOUS
<1>6. S \in SUBSET Instances
  OBVIOUS
<1> HIDE DEF S, counts
<1>7. [j \in Instances |-> AskedOf(j)]'
        = [j \in Instances |-> IF j \in S THEN counts[j] ELSE [k \in Instances |-> AskedOf(k)][j]]
  BY <1>3, <1>5
<1>8. Promise!Configure(S)
  BY <1>2, <1>4, <1>7, <1>t DEF Promise!Configure
<1>9. QED  BY <1>6, <1>8 DEF Promise!Next

\* A reset forgets what no handler holds, a restart everything.
LEMMA ForgetPromise ==
  ASSUME IInv, IInv', Reset \/ Restart
  PROVE  Promise!Next
<1>t. max' \in 0..Limit
  BY DEF IInv, TypeOK
<1>1. CASE Reset
  <2> DEFINE S == {j \in Instances : ~InHandler(j)}
  <2>1. \A j \in Instances : AskedOf(j)' = IF j \in S THEN None ELSE AskedOf(j)
    BY <1>1 DEF Reset, ReadDataJson, AskedOf, InHandler, Held
  <2>2. Promise!Forget(S)
    BY <1>1, <1>t, <2>1 DEF Promise!Forget, Reset
  <2>3. S \in SUBSET Instances
    OBVIOUS
  <2>4. QED  BY <2>2, <2>3 DEF Promise!Next
<1>2. CASE Restart
  <2>1. \A j \in Instances : AskedOf(j)' = None
    BY <1>2 DEF Restart, ReadDataJson, AskedOf, InHandler, Idle
  <2>2. Promise!Forget(Instances)
    BY <1>2, <1>t, <2>1 DEF Promise!Forget, Restart
  <2>3. QED  BY <2>2 DEF Promise!Next
<1>3. QED  BY <1>1, <1>2

\* KeepsPromise: from the start of an operation, last_operation answers "in_progress"
\* until it has been asked more often than the maximum of the moment, "finished" from
\* then on, and "failed" of an instance nobody knows; whatever clients send, the
\* maximum is set to, POST /config writes or a reset forgets, also under a handler
\* (fetch_count, increment_fetch_count, merge!, service_broker.rb).
THEOREM PromiseKept == Spec => KeepsPromise
<1>1. Init => Promise!Init
  BY BrokerAssumption DEF Init, Promise!Init, AskedOf, InHandler, Idle
<1>2. IInv /\ [Next]_vars /\ IInv' => [Promise!Next]_(Promise!vars)
  <2> SUFFICES ASSUME IInv, [Next]_vars, IInv'
               PROVE  Promise!Next \/ UNCHANGED Promise!vars
    OBVIOUS
  <2>1. CASE \E i \in Instances :
               \/ SendProvision(i) \/ SendUpdate(i) \/ SendDeprovision(i) \/ SendPoll(i)
               \/ Look(i) \/ Decide(i) \/ Respond(i) \/ GiveUp(i)
    BY <2>1, InstancePromise
  <2>2. CASE Reset \/ Restart
    BY <2>2, ForgetPromise
  <2>3. CASE Reconfigure
    BY <2>3, MergePromise DEF Reconfigure
  <2>4. CASE UNCHANGED vars
    <3>1. /\ \A j \in Instances : AskedOf(j)' = AskedOf(j)
          /\ told' = told /\ max' = max
      BY <2>4 DEF vars, config, AskedOf, InHandler, Held
    <3>2. QED  BY <3>1 DEF Promise!vars
  <2>5. QED  BY <2>1, <2>2, <2>3, <2>4 DEF Next
<1>3. QED
  BY <1>1, <1>2, BrokerInvariance, PTL DEF Spec, Promise!Spec, KeepsPromise
=============================================================================
