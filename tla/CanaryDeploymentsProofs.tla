---------------------- MODULE CanaryDeploymentsProofs ----------------------
(***************************************************************************)
(* Type correctness of the deployment specs and their platform,            *)
(* NoCallRefused and NoFaultPasses, for any number of instances, canary    *)
(* steps and instances in flight, whatever the platform breaks.            *)
(*                                                                         *)
(* What a spec may rely on at a step depends on the steps before it: that  *)
(* the deployment is paused from the moment the spec has seen so until it  *)
(* asks for something, that the process it notes stays the newest until it *)
(* creates another deployment.  The scripts are shown to have their steps  *)
(* in such an order (Order), and the invariant says what the order brings. *)
(*                                                                         *)
(* For NoFaultPasses each broken promise has a step of the script that it  *)
(* ends (DeadEnd) and a trace it leaves in the state until the spec is     *)
(* there (Trace).  The traces are shown to stay as the spec goes on, and   *)
(* to keep it from seeing what it looks for at that step.                  *)
(***************************************************************************)
EXTENDS CanaryDeployments, SequenceTheorems, TLAPS

-----------------------------------------------------------------------------
(* The order of the steps of a script. *)

\* The position of the first deployment.
First(s) ==
  IF s = "badDroplet" THEN 1 ELSE IF s \in {"continue", "steps", "rolling"} THEN 3 ELSE 2

\* The steps that neither create a deployment nor ask anything of one.
Quiet == {"serves", "note", "running"}

\* Step i comes when the first deployment is still known to be paused.
PausedAt(s, i) ==
  \E j \in 1..(i - 1) :
    /\ Script(s)[j] = Status(1, "PAUSED")
    /\ \A k \in (j + 1)..(i - 1) : Script(s)[k].op \in Quiet

\* Step i comes after the processes of the last deployment have been noted.
NotedAt(s, i) ==
  \E j \in 1..(i - 1) :
    /\ Script(s)[j].op = "note"
    /\ \A k \in (j + 1)..(i - 1) : Script(s)[k].op # "create"

\* Step i comes after the deployment has been canceled.
CanceledAt(s, i) == \E j \in 1..(i - 1) : Script(s)[j].op = "cancel"

\* A step that creates a deployment.
Creates(st) ==
  /\ st.strategy \in {"canary", "rolling"} /\ st.droplet \in Droplets
  /\ st.targets \in Seq(1..Instances) /\ st.mif \in 1..Instances
  /\ st.strategy = "canary" => Len(st.targets) > 0

CreatesInOrder(s) ==
  \A i \in 1..Len(Script(s)) :
    /\ Script(s)[i].op = "create" <=> (i = First(s) \/ (s = "supersede" /\ i = 7))
    /\ Script(s)[i].op = "create" => Creates(Script(s)[i])
    /\ Script(s)[i].op = "create" /\ i # First(s) => PausedAt(s, i)
    /\ Script(s)[i] = Status(1, "PAUSED") => i > First(s) /\ (s = "supersede" => i < 7)

\* The steps that come before the first deployment.
PreparesInOrder(s) ==
  \A i \in 1..Len(Script(s)) :
    /\ Script(s)[i].op \in {"scale", "healthTimeout", "noteWorker"} => i < First(s)
    /\ Script(s)[i].op = "scale" => s = "rolling"

AsksInOrder(s) ==
  \A i \in 1..Len(Script(s)) :
    /\ Script(s)[i].op \in {"continue", "cancel"} => PausedAt(s, i)
    /\ Script(s)[i].op = "cancel" => s = "cancel"
    /\ Script(s)[i].op = "continue" => s \notin {"cancel", "supersede"}

LooksInOrder(s) ==
  \A i \in 1..Len(Script(s)) :
    /\ Script(s)[i].op = "running" =>
         /\ NotedAt(s, i) /\ Script(s)[i].who \in {"canary", "original"}
         /\ Script(s)[i].who = "canary" => ~CanceledAt(s, i)
         /\ Script(s)[i].who = "original" => CanceledAt(s, i)
    /\ Script(s)[i].op = "note" =>
         i > First(s) /\ ~CanceledAt(s, i) /\ (s = "cancel" => PausedAt(s, i))

Order(s) ==
  /\ Len(Script(s)) \in Nat \ {0}
  /\ CreatesInOrder(s) /\ PreparesInOrder(s) /\ AsksInOrder(s) /\ LooksInOrder(s)

-----------------------------------------------------------------------------
(* The scripts. *)


LEMMA ContinueScriptSteps ==
  LET q == Script("continue") IN
  /\ Len(q) = 14
  /\ q[1] = Serves("dora")
  /\ q[2] = NoteWorker
  /\ q[3] = Create("canary", "static", <<1>>, 1)
  /\ q[4] = TwoWebs
  /\ q[5] = Status(1, "PAUSED")
  /\ q[6] = Serves("static")
  /\ q[7] = Serves("dora")
  /\ q[8] = Note
  /\ q[9] = Running("canary", 1)
  /\ q[10] = Continue
  /\ q[11] = Status(1, "DEPLOYED")
  /\ q[12] = Running("canary", Instances)
  /\ q[13] = Only("static")
  /\ q[14] = WorkerStarted
BY DEF Script, ContinueScript, Canary, Paused, BothServe, RolledOut, Checks

LEMMA ContinueScriptOrder == Order("continue")
<1> DEFINE q == Script("continue")
<1>1. Len(q) = 14
  BY ContinueScriptSteps
<1>2. /\ q[1].op = "serves"
      /\ q[2].op = "noteWorker"
      /\ q[3].op = "create"
      /\ q[4].op = "twoWebs"
      /\ q[5].op = "status"
      /\ q[6].op = "serves"
      /\ q[7].op = "serves"
      /\ q[8].op = "note"
      /\ q[9].op = "running"
      /\ q[10].op = "continue"
      /\ q[11].op = "status"
      /\ q[12].op = "running"
      /\ q[13].op = "only"
      /\ q[14].op = "workerStarted"
  BY ContinueScriptSteps DEF Serves, Only, Never, Create, TwoWebs, Status, Is, Note, Running, Wants,
     WantsNot, Continue, Cancel, Sleep, WorkerStarted, NoteWorker, Scale, HealthTimeout
<1>3. /\ q[5] = Status(1, "PAUSED")
      /\ q[11] # Status(1, "PAUSED")
      /\ \A i \in 1..14 : q[i] = Status(1, "PAUSED") => q[i].op = "status"
  BY ContinueScriptSteps DEF Status
<1>4. Creates(q[3])
  <2>1. q[3] = Create("canary", "static", <<1>>, 1)
    BY ContinueScriptSteps
  <2>2. <<>> \in Seq(1..Instances) /\ <<1>> \in Seq(1..Instances) /\ Len(<<1>>) = 1
        /\ 1 \in 1..Instances /\ MaxInFlight \in 1..Instances
    BY DeploymentsAssumption
  <2> HIDE DEF q
  <2>3. QED  BY <2>1, <2>2 DEF Creates, Create, Droplets
<1>5. /\ q[9].who = "canary"
      /\ q[12].who = "canary"
  BY ContinueScriptSteps DEF Running
<1> HIDE DEF q
<1>6. PausedAt("continue", 10)
  <2>1. q[5] = Status(1, "PAUSED") /\ \A k \in 6..9 : q[k].op \in Quiet
    BY <1>2, <1>3 DEF Quiet
  <2>2. QED  BY <2>1 DEF PausedAt, q
<1>7. /\ NotedAt("continue", 9)
      /\ NotedAt("continue", 12)
  <2>1. q[8].op = "note" /\ \A k \in 9..8 : q[k].op # "create"
    BY <1>2
  <2>2. q[8].op = "note" /\ \A k \in 9..11 : q[k].op # "create"
    BY <1>2
  <2>3. QED  BY <2>1, <2>2 DEF NotedAt, q
<1>8. \A i \in 1..14 : ~CanceledAt("continue", i)
  <2>1. \A j \in 1..14 : q[j].op # "cancel"
    BY <1>2
  <2>2. QED  BY <2>1 DEF CanceledAt, q
<1>9. CreatesInOrder("continue")
  <2>1. First("continue") = 3
    BY DEF First
  <2>2. \A i \in 1..14 : q[i].op = "create" <=> i = 3
    BY <1>2
  <2>3. \A i \in 1..14 : q[i] = Status(1, "PAUSED") => i = 5
    BY <1>2, <1>3
  <2>4. ASSUME NEW i \in 1..14
        PROVE  q[i].op = "create" <=> (i = First("continue") \/ ("continue" = "supersede" /\ i = 7))
    BY <2>1, <2>2
  <2>5. ASSUME NEW i \in 1..14, q[i].op = "create" PROVE Creates(q[i])
    BY <1>4, <2>2, <2>5
  <2>6. ASSUME NEW i \in 1..14, q[i].op = "create", i # First("continue") PROVE PausedAt("continue", i)
    BY <2>1, <2>2, <2>6
  <2>7. ASSUME NEW i \in 1..14, q[i] = Status(1, "PAUSED")
        PROVE  i > First("continue") /\ ("continue" = "supersede" => i < 7)
    BY <2>1, <2>3, <2>7
  <2>8. QED  BY <1>1, <2>4, <2>5, <2>6, <2>7, Zenon DEF CreatesInOrder, q
<1>10. PreparesInOrder("continue")
  <2>1. \A i \in 1..14 :
          q[i].op \in {"scale", "healthTimeout", "noteWorker"} => i = 2
    BY <1>2
  <2>2. \A i \in 1..14 : q[i].op = "scale" => FALSE
    BY <1>2
  <2>3. First("continue") = 3
    BY DEF First
  <2>4. ASSUME NEW i \in 1..14
        PROVE  /\ q[i].op \in {"scale", "healthTimeout", "noteWorker"} => i < First("continue")
               /\ q[i].op = "scale" => "continue" = "rolling"
    BY <2>1, <2>2, <2>3
  <2>5. QED  BY <1>1, <2>4 DEF PreparesInOrder, q
<1>11. AsksInOrder("continue")
  <2>1. \A i \in 1..14 : q[i].op \in {"continue", "cancel"} => i = 10
    BY <1>2
  <2>2. QED  BY <1>1, <1>2, <1>6, <2>1 DEF AsksInOrder, q
<1>12. LooksInOrder("continue")
  <2>1. First("continue") = 3
    BY DEF First
  <2>2. \A i \in 1..14 : q[i].op = "running" => i = 9 \/ i = 12
    BY <1>2
  <2>3. \A i \in 1..14 : q[i].op = "note" => i = 8
    BY <1>2
  <2>4. ASSUME NEW i \in 1..14, q[i].op = "running"
        PROVE  /\ NotedAt("continue", i) /\ q[i].who \in {"canary", "original"}
               /\ q[i].who = "canary" => ~CanceledAt("continue", i)
               /\ q[i].who = "original" => CanceledAt("continue", i)
    BY <1>5, <1>7, <1>8, <2>2, <2>4
  <2>5. ASSUME NEW i \in 1..14, q[i].op = "note"
        PROVE  i > First("continue") /\ ~CanceledAt("continue", i)
    BY <1>8, <2>1, <2>3, <2>5
  <2>6. QED  BY <1>1, <2>4, <2>5 DEF LooksInOrder, q
<1>13. Len(q) \in Nat \ {0}
  BY <1>1
<1>14. QED  BY <1>13, <1>9, <1>10, <1>11, <1>12 DEF Order, q

LEMMA CancelScriptSteps ==
  LET q == Script("cancel") IN
  /\ Len(q) = 13
  /\ q[1] = Serves("dora")
  /\ q[2] = Create("canary", "static", <<1>>, 1)
  /\ q[3] = TwoWebs
  /\ q[4] = Status(1, "PAUSED")
  /\ q[5] = Serves("static")
  /\ q[6] = Serves("dora")
  /\ q[7] = Note
  /\ q[8] = Running("canary", 1)
  /\ q[9] = Cancel
  /\ q[10] = Status(1, "CANCELED")
  /\ q[11] = Running("original", Instances)
  /\ q[12] = Never("static")
  /\ q[13] = Only("dora")
BY DEF Script, CancelScript, Canary, Paused, BothServe

LEMMA CancelScriptOrder == Order("cancel")
<1> DEFINE q == Script("cancel")
<1>1. Len(q) = 13
  BY CancelScriptSteps
<1>2. /\ q[1].op = "serves"
      /\ q[2].op = "create"
      /\ q[3].op = "twoWebs"
      /\ q[4].op = "status"
      /\ q[5].op = "serves"
      /\ q[6].op = "serves"
      /\ q[7].op = "note"
      /\ q[8].op = "running"
      /\ q[9].op = "cancel"
      /\ q[10].op = "status"
      /\ q[11].op = "running"
      /\ q[12].op = "never"
      /\ q[13].op = "only"
  BY CancelScriptSteps DEF Serves, Only, Never, Create, TwoWebs, Status, Is, Note, Running, Wants,
     WantsNot, Continue, Cancel, Sleep, WorkerStarted, NoteWorker, Scale, HealthTimeout
<1>3. /\ q[4] = Status(1, "PAUSED")
      /\ q[10] # Status(1, "PAUSED")
      /\ \A i \in 1..13 : q[i] = Status(1, "PAUSED") => q[i].op = "status"
  BY CancelScriptSteps DEF Status
<1>4. Creates(q[2])
  <2>1. q[2] = Create("canary", "static", <<1>>, 1)
    BY CancelScriptSteps
  <2>2. <<>> \in Seq(1..Instances) /\ <<1>> \in Seq(1..Instances) /\ Len(<<1>>) = 1
        /\ 1 \in 1..Instances /\ MaxInFlight \in 1..Instances
    BY DeploymentsAssumption
  <2> HIDE DEF q
  <2>3. QED  BY <2>1, <2>2 DEF Creates, Create, Droplets
<1>5. /\ q[8].who = "canary"
      /\ q[11].who = "original"
  BY CancelScriptSteps DEF Running
<1> HIDE DEF q
<1>6. /\ PausedAt("cancel", 7)
      /\ PausedAt("cancel", 9)
  <2>1. q[4] = Status(1, "PAUSED") /\ \A k \in 5..6 : q[k].op \in Quiet
    BY <1>2, <1>3 DEF Quiet
  <2>2. q[4] = Status(1, "PAUSED") /\ \A k \in 5..8 : q[k].op \in Quiet
    BY <1>2, <1>3 DEF Quiet
  <2>3. QED  BY <2>1, <2>2 DEF PausedAt, q
<1>7. /\ NotedAt("cancel", 8)
      /\ NotedAt("cancel", 11)
  <2>1. q[7].op = "note" /\ \A k \in 8..7 : q[k].op # "create"
    BY <1>2
  <2>2. q[7].op = "note" /\ \A k \in 8..10 : q[k].op # "create"
    BY <1>2
  <2>3. QED  BY <2>1, <2>2 DEF NotedAt, q
<1>8. \A i \in 1..13 : CanceledAt("cancel", i) <=> i > 9
  <2>1. \A j \in 1..13 : q[j].op = "cancel" <=> j = 9
    BY <1>2
  <2>2. QED  BY <2>1 DEF CanceledAt, q
<1>9. CreatesInOrder("cancel")
  <2>1. First("cancel") = 2
    BY DEF First
  <2>2. \A i \in 1..13 : q[i].op = "create" <=> i = 2
    BY <1>2
  <2>3. \A i \in 1..13 : q[i] = Status(1, "PAUSED") => i = 4
    BY <1>2, <1>3
  <2>4. ASSUME NEW i \in 1..13
        PROVE  q[i].op = "create" <=> (i = First("cancel") \/ ("cancel" = "supersede" /\ i = 7))
    BY <2>1, <2>2
  <2>5. ASSUME NEW i \in 1..13, q[i].op = "create" PROVE Creates(q[i])
    BY <1>4, <2>2, <2>5
  <2>6. ASSUME NEW i \in 1..13, q[i].op = "create", i # First("cancel") PROVE PausedAt("cancel", i)
    BY <2>1, <2>2, <2>6
  <2>7. ASSUME NEW i \in 1..13, q[i] = Status(1, "PAUSED")
        PROVE  i > First("cancel") /\ ("cancel" = "supersede" => i < 7)
    BY <2>1, <2>3, <2>7
  <2>8. QED  BY <1>1, <2>4, <2>5, <2>6, <2>7, Zenon DEF CreatesInOrder, q
<1>10. PreparesInOrder("cancel")
  <2>1. \A i \in 1..13 :
          q[i].op \in {"scale", "healthTimeout", "noteWorker"} => FALSE
    BY <1>2
  <2>2. \A i \in 1..13 : q[i].op = "scale" => FALSE
    BY <1>2
  <2>3. First("cancel") = 2
    BY DEF First
  <2>4. ASSUME NEW i \in 1..13
        PROVE  /\ q[i].op \in {"scale", "healthTimeout", "noteWorker"} => i < First("cancel")
               /\ q[i].op = "scale" => "cancel" = "rolling"
    BY <2>1, <2>2, <2>3
  <2>5. QED  BY <1>1, <2>4 DEF PreparesInOrder, q
<1>11. AsksInOrder("cancel")
  <2>1. \A i \in 1..13 : q[i].op \in {"continue", "cancel"} => i = 9
    BY <1>2
  <2>2. QED  BY <1>1, <1>2, <1>6, <2>1 DEF AsksInOrder, q
<1>12. LooksInOrder("cancel")
  <2>1. First("cancel") = 2
    BY DEF First
  <2>2. \A i \in 1..13 : q[i].op = "running" => i = 8 \/ i = 11
    BY <1>2
  <2>3. \A i \in 1..13 : q[i].op = "note" => i = 7
    BY <1>2
  <2>4. ASSUME NEW i \in 1..13, q[i].op = "running"
        PROVE  /\ NotedAt("cancel", i) /\ q[i].who \in {"canary", "original"}
               /\ q[i].who = "canary" => ~CanceledAt("cancel", i)
               /\ q[i].who = "original" => CanceledAt("cancel", i)
    BY <1>5, <1>7, <1>8, <2>2, <2>4
  <2>5. ASSUME NEW i \in 1..13, q[i].op = "note"
        PROVE  i > First("cancel") /\ ~CanceledAt("cancel", i) /\ PausedAt("cancel", i)
    BY <1>8, <1>6, <2>1, <2>3, <2>5
  <2>6. QED  BY <1>1, <2>4, <2>5 DEF LooksInOrder, q
<1>13. Len(q) \in Nat \ {0}
  BY <1>1
<1>14. QED  BY <1>13, <1>9, <1>10, <1>11, <1>12 DEF Order, q

LEMMA SupersedeScriptSteps ==
  LET q == Script("supersede") IN
  /\ Len(q) = 13
  /\ q[1] = Serves("dora")
  /\ q[2] = Create("canary", "static", <<1>>, 1)
  /\ q[3] = TwoWebs
  /\ q[4] = Status(1, "PAUSED")
  /\ q[5] = Note
  /\ q[6] = Running("canary", 1)
  /\ q[7] = Create("rolling", "dora", <<>>, 1)
  /\ q[8] = Status(1, "SUPERSEDED")
  /\ q[9] = Status(2, "DEPLOYED")
  /\ q[10] = Note
  /\ q[11] = Running("canary", Instances)
  /\ q[12] = Never("static")
  /\ q[13] = Only("dora")
BY DEF Script, SupersedeScript, Canary, Paused

LEMMA SupersedeScriptOrder == Order("supersede")
<1> DEFINE q == Script("supersede")
<1>1. Len(q) = 13
  BY SupersedeScriptSteps
<1>2. /\ q[1].op = "serves"
      /\ q[2].op = "create"
      /\ q[3].op = "twoWebs"
      /\ q[4].op = "status"
      /\ q[5].op = "note"
      /\ q[6].op = "running"
      /\ q[7].op = "create"
      /\ q[8].op = "status"
      /\ q[9].op = "status"
      /\ q[10].op = "note"
      /\ q[11].op = "running"
      /\ q[12].op = "never"
      /\ q[13].op = "only"
  BY SupersedeScriptSteps DEF Serves, Only, Never, Create, TwoWebs, Status, Is, Note, Running, Wants,
     WantsNot, Continue, Cancel, Sleep, WorkerStarted, NoteWorker, Scale, HealthTimeout
<1>3. /\ q[4] = Status(1, "PAUSED")
      /\ q[8] # Status(1, "PAUSED")
      /\ q[9] # Status(1, "PAUSED")
      /\ \A i \in 1..13 : q[i] = Status(1, "PAUSED") => q[i].op = "status"
  BY SupersedeScriptSteps DEF Status
<1>4. /\ Creates(q[2])
      /\ Creates(q[7])
  <2>1. /\ q[2] = Create("canary", "static", <<1>>, 1)
        /\ q[7] = Create("rolling", "dora", <<>>, 1)
    BY SupersedeScriptSteps
  <2>2. <<>> \in Seq(1..Instances) /\ <<1>> \in Seq(1..Instances) /\ Len(<<1>>) = 1
        /\ 1 \in 1..Instances /\ MaxInFlight \in 1..Instances
    BY DeploymentsAssumption
  <2> HIDE DEF q
  <2>3. QED  BY <2>1, <2>2 DEF Creates, Create, Droplets
<1>5. /\ q[6].who = "canary"
      /\ q[11].who = "canary"
  BY SupersedeScriptSteps DEF Running
<1> HIDE DEF q
<1>6. PausedAt("supersede", 7)
  <2>1. q[4] = Status(1, "PAUSED") /\ \A k \in 5..6 : q[k].op \in Quiet
    BY <1>2, <1>3 DEF Quiet
  <2>2. QED  BY <2>1 DEF PausedAt, q
<1>7. /\ NotedAt("supersede", 6)
      /\ NotedAt("supersede", 11)
  <2>1. q[5].op = "note" /\ \A k \in 6..5 : q[k].op # "create"
    BY <1>2
  <2>2. q[10].op = "note" /\ \A k \in 11..10 : q[k].op # "create"
    BY <1>2
  <2>3. QED  BY <2>1, <2>2 DEF NotedAt, q
<1>8. \A i \in 1..13 : ~CanceledAt("supersede", i)
  <2>1. \A j \in 1..13 : q[j].op # "cancel"
    BY <1>2
  <2>2. QED  BY <2>1 DEF CanceledAt, q
<1>9. CreatesInOrder("supersede")
  <2>1. First("supersede") = 2
    BY DEF First
  <2>2. \A i \in 1..13 : q[i].op = "create" <=> i = 2 \/ i = 7
    BY <1>2
  <2>3. \A i \in 1..13 : q[i] = Status(1, "PAUSED") => i = 4
    BY <1>2, <1>3
  <2>4. ASSUME NEW i \in 1..13
        PROVE  q[i].op = "create" <=> (i = First("supersede") \/ ("supersede" = "supersede" /\ i = 7))
    BY <2>1, <2>2
  <2>5. ASSUME NEW i \in 1..13, q[i].op = "create" PROVE Creates(q[i])
    BY <1>4, <2>2, <2>5
  <2>6. ASSUME NEW i \in 1..13, q[i].op = "create", i # First("supersede") PROVE PausedAt("supersede", i)
    BY <1>6, <2>1, <2>2, <2>6
  <2>7. ASSUME NEW i \in 1..13, q[i] = Status(1, "PAUSED")
        PROVE  i > First("supersede") /\ ("supersede" = "supersede" => i < 7)
    BY <2>1, <2>3, <2>7
  <2>8. QED  BY <1>1, <2>4, <2>5, <2>6, <2>7, Zenon DEF CreatesInOrder, q
<1>10. PreparesInOrder("supersede")
  <2>1. \A i \in 1..13 :
          q[i].op \in {"scale", "healthTimeout", "noteWorker"} => FALSE
    BY <1>2
  <2>2. \A i \in 1..13 : q[i].op = "scale" => FALSE
    BY <1>2
  <2>3. First("supersede") = 2
    BY DEF First
  <2>4. ASSUME NEW i \in 1..13
        PROVE  /\ q[i].op \in {"scale", "healthTimeout", "noteWorker"} => i < First("supersede")
               /\ q[i].op = "scale" => "supersede" = "rolling"
    BY <2>1, <2>2, <2>3
  <2>5. QED  BY <1>1, <2>4 DEF PreparesInOrder, q
<1>11. AsksInOrder("supersede")
  <2>1. \A i \in 1..13 : q[i].op \in {"continue", "cancel"} => FALSE
    BY <1>2
  <2>2. QED  BY <1>1, <1>2, <1>6, <2>1 DEF AsksInOrder, q
<1>12. LooksInOrder("supersede")
  <2>1. First("supersede") = 2
    BY DEF First
  <2>2. \A i \in 1..13 : q[i].op = "running" => i = 6 \/ i = 11
    BY <1>2
  <2>3. \A i \in 1..13 : q[i].op = "note" => i = 5 \/ i = 10
    BY <1>2
  <2>4. ASSUME NEW i \in 1..13, q[i].op = "running"
        PROVE  /\ NotedAt("supersede", i) /\ q[i].who \in {"canary", "original"}
               /\ q[i].who = "canary" => ~CanceledAt("supersede", i)
               /\ q[i].who = "original" => CanceledAt("supersede", i)
    BY <1>5, <1>7, <1>8, <2>2, <2>4
  <2>5. ASSUME NEW i \in 1..13, q[i].op = "note"
        PROVE  i > First("supersede") /\ ~CanceledAt("supersede", i)
    BY <1>8, <2>1, <2>3, <2>5
  <2>6. QED  BY <1>1, <2>4, <2>5 DEF LooksInOrder, q
<1>13. Len(q) \in Nat \ {0}
  BY <1>1
<1>14. QED  BY <1>13, <1>9, <1>10, <1>11, <1>12 DEF Order, q

LEMMA RollingScriptSteps ==
  LET q == Script("rolling") IN
  /\ Len(q) = 4
  /\ q[1] = Scale
  /\ q[2] = HealthTimeout
  /\ q[3] = Create("rolling", "dora", <<>>, 1)
  /\ q[4] = Status(1, "DEPLOYED")
BY DEF Script, RollingScript

LEMMA RollingScriptOrder == Order("rolling")
<1> DEFINE q == Script("rolling")
<1>1. Len(q) = 4
  BY RollingScriptSteps
<1>2. /\ q[1].op = "scale"
      /\ q[2].op = "healthTimeout"
      /\ q[3].op = "create"
      /\ q[4].op = "status"
  BY RollingScriptSteps DEF Serves, Only, Never, Create, TwoWebs, Status, Is, Note, Running, Wants,
     WantsNot, Continue, Cancel, Sleep, WorkerStarted, NoteWorker, Scale, HealthTimeout
<1>3. /\ q[4] # Status(1, "PAUSED")
      /\ \A i \in 1..4 : q[i] = Status(1, "PAUSED") => q[i].op = "status"
  BY RollingScriptSteps DEF Status
<1>4. Creates(q[3])
  <2>1. q[3] = Create("rolling", "dora", <<>>, 1)
    BY RollingScriptSteps
  <2>2. <<>> \in Seq(1..Instances) /\ <<1>> \in Seq(1..Instances) /\ Len(<<1>>) = 1
        /\ 1 \in 1..Instances /\ MaxInFlight \in 1..Instances
    BY DeploymentsAssumption
  <2> HIDE DEF q
  <2>3. QED  BY <2>1, <2>2 DEF Creates, Create, Droplets
<1> HIDE DEF q
<1>5. \A i \in 1..4 : ~CanceledAt("rolling", i)
  <2>1. \A j \in 1..4 : q[j].op # "cancel"
    BY <1>2
  <2>2. QED  BY <2>1 DEF CanceledAt, q
<1>6. CreatesInOrder("rolling")
  <2>1. First("rolling") = 3
    BY DEF First
  <2>2. \A i \in 1..4 : q[i].op = "create" <=> i = 3
    BY <1>2
  <2>3. \A i \in 1..4 : q[i] = Status(1, "PAUSED") => FALSE
    BY <1>2, <1>3
  <2>4. ASSUME NEW i \in 1..4
        PROVE  q[i].op = "create" <=> (i = First("rolling") \/ ("rolling" = "supersede" /\ i = 7))
    BY <2>1, <2>2
  <2>5. ASSUME NEW i \in 1..4, q[i].op = "create" PROVE Creates(q[i])
    BY <1>4, <2>2, <2>5
  <2>6. ASSUME NEW i \in 1..4, q[i].op = "create", i # First("rolling") PROVE PausedAt("rolling", i)
    BY <2>1, <2>2, <2>6
  <2>7. ASSUME NEW i \in 1..4, q[i] = Status(1, "PAUSED")
        PROVE  i > First("rolling") /\ ("rolling" = "supersede" => i < 7)
    BY <2>1, <2>3, <2>7
  <2>8. QED  BY <1>1, <2>4, <2>5, <2>6, <2>7, Zenon DEF CreatesInOrder, q
<1>7. PreparesInOrder("rolling")
  <2>1. \A i \in 1..4 :
          q[i].op \in {"scale", "healthTimeout", "noteWorker"} => i = 1 \/ i = 2
    BY <1>2
  <2>2. \A i \in 1..4 : q[i].op = "scale" => i = 1
    BY <1>2
  <2>3. First("rolling") = 3
    BY DEF First
  <2>4. ASSUME NEW i \in 1..4
        PROVE  /\ q[i].op \in {"scale", "healthTimeout", "noteWorker"} => i < First("rolling")
               /\ q[i].op = "scale" => "rolling" = "rolling"
    BY <2>1, <2>2, <2>3
  <2>5. QED  BY <1>1, <2>4 DEF PreparesInOrder, q
<1>8. AsksInOrder("rolling")
  <2>1. \A i \in 1..4 : q[i].op \in {"continue", "cancel"} => FALSE
    BY <1>2
  <2>2. QED  BY <1>1, <1>2, <2>1 DEF AsksInOrder, q
<1>9. LooksInOrder("rolling")
  <2>1. First("rolling") = 3
    BY DEF First
  <2>2. \A i \in 1..4 : q[i].op = "running" => FALSE
    BY <1>2
  <2>3. \A i \in 1..4 : q[i].op = "note" => FALSE
    BY <1>2
  <2>4. ASSUME NEW i \in 1..4, q[i].op = "running"
        PROVE  /\ NotedAt("rolling", i) /\ q[i].who \in {"canary", "original"}
               /\ q[i].who = "canary" => ~CanceledAt("rolling", i)
               /\ q[i].who = "original" => CanceledAt("rolling", i)
    BY <1>5, <2>2, <2>4
  <2>5. ASSUME NEW i \in 1..4, q[i].op = "note"
        PROVE  i > First("rolling") /\ ~CanceledAt("rolling", i)
    BY <1>5, <2>1, <2>3, <2>5
  <2>6. QED  BY <1>1, <2>4, <2>5 DEF LooksInOrder, q
<1>10. Len(q) \in Nat \ {0}
  BY <1>1
<1>11. QED  BY <1>10, <1>6, <1>7, <1>8, <1>9 DEF Order, q

LEMMA InFlightScriptSteps ==
  LET q == Script("inFlight") IN
  /\ Len(q) = 6
  /\ q[1] = Serves("dora")
  /\ q[2] = Create("rolling", "dora", <<>>, MaxInFlight)
  /\ q[3] = TwoWebs
  /\ q[4] = Note
  /\ q[5] = Wants(MaxInFlight)
  /\ q[6] = Running("canary", Instances)
BY DEF Script, InFlightScript

LEMMA InFlightScriptOrder == Order("inFlight")
<1> DEFINE q == Script("inFlight")
<1>1. Len(q) = 6
  BY InFlightScriptSteps
<1>2. /\ q[1].op = "serves"
      /\ q[2].op = "create"
      /\ q[3].op = "twoWebs"
      /\ q[4].op = "note"
      /\ q[5].op = "wants"
      /\ q[6].op = "running"
  BY InFlightScriptSteps DEF Serves, Only, Never, Create, TwoWebs, Status, Is, Note, Running, Wants,
     WantsNot, Continue, Cancel, Sleep, WorkerStarted, NoteWorker, Scale, HealthTimeout
<1>3. \A i \in 1..6 : q[i] = Status(1, "PAUSED") => q[i].op = "status"
  BY InFlightScriptSteps DEF Status
<1>4. Creates(q[2])
  <2>1. q[2] = Create("rolling", "dora", <<>>, MaxInFlight)
    BY InFlightScriptSteps
  <2>2. <<>> \in Seq(1..Instances) /\ <<1>> \in Seq(1..Instances) /\ Len(<<1>>) = 1
        /\ 1 \in 1..Instances /\ MaxInFlight \in 1..Instances
    BY DeploymentsAssumption
  <2> HIDE DEF q
  <2>3. QED  BY <2>1, <2>2 DEF Creates, Create, Droplets
<1>5. q[6].who = "canary"
  BY InFlightScriptSteps DEF Running
<1> HIDE DEF q
<1>6. NotedAt("inFlight", 6)
  <2>1. q[4].op = "note" /\ \A k \in 5..5 : q[k].op # "create"
    BY <1>2
  <2>2. QED  BY <2>1 DEF NotedAt, q
<1>7. \A i \in 1..6 : ~CanceledAt("inFlight", i)
  <2>1. \A j \in 1..6 : q[j].op # "cancel"
    BY <1>2
  <2>2. QED  BY <2>1 DEF CanceledAt, q
<1>8. CreatesInOrder("inFlight")
  <2>1. First("inFlight") = 2
    BY DEF First
  <2>2. \A i \in 1..6 : q[i].op = "create" <=> i = 2
    BY <1>2
  <2>3. \A i \in 1..6 : q[i] = Status(1, "PAUSED") => FALSE
    BY <1>2, <1>3
  <2>4. ASSUME NEW i \in 1..6
        PROVE  q[i].op = "create" <=> (i = First("inFlight") \/ ("inFlight" = "supersede" /\ i = 7))
    BY <2>1, <2>2
  <2>5. ASSUME NEW i \in 1..6, q[i].op = "create" PROVE Creates(q[i])
    BY <1>4, <2>2, <2>5
  <2>6. ASSUME NEW i \in 1..6, q[i].op = "create", i # First("inFlight") PROVE PausedAt("inFlight", i)
    BY <2>1, <2>2, <2>6
  <2>7. ASSUME NEW i \in 1..6, q[i] = Status(1, "PAUSED")
        PROVE  i > First("inFlight") /\ ("inFlight" = "supersede" => i < 7)
    BY <2>1, <2>3, <2>7
  <2>8. QED  BY <1>1, <2>4, <2>5, <2>6, <2>7, Zenon DEF CreatesInOrder, q
<1>9. PreparesInOrder("inFlight")
  <2>1. \A i \in 1..6 :
          q[i].op \in {"scale", "healthTimeout", "noteWorker"} => FALSE
    BY <1>2
  <2>2. \A i \in 1..6 : q[i].op = "scale" => FALSE
    BY <1>2
  <2>3. First("inFlight") = 2
    BY DEF First
  <2>4. ASSUME NEW i \in 1..6
        PROVE  /\ q[i].op \in {"scale", "healthTimeout", "noteWorker"} => i < First("inFlight")
               /\ q[i].op = "scale" => "inFlight" = "rolling"
    BY <2>1, <2>2, <2>3
  <2>5. QED  BY <1>1, <2>4 DEF PreparesInOrder, q
<1>10. AsksInOrder("inFlight")
  <2>1. \A i \in 1..6 : q[i].op \in {"continue", "cancel"} => FALSE
    BY <1>2
  <2>2. QED  BY <1>1, <1>2, <2>1 DEF AsksInOrder, q
<1>11. LooksInOrder("inFlight")
  <2>1. First("inFlight") = 2
    BY DEF First
  <2>2. \A i \in 1..6 : q[i].op = "running" => i = 6
    BY <1>2
  <2>3. \A i \in 1..6 : q[i].op = "note" => i = 4
    BY <1>2
  <2>4. ASSUME NEW i \in 1..6, q[i].op = "running"
        PROVE  /\ NotedAt("inFlight", i) /\ q[i].who \in {"canary", "original"}
               /\ q[i].who = "canary" => ~CanceledAt("inFlight", i)
               /\ q[i].who = "original" => CanceledAt("inFlight", i)
    BY <1>5, <1>6, <1>7, <2>2, <2>4
  <2>5. ASSUME NEW i \in 1..6, q[i].op = "note"
        PROVE  i > First("inFlight") /\ ~CanceledAt("inFlight", i)
    BY <1>7, <2>1, <2>3, <2>5
  <2>6. QED  BY <1>1, <2>4, <2>5 DEF LooksInOrder, q
<1>12. Len(q) \in Nat \ {0}
  BY <1>1
<1>13. QED  BY <1>12, <1>8, <1>9, <1>10, <1>11 DEF Order, q

LEMMA InFlightCanaryScriptSteps ==
  LET q == Script("inFlightCanary") IN
  /\ Len(q) = 9
  /\ q[1] = Serves("dora")
  /\ q[2] = Create("canary", "dora", <<1>>, MaxInFlight)
  /\ q[3] = TwoWebs
  /\ q[4] = Status(1, "PAUSED")
  /\ q[5] = Note
  /\ q[6] = Continue
  /\ q[7] = WantsNot(1)
  /\ q[8] = Wants(MaxInFlight)
  /\ q[9] = Running("canary", Instances)
BY DEF Script, InFlightCanaryScript, Paused

LEMMA InFlightCanaryScriptOrder == Order("inFlightCanary")
<1> DEFINE q == Script("inFlightCanary")
<1>1. Len(q) = 9
  BY InFlightCanaryScriptSteps
<1>2. /\ q[1].op = "serves"
      /\ q[2].op = "create"
      /\ q[3].op = "twoWebs"
      /\ q[4].op = "status"
      /\ q[5].op = "note"
      /\ q[6].op = "continue"
      /\ q[7].op = "wantsNot"
      /\ q[8].op = "wants"
      /\ q[9].op = "running"
  BY InFlightCanaryScriptSteps DEF Serves, Only, Never, Create, TwoWebs, Status, Is, Note, Running, Wants,
     WantsNot, Continue, Cancel, Sleep, WorkerStarted, NoteWorker, Scale, HealthTimeout
<1>3. /\ q[4] = Status(1, "PAUSED")
      /\ \A i \in 1..9 : q[i] = Status(1, "PAUSED") => q[i].op = "status"
  BY InFlightCanaryScriptSteps DEF Status
<1>4. Creates(q[2])
  <2>1. q[2] = Create("canary", "dora", <<1>>, MaxInFlight)
    BY InFlightCanaryScriptSteps
  <2>2. <<>> \in Seq(1..Instances) /\ <<1>> \in Seq(1..Instances) /\ Len(<<1>>) = 1
        /\ 1 \in 1..Instances /\ MaxInFlight \in 1..Instances
    BY DeploymentsAssumption
  <2> HIDE DEF q
  <2>3. QED  BY <2>1, <2>2 DEF Creates, Create, Droplets
<1>5. q[9].who = "canary"
  BY InFlightCanaryScriptSteps DEF Running
<1> HIDE DEF q
<1>6. PausedAt("inFlightCanary", 6)
  <2>1. q[4] = Status(1, "PAUSED") /\ \A k \in 5..5 : q[k].op \in Quiet
    BY <1>2, <1>3 DEF Quiet
  <2>2. QED  BY <2>1 DEF PausedAt, q
<1>7. NotedAt("inFlightCanary", 9)
  <2>1. q[5].op = "note" /\ \A k \in 6..8 : q[k].op # "create"
    BY <1>2
  <2>2. QED  BY <2>1 DEF NotedAt, q
<1>8. \A i \in 1..9 : ~CanceledAt("inFlightCanary", i)
  <2>1. \A j \in 1..9 : q[j].op # "cancel"
    BY <1>2
  <2>2. QED  BY <2>1 DEF CanceledAt, q
<1>9. CreatesInOrder("inFlightCanary")
  <2>1. First("inFlightCanary") = 2
    BY DEF First
  <2>2. \A i \in 1..9 : q[i].op = "create" <=> i = 2
    BY <1>2
  <2>3. \A i \in 1..9 : q[i] = Status(1, "PAUSED") => i = 4
    BY <1>2, <1>3
  <2>4. ASSUME NEW i \in 1..9
        PROVE  q[i].op = "create" <=> (i = First("inFlightCanary") \/ ("inFlightCanary" = "supersede" /\ i = 7))
    BY <2>1, <2>2
  <2>5. ASSUME NEW i \in 1..9, q[i].op = "create" PROVE Creates(q[i])
    BY <1>4, <2>2, <2>5
  <2>6. ASSUME NEW i \in 1..9, q[i].op = "create", i # First("inFlightCanary") PROVE PausedAt("inFlightCanary", i)
    BY <2>1, <2>2, <2>6
  <2>7. ASSUME NEW i \in 1..9, q[i] = Status(1, "PAUSED")
        PROVE  i > First("inFlightCanary") /\ ("inFlightCanary" = "supersede" => i < 7)
    BY <2>1, <2>3, <2>7
  <2>8. QED  BY <1>1, <2>4, <2>5, <2>6, <2>7, Zenon DEF CreatesInOrder, q
<1>10. PreparesInOrder("inFlightCanary")
  <2>1. \A i \in 1..9 :
          q[i].op \in {"scale", "healthTimeout", "noteWorker"} => FALSE
    BY <1>2
  <2>2. \A i \in 1..9 : q[i].op = "scale" => FALSE
    BY <1>2
  <2>3. First("inFlightCanary") = 2
    BY DEF First
  <2>4. ASSUME NEW i \in 1..9
        PROVE  /\ q[i].op \in {"scale", "healthTimeout", "noteWorker"} => i < First("inFlightCanary")
               /\ q[i].op = "scale" => "inFlightCanary" = "rolling"
    BY <2>1, <2>2, <2>3
  <2>5. QED  BY <1>1, <2>4 DEF PreparesInOrder, q
<1>11. AsksInOrder("inFlightCanary")
  <2>1. \A i \in 1..9 : q[i].op \in {"continue", "cancel"} => i = 6
    BY <1>2
  <2>2. QED  BY <1>1, <1>2, <1>6, <2>1 DEF AsksInOrder, q
<1>12. LooksInOrder("inFlightCanary")
  <2>1. First("inFlightCanary") = 2
    BY DEF First
  <2>2. \A i \in 1..9 : q[i].op = "running" => i = 9
    BY <1>2
  <2>3. \A i \in 1..9 : q[i].op = "note" => i = 5
    BY <1>2
  <2>4. ASSUME NEW i \in 1..9, q[i].op = "running"
        PROVE  /\ NotedAt("inFlightCanary", i) /\ q[i].who \in {"canary", "original"}
               /\ q[i].who = "canary" => ~CanceledAt("inFlightCanary", i)
               /\ q[i].who = "original" => CanceledAt("inFlightCanary", i)
    BY <1>5, <1>7, <1>8, <2>2, <2>4
  <2>5. ASSUME NEW i \in 1..9, q[i].op = "note"
        PROVE  i > First("inFlightCanary") /\ ~CanceledAt("inFlightCanary", i)
    BY <1>8, <2>1, <2>3, <2>5
  <2>6. QED  BY <1>1, <2>4, <2>5 DEF LooksInOrder, q
<1>13. Len(q) \in Nat \ {0}
  BY <1>1
<1>14. QED  BY <1>13, <1>9, <1>10, <1>11, <1>12 DEF Order, q

LEMMA BadDropletScriptSteps ==
  LET q == Script("badDroplet") IN
  /\ Len(q) = 3
  /\ q[1] = Create("rolling", "bad", <<>>, 1)
  /\ q[2] = Sleep
  /\ q[3] = Is(1, "DEPLOYING")
BY DEF Script, BadDropletScript

LEMMA BadDropletScriptOrder == Order("badDroplet")
<1> DEFINE q == Script("badDroplet")
<1>1. Len(q) = 3
  BY BadDropletScriptSteps
<1>2. /\ q[1].op = "create"
      /\ q[2].op = "sleep"
      /\ q[3].op = "is"
  BY BadDropletScriptSteps DEF Serves, Only, Never, Create, TwoWebs, Status, Is, Note, Running, Wants,
     WantsNot, Continue, Cancel, Sleep, WorkerStarted, NoteWorker, Scale, HealthTimeout
<1>3. \A i \in 1..3 : q[i] = Status(1, "PAUSED") => q[i].op = "status"
  BY BadDropletScriptSteps DEF Status
<1>4. Creates(q[1])
  <2>1. q[1] = Create("rolling", "bad", <<>>, 1)
    BY BadDropletScriptSteps
  <2>2. <<>> \in Seq(1..Instances) /\ <<1>> \in Seq(1..Instances) /\ Len(<<1>>) = 1
        /\ 1 \in 1..Instances /\ MaxInFlight \in 1..Instances
    BY DeploymentsAssumption
  <2> HIDE DEF q
  <2>3. QED  BY <2>1, <2>2 DEF Creates, Create, Droplets
<1> HIDE DEF q
<1>5. \A i \in 1..3 : ~CanceledAt("badDroplet", i)
  <2>1. \A j \in 1..3 : q[j].op # "cancel"
    BY <1>2
  <2>2. QED  BY <2>1 DEF CanceledAt, q
<1>6. CreatesInOrder("badDroplet")
  <2>1. First("badDroplet") = 1
    BY DEF First
  <2>2. \A i \in 1..3 : q[i].op = "create" <=> i = 1
    BY <1>2
  <2>3. \A i \in 1..3 : q[i] = Status(1, "PAUSED") => FALSE
    BY <1>2, <1>3
  <2>4. ASSUME NEW i \in 1..3
        PROVE  q[i].op = "create" <=> (i = First("badDroplet") \/ ("badDroplet" = "supersede" /\ i = 7))
    BY <2>1, <2>2
  <2>5. ASSUME NEW i \in 1..3, q[i].op = "create" PROVE Creates(q[i])
    BY <1>4, <2>2, <2>5
  <2>6. ASSUME NEW i \in 1..3, q[i].op = "create", i # First("badDroplet") PROVE PausedAt("badDroplet", i)
    BY <2>1, <2>2, <2>6
  <2>7. ASSUME NEW i \in 1..3, q[i] = Status(1, "PAUSED")
        PROVE  i > First("badDroplet") /\ ("badDroplet" = "supersede" => i < 7)
    BY <2>1, <2>3, <2>7
  <2>8. QED  BY <1>1, <2>4, <2>5, <2>6, <2>7, Zenon DEF CreatesInOrder, q
<1>7. PreparesInOrder("badDroplet")
  <2>1. \A i \in 1..3 :
          q[i].op \in {"scale", "healthTimeout", "noteWorker"} => FALSE
    BY <1>2
  <2>2. \A i \in 1..3 : q[i].op = "scale" => FALSE
    BY <1>2
  <2>3. First("badDroplet") = 1
    BY DEF First
  <2>4. ASSUME NEW i \in 1..3
        PROVE  /\ q[i].op \in {"scale", "healthTimeout", "noteWorker"} => i < First("badDroplet")
               /\ q[i].op = "scale" => "badDroplet" = "rolling"
    BY <2>1, <2>2, <2>3
  <2>5. QED  BY <1>1, <2>4 DEF PreparesInOrder, q
<1>8. AsksInOrder("badDroplet")
  <2>1. \A i \in 1..3 : q[i].op \in {"continue", "cancel"} => FALSE
    BY <1>2
  <2>2. QED  BY <1>1, <1>2, <2>1 DEF AsksInOrder, q
<1>9. LooksInOrder("badDroplet")
  <2>1. First("badDroplet") = 1
    BY DEF First
  <2>2. \A i \in 1..3 : q[i].op = "running" => FALSE
    BY <1>2
  <2>3. \A i \in 1..3 : q[i].op = "note" => FALSE
    BY <1>2
  <2>4. ASSUME NEW i \in 1..3, q[i].op = "running"
        PROVE  /\ NotedAt("badDroplet", i) /\ q[i].who \in {"canary", "original"}
               /\ q[i].who = "canary" => ~CanceledAt("badDroplet", i)
               /\ q[i].who = "original" => CanceledAt("badDroplet", i)
    BY <1>5, <2>2, <2>4
  <2>5. ASSUME NEW i \in 1..3, q[i].op = "note"
        PROVE  i > First("badDroplet") /\ ~CanceledAt("badDroplet", i)
    BY <1>5, <2>1, <2>3, <2>5
  <2>6. QED  BY <1>1, <2>4, <2>5 DEF LooksInOrder, q
<1>10. Len(q) \in Nat \ {0}
  BY <1>1
<1>11. QED  BY <1>10, <1>6, <1>7, <1>8, <1>9 DEF Order, q

\* The steps of a turn of the loop.
LEMMA TurnSteps ==
  ASSUME NEW t
  PROVE  /\ Turn(t) = StepTurn(t) /\ Len(Turn(t)) = 7
         /\ Turn(t)[1] = Status(1, "PAUSED")
         /\ Turn(t)[2] = Serves("static")
         /\ Turn(t)[3] = Serves("dora")
         /\ Turn(t)[4] = Note
         /\ Turn(t)[5] = Running("canary", t)
         /\ Turn(t)[6] = Continue
         /\ Turn(t)[7] = Status(1, "DEPLOYING")
BY DEF Turn, StepTurn, Paused, BothServe

\* A position of the loop is a step of a turn.
LEMMA TurnOfPosition ==
  ASSUME NEW n \in Nat, NEW k \in 1..(7 * n)
  PROVE  LET t == ((k - 1) \div 7) + 1
             j == ((k - 1) % 7) + 1 IN
         t \in 1..n /\ j \in 1..7 /\ k = 7 * (t - 1) + j
OBVIOUS

LEMMA PositionOfTurn ==
  ASSUME NEW n \in Nat, NEW t \in 1..n, NEW j \in 1..7
  PROVE  LET k == 7 * (t - 1) + j IN
         k \in 1..(7 * n) /\ ((k - 1) \div 7) + 1 = t /\ ((k - 1) % 7) + 1 = j
OBVIOUS

LEMMA StepsScriptSteps ==
  LET q == Script("steps")
      n == Len(StepTargets) IN
  /\ Len(q) = 7 * n + 9
  /\ q[1] = Serves("dora")
  /\ q[2] = NoteWorker
  /\ q[3] = Create("canary", "static", StepTargets, 1)
  /\ q[4] = TwoWebs
  /\ \A t \in 1..n : \A j \in 1..7 : q[4 + (7 * (t - 1) + j)] = Turn(t)[j]
  /\ q[7 * n + 5] = Status(1, "DEPLOYED")
  /\ q[7 * n + 6] = Note
  /\ q[7 * n + 7] = Running("canary", Instances)
  /\ q[7 * n + 8] = Only("static")
  /\ q[7 * n + 9] = WorkerStarted
<1> DEFINE n == Len(StepTargets)
           p1 == <<Serves("dora"), NoteWorker>> \o Canary(StepTargets, 1)
           p2 == Loop
           p3 == <<Status(1, "DEPLOYED"), Note>>
           p4 == RolledOut
           S == {p1[1], p1[2], p1[3], p1[4], p3[1], p3[2], p4[1], p4[2], p4[3]}
                  \cup {p2[k] : k \in 1..(7 * n)}
<1>1. Script("steps") = p1 \o p2 \o p3 \o p4
  BY DEF Script, StepsScript
<1>2. n \in Nat
  BY DeploymentsAssumption
<1>3. /\ Len(p1) = 4 /\ p1[1] = Serves("dora") /\ p1[2] = NoteWorker
      /\ p1[3] = Create("canary", "static", StepTargets, 1) /\ p1[4] = TwoWebs
  BY DEF Canary
<1>4. p2 = [k \in 1..(7 * n) |-> Turn(((k - 1) \div 7) + 1)[((k - 1) % 7) + 1]]
  <2>1. Len(Turn(1)) = 7
    BY TurnSteps
  <2>2. QED  BY <2>1, Zenon DEF Loop
<1>5. Len(p3) = 2 /\ p3[1] = Status(1, "DEPLOYED") /\ p3[2] = Note
  OBVIOUS
<1>6. /\ Len(p4) = 3 /\ p4[1] = Running("canary", Instances)
      /\ p4[2] = Only("static") /\ p4[3] = WorkerStarted
  BY DEF RolledOut, Checks
<1>7. p1 \in Seq(S)
  BY DEF Canary
<1>8. p2 \in Seq(S) /\ Len(p2) = 7 * n
  <2> HIDE DEF p1, p3, p4
  <2>1. 7 * n \in Nat /\ \A k \in 1..(7 * n) : p2[k] \in S
    BY <1>2
  <2>2. DOMAIN p2 = 1..(7 * n) /\ p2 = [k \in 1..(7 * n) |-> p2[k]]
    BY <1>4
  <2> HIDE DEF S, p2, n
  <2>3. p2 \in [1..(7 * n) -> S]
    BY <2>1, <2>2
  <2>4. p2 \in Seq(S)
    BY <2>1, <2>3
  <2>5. QED  BY <2>1, <2>2, <2>4, LenProperties
<1>9. p3 \in Seq(S)
  <2>1. p3[1] \in S /\ p3[2] \in S
    OBVIOUS
  <2> HIDE DEF S
  <2>2. QED  BY <2>1
<1>10. p4 \in Seq(S)
  <2>1. p4[1] \in S /\ p4[2] \in S /\ p4[3] \in S
    OBVIOUS
  <2> HIDE DEF S
  <2>2. QED  BY <2>1 DEF RolledOut, Checks
<1> HIDE DEF S, p1, p2, p3, p4, n
<1> DEFINE c2 == p1 \o p2
           c3 == c2 \o p3
           c4 == c3 \o p4
<1>11. /\ c2 \in Seq(S) /\ Len(c2) = Len(p1) + Len(p2)
       /\ \A i \in 1..(Len(p1) + Len(p2)) :
            c2[i] = IF i <= Len(p1) THEN p1[i] ELSE p2[i - Len(p1)]
  BY <1>7, <1>8, ConcatProperties, Zenon
<1>12. c2 \in Seq(S)
  BY <1>11
<1> HIDE DEF c2
<1>13. /\ c3 \in Seq(S) /\ Len(c3) = Len(c2) + Len(p3)
       /\ \A i \in 1..(Len(c2) + Len(p3)) :
            c3[i] = IF i <= Len(c2) THEN c2[i] ELSE p3[i - Len(c2)]
  BY <1>9, <1>12, ConcatProperties, Zenon
<1>14. c3 \in Seq(S)
  BY <1>13
<1> HIDE DEF c3
<1>15. /\ c4 \in Seq(S) /\ Len(c4) = Len(c3) + Len(p4)
       /\ \A i \in 1..(Len(c3) + Len(p4)) :
            c4[i] = IF i <= Len(c3) THEN c3[i] ELSE p4[i - Len(c3)]
  BY <1>10, <1>14, ConcatProperties, Zenon
<1>16. Script("steps") = c4
  BY <1>1 DEF c2, c3
<1> HIDE DEF c4
<1>17. Len(p1) = 4 /\ Len(p2) = 7 * n /\ Len(p3) = 2 /\ Len(p4) = 3 /\ n \in Nat
  BY <1>2, <1>3, <1>5, <1>6, <1>8
<1>18. Len(c2) = 4 + 7 * n /\ Len(c3) = 6 + 7 * n /\ Len(c4) = 9 + 7 * n
  BY <1>11, <1>13, <1>15, <1>17
<1>19. /\ \A i \in 1..4 : c4[i] = p1[i]
       /\ \A k \in 1..(7 * n) : c4[4 + k] = p2[k]
       /\ c4[7 * n + 5] = p3[1] /\ c4[7 * n + 6] = p3[2]
       /\ c4[7 * n + 7] = p4[1] /\ c4[7 * n + 8] = p4[2] /\ c4[7 * n + 9] = p4[3]
  BY <1>11, <1>13, <1>15, <1>17, <1>18
<1>20. ASSUME NEW t \in 1..n, NEW j \in 1..7
       PROVE  c4[4 + (7 * (t - 1) + j)] = Turn(t)[j]
  <2> DEFINE k == 7 * (t - 1) + j
  <2>1. k \in 1..(7 * n) /\ ((k - 1) \div 7) + 1 = t /\ ((k - 1) % 7) + 1 = j
    BY <1>2, PositionOfTurn
  <2>2. p2[k] = Turn(((k - 1) \div 7) + 1)[((k - 1) % 7) + 1]
    BY <1>4, <2>1
  <2> HIDE DEF k
  <2>3. c4[4 + k] = Turn(t)[j]
    BY <1>19, <2>1, <2>2
  <2>4. QED  BY <2>3 DEF k
<1>21. /\ c4[1] = Serves("dora") /\ c4[2] = NoteWorker /\ c4[4] = TwoWebs
       /\ c4[3] = Create("canary", "static", StepTargets, 1)
  BY <1>3, <1>19
<1>22. /\ c4[7 * n + 5] = Status(1, "DEPLOYED") /\ c4[7 * n + 6] = Note
       /\ c4[7 * n + 7] = Running("canary", Instances)
       /\ c4[7 * n + 8] = Only("static") /\ c4[7 * n + 9] = WorkerStarted
  BY <1>5, <1>6, <1>19
<1>23. Len(c4) = 7 * n + 9
  BY <1>17, <1>18
<1>24. QED
  BY <1>16, <1>20, <1>21, <1>22, <1>23, Zenon DEF n

LEMMA StepsScriptOrder == Order("steps")
<1> DEFINE q == Script("steps")
           n == Len(StepTargets)
           At(t, j) == 4 + (7 * (t - 1) + j)
<1>1. n \in Nat \ {0} /\ Len(q) = 7 * n + 9
  BY StepsScriptSteps, DeploymentsAssumption
<1>2. /\ q[1].op = "serves" /\ q[2].op = "noteWorker" /\ q[3].op = "create"
      /\ q[4].op = "twoWebs"
  BY StepsScriptSteps DEF Serves, NoteWorker, Create, TwoWebs
<1>3. /\ q[7 * n + 5].op = "status" /\ q[7 * n + 6].op = "note" /\ q[7 * n + 7].op = "running"
      /\ q[7 * n + 8].op = "only" /\ q[7 * n + 9].op = "workerStarted"
      /\ q[7 * n + 7].who = "canary"
  BY StepsScriptSteps, SMTT(30) DEF Status, Note, Running, Only, WorkerStarted
<1>4. ASSUME NEW t \in 1..n
      PROVE  /\ q[At(t, 1)] = Status(1, "PAUSED") /\ q[At(t, 1)].op = "status"
             /\ q[At(t, 2)].op = "serves" /\ q[At(t, 3)].op = "serves"
             /\ q[At(t, 4)].op = "note" /\ q[At(t, 5)].op = "running"
             /\ q[At(t, 5)].who = "canary"
             /\ q[At(t, 6)].op = "continue" /\ q[At(t, 7)].op = "status"
  <2>1. \A j \in 1..7 : q[At(t, j)] = Turn(t)[j]
    BY StepsScriptSteps
  <2> HIDE DEF q, At
  <2>2. /\ q[At(t, 1)] = Turn(t)[1] /\ q[At(t, 2)] = Turn(t)[2] /\ q[At(t, 3)] = Turn(t)[3]
        /\ q[At(t, 4)] = Turn(t)[4] /\ q[At(t, 5)] = Turn(t)[5] /\ q[At(t, 6)] = Turn(t)[6]
        /\ q[At(t, 7)] = Turn(t)[7]
    BY <2>1
  <2>3. /\ Turn(t)[1].op = "status" /\ Turn(t)[2].op = "serves" /\ Turn(t)[3].op = "serves"
        /\ Turn(t)[4].op = "note" /\ Turn(t)[5].op = "running" /\ Turn(t)[5].who = "canary"
        /\ Turn(t)[6].op = "continue" /\ Turn(t)[7].op = "status"
    BY DEF Turn, StepTurn, Paused, BothServe, Status, Serves, Note, Running, Continue
  <2>4. QED  BY <2>2, <2>3, TurnSteps, Zenon
<1>5. Creates(q[3])
  <2>1. q[3] = Create("canary", "static", StepTargets, 1)
    BY StepsScriptSteps
  <2>2. /\ StepTargets \in Seq(1..Instances) /\ Len(StepTargets) > 0 /\ 1 \in 1..Instances
    BY DeploymentsAssumption
  <2> HIDE DEF q, n
  <2>3. QED  BY <2>1, <2>2 DEF Creates, Create, Droplets
<1> HIDE DEF q, n
\* Where a step can be.
<1>6. ASSUME NEW i \in 1..(7 * n + 9)
      PROVE  \/ i \in 1..4
             \/ i \in (7 * n + 5)..(7 * n + 9)
             \/ \E t \in 1..n : \E j \in 1..7 : i = At(t, j)
  <2>1. CASE i \in 5..(7 * n + 4)
    <3> DEFINE k == i - 4
               t == ((k - 1) \div 7) + 1
               j == ((k - 1) % 7) + 1
    <3>1. k \in 1..(7 * n)
      BY <1>1, <2>1
    <3>2. t \in 1..n /\ j \in 1..7 /\ k = 7 * (t - 1) + j
      BY <1>1, <3>1, TurnOfPosition
    <3>3. i = At(t, j)
      BY <3>2
    <3>4. QED  BY <3>2, <3>3
  <2>2. CASE i \notin 5..(7 * n + 4)
    BY <1>1, <2>2
  <2>3. QED  BY <2>1, <2>2
<1>7. ASSUME NEW i \in 1..(7 * n + 9)
      PROVE  /\ q[i].op = "create" <=> i = 3
             /\ q[i].op # "cancel"
             /\ q[i].op = "noteWorker" => i = 2
             /\ q[i].op \notin {"scale", "healthTimeout"}
             /\ q[i].op = "status" => i > 3
             /\ q[i].op = "note" => i > 3
             /\ q[i].op = "continue" => \E t \in 1..n : i = At(t, 6)
             /\ q[i].op = "running" =>
                  /\ q[i].who = "canary"
                  /\ i = 7 * n + 7 \/ \E t \in 1..n : i = At(t, 5)
  <2>1. CASE i \in 1..4
    <3>1. i = 1 \/ i = 2 \/ i = 3 \/ i = 4
      BY <2>1
    <3>2. QED  BY <1>2, <3>1
  <2>2. CASE i \in (7 * n + 5)..(7 * n + 9)
    <3>1. \/ i = 7 * n + 5 \/ i = 7 * n + 6 \/ i = 7 * n + 7 \/ i = 7 * n + 8 \/ i = 7 * n + 9
      BY <1>1, <2>2
    <3>2. i > 3
      BY <1>1, <2>2
    <3>3. QED  BY <1>3, <3>1, <3>2
  <2>3. ASSUME NEW t \in 1..n, NEW j \in 1..7, i = At(t, j)
        PROVE  /\ q[i].op = "create" <=> i = 3
               /\ q[i].op # "cancel"
               /\ q[i].op = "noteWorker" => i = 2
               /\ q[i].op \notin {"scale", "healthTimeout"}
               /\ q[i].op = "status" => i > 3
               /\ q[i].op = "note" => i > 3
               /\ q[i].op = "continue" => \E u \in 1..n : i = At(u, 6)
               /\ q[i].op = "running" =>
                    /\ q[i].who = "canary"
                    /\ i = 7 * n + 7 \/ \E u \in 1..n : i = At(u, 5)
    <3>1. i > 3
      BY <1>1, <2>3
    <3>2. j = 1 \/ j = 2 \/ j = 3 \/ j = 4 \/ j = 5 \/ j = 6 \/ j = 7
      OBVIOUS
    <3> HIDE DEF At
    <3>3. /\ j = 1 => q[i].op = "status"
          /\ j = 2 \/ j = 3 => q[i].op = "serves"
          /\ j = 4 => q[i].op = "note"
          /\ j = 5 => q[i].op = "running" /\ q[i].who = "canary"
          /\ j = 6 => q[i].op = "continue"
          /\ j = 7 => q[i].op = "status"
      BY <1>4, <2>3
    <3>4. q[i].op \in {"status", "serves", "note", "running", "continue"}
      BY <3>2, <3>3
    <3>5. /\ q[i].op = "continue" => j = 6
          /\ q[i].op = "running" => j = 5 /\ q[i].who = "canary"
      BY <3>2, <3>3
    <3>6. QED  BY <2>3, <3>1, <3>4, <3>5
  <2> HIDE DEF At
  <2>4. CASE \E t \in 1..n : \E j \in 1..7 : i = At(t, j)
    <3>1. PICK t \in 1..n, j \in 1..7 : i = At(t, j)
      BY <2>4
    <3>2. QED  BY <2>3, <3>1, Zenon
  <2>5. QED  BY <1>6, <2>1, <2>2, <2>4, Zenon
<1>8. ASSUME NEW t \in 1..n PROVE PausedAt("steps", At(t, 6))
  <2>1. At(t, 1) \in 1..(At(t, 6) - 1) /\ At(t, 6) - 1 = At(t, 5)
    BY <1>1
  <2>2. ASSUME NEW k \in (At(t, 1) + 1)..(At(t, 6) - 1) PROVE q[k].op \in Quiet
    <3>1. k = At(t, 2) \/ k = At(t, 3) \/ k = At(t, 4) \/ k = At(t, 5)
      BY <1>1
    <3> HIDE DEF At
    <3>2. QED  BY <1>4, <3>1 DEF Quiet
  <2>3. q[At(t, 1)] = Status(1, "PAUSED")
    BY <1>4
  <2> HIDE DEF At
  <2>4. QED  BY <2>1, <2>2, <2>3 DEF PausedAt, q
<1>9. ASSUME NEW t \in 1..n PROVE NotedAt("steps", At(t, 5))
  <2>1. At(t, 4) \in 1..(At(t, 5) - 1) /\ (At(t, 4) + 1)..(At(t, 5) - 1) = {}
    BY <1>1
  <2>2. q[At(t, 4)].op = "note"
    BY <1>4
  <2> HIDE DEF At
  <2>3. QED  BY <2>1, <2>2 DEF NotedAt, q
<1>10. NotedAt("steps", 7 * n + 7)
  <2>1. /\ 7 * n + 6 \in 1..((7 * n + 7) - 1)
        /\ ((7 * n + 6) + 1)..((7 * n + 7) - 1) = {}
    BY <1>1
  <2>2. QED  BY <1>3, <2>1 DEF NotedAt, q
<1>11. ASSUME NEW i \in 1..(7 * n + 9) PROVE ~CanceledAt("steps", i)
  <2>1. \A j \in 1..(i - 1) : j \in 1..(7 * n + 9)
    BY <1>1
  <2>2. QED  BY <1>7, <2>1 DEF CanceledAt, q
<1> HIDE DEF At
<1>12. First("steps") = 3
  BY DEF First
<1>13. CreatesInOrder("steps")
  <2>1. \A i \in 1..(7 * n + 9) : q[i] = Status(1, "PAUSED") => i > 3
    BY <1>7 DEF Status
  <2>2. QED  BY <1>1, <1>5, <1>7, <1>12, <2>1, Zenon DEF CreatesInOrder, q
<1>14. PreparesInOrder("steps")
  <2>1. \A i \in 1..(7 * n + 9) :
          /\ q[i].op \in {"scale", "healthTimeout", "noteWorker"} => i < 3
          /\ q[i].op # "scale"
    BY <1>7
  <2>2. QED  BY <1>1, <1>12, <2>1 DEF PreparesInOrder, q
<1>15. AsksInOrder("steps")
  <2>1. \A i \in 1..(7 * n + 9) : q[i].op \in {"continue", "cancel"} => PausedAt("steps", i)
    BY <1>7, <1>8
  <2>2. QED  BY <1>1, <1>7, <2>1 DEF AsksInOrder, q
<1>16. LooksInOrder("steps")
  <2>1. ASSUME NEW i \in 1..(7 * n + 9), q[i].op = "running"
        PROVE  /\ NotedAt("steps", i) /\ q[i].who = "canary"
               /\ ~CanceledAt("steps", i)
    BY <1>7, <1>9, <1>10, <1>11, <2>1
  <2>2. ASSUME NEW i \in 1..(7 * n + 9), q[i].op = "note"
        PROVE  i > 3 /\ ~CanceledAt("steps", i)
    BY <1>7, <1>11, <2>2
  <2>3. QED  BY <1>1, <1>12, <2>1, <2>2 DEF LooksInOrder, q
<1>17. Len(q) \in Nat \ {0}
  BY <1>1
<1>18. QED  BY <1>13, <1>14, <1>15, <1>16, <1>17 DEF Order, q

\* Every spec takes its steps in that order.
LEMMA EveryScriptInOrder == ASSUME NEW s \in Specs PROVE Order(s)
BY ContinueScriptOrder, CancelScriptOrder, SupersedeScriptOrder, StepsScriptOrder,
   RollingScriptOrder, InFlightScriptOrder, InFlightCanaryScriptOrder, BadDropletScriptOrder
   DEF Specs

\* What is known at the next step.
LEMMA PausedNext ==
  ASSUME NEW s, NEW i \in Nat \ {0}, PausedAt(s, i + 1)
  PROVE  \/ Script(s)[i] = Status(1, "PAUSED")
         \/ PausedAt(s, i) /\ Script(s)[i].op \in Quiet
<1>1. PICK j \in 1..((i + 1) - 1) :
        /\ Script(s)[j] = Status(1, "PAUSED")
        /\ \A k \in (j + 1)..((i + 1) - 1) : Script(s)[k].op \in Quiet
  BY DEF PausedAt
<1>2. CASE j = i
  BY <1>1, <1>2
<1>3. CASE j # i
  <2>1. /\ j \in 1..(i - 1) /\ i \in (j + 1)..((i + 1) - 1)
        /\ \A k \in (j + 1)..(i - 1) : k \in (j + 1)..((i + 1) - 1)
    BY <1>3
  <2>2. QED  BY <1>1, <2>1 DEF PausedAt
<1>4. QED  BY <1>2, <1>3

LEMMA NotedNext ==
  ASSUME NEW s, NEW i \in Nat \ {0}, NotedAt(s, i + 1)
  PROVE  \/ Script(s)[i].op = "note"
         \/ NotedAt(s, i) /\ Script(s)[i].op # "create"
<1>1. PICK j \in 1..((i + 1) - 1) :
        /\ Script(s)[j].op = "note"
        /\ \A k \in (j + 1)..((i + 1) - 1) : Script(s)[k].op # "create"
  BY DEF NotedAt
<1>2. CASE j = i
  BY <1>1, <1>2
<1>3. CASE j # i
  <2>1. /\ j \in 1..(i - 1) /\ i \in (j + 1)..((i + 1) - 1)
        /\ \A k \in (j + 1)..(i - 1) : k \in (j + 1)..((i + 1) - 1)
    BY <1>3
  <2>2. QED  BY <1>1, <2>1 DEF NotedAt
<1>4. QED  BY <1>2, <1>3

LEMMA CanceledNext ==
  ASSUME NEW s, NEW i \in Nat \ {0}
  PROVE  CanceledAt(s, i + 1) <=> (CanceledAt(s, i) \/ Script(s)[i].op = "cancel")
<1>1. (i + 1) - 1 = i /\ \A j \in 1..i : j = i \/ j \in 1..(i - 1)
  OBVIOUS
<1>2. i \in 1..i /\ \A j \in 1..(i - 1) : j \in 1..i
  OBVIOUS
<1>3. QED  BY <1>1, <1>2, Zenon DEF CanceledAt

\* Nothing is known at the first step.
LEMMA KnownFirst ==
  ASSUME NEW s
  PROVE  ~PausedAt(s, 1) /\ ~NotedAt(s, 1) /\ ~CanceledAt(s, 1)
<1>1. 1..(1 - 1) = {}
  OBVIOUS
<1>2. QED  BY <1>1, Zenon DEF PausedAt, NotedAt, CanceledAt

\* Only the spec on canceling cancels, and it does so after its deployment.
LEMMA CanceledLate ==
  ASSUME NEW s \in Specs, NEW i \in 1..(Len(Script(s)) + 1), CanceledAt(s, i)
  PROVE  s = "cancel" /\ i > First(s)
<1>1. PICK j \in 1..(i - 1) : Script(s)[j].op = "cancel"
  BY DEF CanceledAt
<1>2. Len(Script(s)) \in Nat
  BY EveryScriptInOrder DEF Order
<1>3. j \in 1..Len(Script(s)) /\ i > j
  BY <1>2
<1>4. s = "cancel" /\ PausedAt(s, j)
  BY <1>1, <1>3, EveryScriptInOrder DEF Order, AsksInOrder
<1>5. PICK k \in 1..(j - 1) : Script(s)[k] = Status(1, "PAUSED")
  BY <1>4 DEF PausedAt
<1>6. k \in 1..Len(Script(s)) /\ j > k
  BY <1>2, <1>3
<1>7. k > First(s)
  BY <1>5, <1>6, EveryScriptInOrder DEF Order, CreatesInOrder
<1>8. First(s) \in Nat
  BY DEF First
<1>9. QED  BY <1>3, <1>4, <1>6, <1>7, <1>8

-----------------------------------------------------------------------------

Deps ==
  [strategy : {"canary", "rolling"}, status : Statuses, step : Nat \ {0},
   targets : Seq(1..Instances), mif : 1..Instances, proc : 2..3]
Procs ==
  [droplet : Droplets, want : 0..Instances, running : 0..Instances, live : BOOLEAN]

\* The driver is at a step of its script.
PlaceInv == verdict = "running" => pc \in 1..Len(Script(scenario))

\* How many deployments there are at a step, each with the next process; only the
\* last one moves.
DepInv ==
  /\ Len(dep) = IF pc <= First(scenario) THEN 0
                ELSE IF scenario = "supersede" /\ pc > 7 THEN 2 ELSE 1
  /\ Len(proc) = Len(dep) + 1
  /\ \A d \in 1..Len(dep) : dep[d].proc = d + 1
  /\ Len(dep) = 2 => dep[1].status \notin {"DEPLOYING", "CANCELING"}

\* The process of a deployment that moves or may move again is there, and so is the
\* original one until a deployment is through.
LiveInv ==
  /\ \A d \in 1..Len(dep) :
       dep[d].status = "DEPLOYING" \/ (dep[d].status = "PAUSED" /\ d = Len(dep))
         => proc[d + 1].live
  /\ (\A d \in 1..Len(dep) : dep[d].status # "DEPLOYED") => proc[1].live
  /\ \E p \in 1..Len(proc) : proc[p].live

\* What the spec knows to be paused is.
PausedInv ==
  verdict = "running" /\ PausedAt(scenario, pc) => Len(dep) = 1 /\ dep[1].status = "PAUSED"

\* What the spec has canceled, and nothing else, stops.
CancelInv ==
  /\ CanceledAt(scenario, pc) => Len(dep) = 1 /\ dep[1].status \in {"CANCELING", "CANCELED"}
  /\ \A d \in 1..Len(dep) :
       dep[d].status \in {"CANCELING", "CANCELED"} => d = 1 /\ CanceledAt(scenario, pc)

IInv == TypeOK /\ PlaceInv /\ DepInv /\ LiveInv /\ PausedInv /\ CancelInv

\* On a sound platform the newest process is there unless its deployment has been
\* canceled, and a deployment that is not the last one has ended.
NewestInv ==
  /\ Len(dep) = 0 \/ dep[Len(dep)].status # "CANCELED" => proc[Len(proc)].live
  /\ Len(dep) = 2 => dep[1].status \in Final

\* The spec has noted the newest process, and the original one if it cancels.
NotedInv ==
  verdict = "running" /\ NotedAt(scenario, pc) =>
    noted.canary = Len(proc) /\ (scenario = "cancel" => noted.original = 1)

CallInv == IInv /\ (fault = "none" => NewestInv /\ NotedInv)

-----------------------------------------------------------------------------
(* Sequences of processes and deployments. *)

LEMMA SeqOf ==
  ASSUME NEW S, NEW n \in Nat, NEW f, f = [q \in 1..n |-> f[q]], \A q \in 1..n : f[q] \in S
  PROVE  f \in Seq(S) /\ Len(f) = n
<1>1. f \in [1..n -> S] /\ DOMAIN f = 1..n
  OBVIOUS
<1>2. f \in Seq(S)
  BY <1>1
<1>3. QED  BY <1>1, <1>2, LenProperties

LEMMA EditSeq ==
  ASSUME NEW S, NEW f \in Seq(S), NEW p \in 1..Len(f), NEW v \in S, NEW g,
         g = [f EXCEPT ![p] = v]
  PROVE  /\ g \in Seq(S) /\ Len(g) = Len(f) /\ g[p] = v
         /\ \A q \in 1..Len(f) : q # p => g[q] = f[q]
<1>1. Len(f) \in Nat /\ f \in [1..Len(f) -> S]
  BY LenProperties
<1>2. g \in [1..Len(f) -> S] /\ DOMAIN g = 1..Len(f)
  BY <1>1
<1>3. g \in Seq(S) /\ Len(g) = Len(f)
  <2>1. g \in Seq(S)
    BY <1>1, <1>2
  <2>2. QED  BY <1>1, <1>2, <2>1, LenProperties
<1>4. g[p] = v /\ \A q \in 1..Len(f) : q # p => g[q] = f[q]
  BY <1>1
<1>5. QED  BY <1>3, <1>4

LEMMA Known ==
  ASSUME IInv
  PROVE  /\ scenario \in Specs /\ Order(scenario)
         /\ pc \in Nat \ {0} /\ pc <= Len(Script(scenario)) + 1
         /\ dep \in Seq(Deps) /\ proc \in Seq(Procs)
         /\ Len(dep) \in 0..2 /\ Len(proc) = Len(dep) + 1
         /\ \A d \in 1..Len(dep) : dep[d] \in Deps /\ dep[d].proc = d + 1
         /\ \A p \in 1..Len(proc) : proc[p] \in Procs
         /\ Instances \in Nat \ {0}
<1>1. scenario \in Specs /\ Instances \in Nat \ {0}
  BY DeploymentsAssumption DEF IInv, TypeOK
<1>2. Order(scenario)
  BY <1>1, EveryScriptInOrder
<1>3. /\ dep \in Seq(Deps) /\ proc \in Seq(Procs)
      /\ pc \in 1..(Len(Script(scenario)) + 1)
  BY DEF IInv, TypeOK, Deps, Procs
<1>4. pc \in Nat \ {0} /\ pc <= Len(Script(scenario)) + 1
  BY <1>2, <1>3 DEF Order
<1>5. Len(dep) \in 0..2
  <2>1. Len(dep) \in Nat
    BY <1>3, LenProperties
  <2> DEFINE n == Len(dep)
  <2>2. n \in Nat /\ n <= 2
    BY <2>1 DEF IInv, TypeOK
  <2> HIDE DEF n
  <2>3. n \in 0..2
    BY <2>2
  <2>4. QED  BY <2>3 DEF n
<1>6. /\ \A d \in 1..Len(dep) : dep[d] \in Deps
      /\ \A p \in 1..Len(proc) : proc[p] \in Procs
  BY <1>3, ElementOfSeq, Zenon
<1>7. Len(proc) = Len(dep) + 1 /\ \A d \in 1..Len(dep) : dep[d].proc = d + 1
  BY DEF IInv, DepInv
<1>8. QED  BY <1>1, <1>2, <1>3, <1>4, <1>5, <1>6, <1>7

\* Processes that have only been scaled.
Scaled(P) ==
  /\ P \in Seq(Procs) /\ Len(P) = Len(proc)
  /\ \A q \in 1..Len(proc) : P[q].live = proc[q].live

\* No more instances than the app has had.
LEMMA SizeFits == Size \in 1..Instances
BY DeploymentsAssumption DEF Size

LEMMA LeastFits == ASSUME NEW a \in Nat, NEW b \in Nat PROVE Least(a, b) \in 0..b
BY DEF Least

LEMMA RescaleScales ==
  ASSUME IInv, NEW p \in 1..Len(proc), NEW n \in 0..Instances, NEW m \in 0..Instances
  PROVE  Scaled(Rescale(p, n, m))
<1> DEFINE P == Rescale(p, n, m)
<1>1. Len(proc) \in Nat /\ \A q \in 1..Len(proc) : proc[q] \in Procs
  BY Known
<1>2. /\ P = [q \in 1..Len(proc) |-> P[q]]
      /\ \A q \in 1..Len(proc) :
           P[q] = IF q = p THEN [proc[q] EXCEPT !.want = n]
                  ELSE IF proc[q].live THEN [proc[q] EXCEPT !.want = m] ELSE proc[q]
  BY DEF Rescale
<1> HIDE DEF P
<1>3. ASSUME NEW q \in 1..Len(proc) PROVE P[q] \in Procs /\ P[q].live = proc[q].live
  <2>1. \/ P[q] = [proc[q] EXCEPT !.want = n]
        \/ P[q] = [proc[q] EXCEPT !.want = m]
        \/ P[q] = proc[q]
    BY <1>2, Zenon
  <2>2. proc[q] \in Procs
    BY <1>1
  <2>3. QED  BY <2>1, <2>2 DEF Procs
<1>4. P \in Seq(Procs) /\ Len(P) = Len(proc)
  BY <1>1, <1>2, <1>3, SeqOf, Zenon
<1>5. QED  BY <1>3, <1>4 DEF Scaled, P

LEMMA WantScales ==
  ASSUME IInv, NEW p \in 1..Len(proc), NEW n \in 0..Instances
  PROVE  Scaled([proc EXCEPT ![p].want = n])
<1>1. proc \in Seq(Procs) /\ proc[p] \in Procs /\ \A q \in 1..Len(proc) : proc[q] \in Procs
  BY Known
<1> DEFINE v == [proc[p] EXCEPT !.want = n]
<1>2. v \in Procs /\ v.live = proc[p].live
  BY <1>1 DEF Procs
<1> HIDE DEF v
<1> DEFINE P == [proc EXCEPT ![p].want = n]
<1>3. P = [proc EXCEPT ![p] = v]
  BY <1>1 DEF v
<1> HIDE DEF P
<1>4. /\ P \in Seq(Procs) /\ Len(P) = Len(proc)
      /\ P[p] = v /\ \A q \in 1..Len(proc) : q # p => P[q] = proc[q]
  BY <1>1, <1>2, <1>3, EditSeq
<1>5. Scaled(P)
  BY <1>2, <1>4 DEF Scaled
<1>6. QED  BY <1>5 DEF P

LEMMA RunningScales ==
  ASSUME IInv, NEW p \in 1..Len(proc), NEW n \in 0..Instances
  PROVE  Scaled([proc EXCEPT ![p].running = n])
<1>1. proc \in Seq(Procs) /\ proc[p] \in Procs /\ \A q \in 1..Len(proc) : proc[q] \in Procs
  BY Known
<1> DEFINE v == [proc[p] EXCEPT !.running = n]
<1>2. v \in Procs /\ v.live = proc[p].live
  BY <1>1 DEF Procs
<1> HIDE DEF v
<1> DEFINE P == [proc EXCEPT ![p].running = n]
<1>3. P = [proc EXCEPT ![p] = v]
  BY <1>1 DEF v
<1> HIDE DEF P
<1>4. /\ P \in Seq(Procs) /\ Len(P) = Len(proc)
      /\ P[p] = v /\ \A q \in 1..Len(proc) : q # p => P[q] = proc[q]
  BY <1>1, <1>2, <1>3, EditSeq
<1>5. Scaled(P)
  BY <1>2, <1>4 DEF Scaled
<1>6. QED  BY <1>5 DEF P

LEMMA GoneTyped ==
  ASSUME NEW r \in Procs
  PROVE  [r EXCEPT !.live = FALSE, !.want = 0, !.running = 0] \in Procs
<1>1. r.droplet \in Droplets /\ 0 \in 0..Instances /\ FALSE \in BOOLEAN
  BY DeploymentsAssumption DEF Procs
<1>2. [r EXCEPT !.want = 0, !.running = 0] \in Procs
  BY <1>1 DEF Procs
<1>3. QED  BY <1>1, <1>2 DEF Procs

LEMMA DownTyped ==
  ASSUME NEW r \in Procs
  PROVE  /\ [r EXCEPT !.want = 0, !.running = 0] \in Procs
         /\ [r EXCEPT !.want = 0, !.running = 0].live = r.live
<1>1. r.droplet \in Droplets /\ 0 \in 0..Instances /\ r.live \in BOOLEAN
  BY DeploymentsAssumption DEF Procs
<1>2. QED  BY <1>1 DEF Procs

LEMMA KeepKeeps ==
  ASSUME IInv, NEW S, NEW k \in 1..Len(proc), k \in S
  PROVE  Keep(S) \in Seq(Procs) /\ Len(Keep(S)) = Len(proc) /\ Keep(S)[k] = proc[k]
<1> DEFINE P == Keep(S)
<1>1. Len(proc) \in Nat /\ Instances \in Nat /\ \A q \in 1..Len(proc) : proc[q] \in Procs
  BY Known
<1>2. /\ P = [q \in 1..Len(proc) |-> P[q]]
      /\ \A q \in 1..Len(proc) :
           P[q] = IF q \in S THEN proc[q]
                  ELSE [proc[q] EXCEPT !.live = FALSE, !.want = 0, !.running = 0]
  BY DEF Keep
<1> HIDE DEF P
<1>3. ASSUME NEW q \in 1..Len(proc) PROVE P[q] \in Procs
  <2>1. proc[q] \in Procs
    BY <1>1
  <2>2. [proc[q] EXCEPT !.live = FALSE, !.want = 0, !.running = 0] \in Procs
    BY <2>1, GoneTyped
  <2>3. QED  BY <1>2, <2>1, <2>2, Zenon
<1>4. P \in Seq(Procs) /\ Len(P) = Len(proc)
  BY <1>1, <1>2, <1>3, SeqOf, Zenon
<1>5. QED  BY <1>2, <1>4, Zenon DEF P

\* Deployments of which one has changed its status.
Restated(D, d, x) ==
  /\ D \in Seq(Deps) /\ Len(D) = Len(dep) /\ D[d].status = x
  /\ \A e \in 1..Len(dep) : D[e].proc = dep[e].proc /\ (e # d => D[e].status = dep[e].status)

LEMMA StatusRestates ==
  ASSUME IInv, NEW d \in 1..Len(dep), NEW x \in Statuses
  PROVE  Restated([dep EXCEPT ![d].status = x], d, x)
<1>1. dep \in Seq(Deps) /\ dep[d] \in Deps
  BY Known
<1> DEFINE v == [dep[d] EXCEPT !.status = x]
<1>2. v \in Deps /\ v.proc = dep[d].proc /\ v.status = x
  BY <1>1 DEF Deps
<1> HIDE DEF v
<1> DEFINE D == [dep EXCEPT ![d].status = x]
<1>3. D = [dep EXCEPT ![d] = v]
  BY <1>1 DEF v
<1> HIDE DEF D
<1>4. /\ D \in Seq(Deps) /\ Len(D) = Len(dep)
      /\ D[d] = v /\ \A e \in 1..Len(dep) : e # d => D[e] = dep[e]
  BY <1>1, <1>2, <1>3, EditSeq
<1>5. Restated(D, d, x)
  BY <1>2, <1>4 DEF Restated
<1>6. QED  BY <1>5 DEF D

LEMMA StepRestates ==
  ASSUME IInv, NEW d \in 1..Len(dep), NEW x \in Statuses, NEW n \in Nat \ {0}
  PROVE  Restated([dep EXCEPT ![d].status = x, ![d].step = n], d, x)
<1>1. dep \in Seq(Deps) /\ dep[d] \in Deps
  BY Known
<1> DEFINE v == [dep[d] EXCEPT !.status = x, !.step = n]
<1>2. v \in Deps /\ v.proc = dep[d].proc /\ v.status = x
  BY <1>1 DEF Deps
<1> HIDE DEF v
<1> DEFINE D == [dep EXCEPT ![d].status = x, ![d].step = n]
<1>3. D = [dep EXCEPT ![d] = v]
  BY <1>1 DEF v
<1> HIDE DEF D
<1>4. /\ D \in Seq(Deps) /\ Len(D) = Len(dep)
      /\ D[d] = v /\ \A e \in 1..Len(dep) : e # d => D[e] = dep[e]
  BY <1>1, <1>2, <1>3, EditSeq
<1>5. Restated(D, d, x)
  BY <1>2, <1>4 DEF Restated
<1>6. QED  BY <1>5 DEF D

-----------------------------------------------------------------------------
(* The platform keeps the invariant. *)

LEMMA TypeKept ==
  ASSUME IInv, UNCHANGED <<chosen, driver>>,
         dep' \in Seq(Deps), Len(dep') = Len(dep), proc' \in Seq(Procs),
         fresh' \in BOOLEAN, started' \subseteq {"own", "other", "old"}
  PROVE  TypeOK' /\ PlaceInv'
<1>1. Len(dep') <= 2
  BY DEF IInv, TypeOK
<1>2. /\ scenario' = scenario /\ fault' = fault /\ pace' = pace
      /\ pc' = pc /\ verdict' = verdict /\ noted' = noted /\ lucky' = lucky
  BY DEF chosen, driver
<1>3. TypeOK'
  BY <1>1, <1>2, Zenon DEF IInv, TypeOK, Deps, Procs
<1>4. QED  BY <1>2, <1>3, Zenon DEF IInv, PlaceInv

LEMMA ScaledStep ==
  ASSUME IInv, UNCHANGED <<chosen, driver, dep>>, Scaled(proc'),
         fresh' \in BOOLEAN, started' \subseteq {"own", "other", "old"}
  PROVE  IInv'
<1>1. TypeOK' /\ PlaceInv'
  BY Known, TypeKept DEF Scaled
<1>2. scenario' = scenario /\ pc' = pc /\ verdict' = verdict /\ dep' = dep
  BY DEF chosen, driver
<1>3. Len(proc') = Len(proc) /\ \A q \in 1..Len(proc) : proc'[q].live = proc[q].live
  BY DEF Scaled
<1>4. DepInv'
  BY <1>2, <1>3, Zenon DEF IInv, DepInv
<1>5. PausedInv' /\ CancelInv'
  BY <1>2, Zenon DEF IInv, PausedInv, CancelInv
<1>6. LiveInv'
  <2>1. /\ \A d \in 1..Len(dep) : d + 1 \in 1..Len(proc)
        /\ 1 \in 1..Len(proc)
    BY Known
  <2>2. QED  BY <1>2, <1>3, <2>1, Zenon DEF IInv, LiveInv
<1>7. QED  BY <1>1, <1>4, <1>5, <1>6 DEF IInv

\* A deployment that moves is the last one.
LEMMA MoverIsLast ==
  ASSUME IInv, NEW d \in 1..Len(dep), dep[d].status \in {"DEPLOYING", "CANCELING"}
  PROVE  d = Len(dep) /\ (dep[d].status = "CANCELING" => d = 1)
<1>1. Len(dep) \in 0..2
  BY Known
<1>2. Len(dep) = 2 => dep[1].status \notin {"DEPLOYING", "CANCELING"}
  BY DEF IInv, DepInv
<1>3. dep[d].status = "CANCELING" => d = 1
  BY DEF IInv, CancelInv
<1>4. QED  BY <1>1, <1>2, <1>3

\* A deployment pauses, is through or has been canceled.
LEMMA MovedStep ==
  ASSUME IInv, UNCHANGED <<chosen, driver>>, NEW d \in 1..Len(dep),
         NEW x \in {"PAUSED", "DEPLOYED", "CANCELED"},
         dep[d].status = IF x = "CANCELED" THEN "CANCELING" ELSE "DEPLOYING",
         Restated(dep', d, x), proc' \in Seq(Procs), Len(proc') = Len(proc),
         fresh' \in BOOLEAN, started' \subseteq {"own", "other", "old"}
  PROVE  TypeOK' /\ PlaceInv' /\ DepInv' /\ PausedInv' /\ CancelInv'
<1>1. TypeOK' /\ PlaceInv'
  BY TypeKept DEF Restated
<1>2. scenario' = scenario /\ pc' = pc /\ verdict' = verdict
  BY DEF chosen, driver
<1>3. /\ Len(dep') = Len(dep) /\ dep'[d].status = x
      /\ \A e \in 1..Len(dep) : dep'[e].proc = dep[e].proc
      /\ \A e \in 1..Len(dep) : e # d => dep'[e].status = dep[e].status
  BY DEF Restated
<1>4. d = Len(dep) /\ (dep[d].status = "CANCELING" => d = 1)
  BY MoverIsLast
<1>5. DepInv'
  <2>1. Len(dep) = 2 => dep'[1].status = dep[1].status
    BY <1>3, <1>4, Known
  <2>2. QED  BY <1>2, <1>3, <2>1, Zenon DEF IInv, DepInv
<1>6. PausedInv'
  <2>1. ASSUME verdict = "running", PausedAt(scenario, pc) PROVE FALSE
    BY <1>4, <2>1 DEF IInv, PausedInv
  <2>2. QED  BY <1>2, <2>1, Zenon DEF PausedInv
<1>7. CancelInv'
  <2>1. ASSUME CanceledAt(scenario, pc)
        PROVE  Len(dep') = 1 /\ dep'[1].status \in {"CANCELING", "CANCELED"}
    BY <1>3, <1>4, <2>1 DEF IInv, CancelInv
  <2>2. ASSUME NEW e \in 1..Len(dep), dep'[e].status \in {"CANCELING", "CANCELED"}
        PROVE  e = 1 /\ CanceledAt(scenario, pc)
    <3>1. dep[e].status \in {"CANCELING", "CANCELED"}
      BY <1>3, <2>2
    <3>2. QED  BY <3>1 DEF IInv, CancelInv
  <2>3. QED  BY <1>2, <1>3, <2>1, <2>2, Zenon DEF CancelInv
<1>8. QED  BY <1>1, <1>5, <1>6, <1>7

LEMMA DiegoKeeps ==
  ASSUME IInv, NEW p \in 1..Len(proc), Diego(p)
  PROVE  IInv' /\ Scaled(proc') /\ UNCHANGED <<chosen, driver, dep>>
<1>1. proc[p] \in Procs /\ proc[p].running # proc[p].want /\ Instances \in Nat
  BY Known DEF Diego, Due
<1> DEFINE n == IF proc[p].running < proc[p].want THEN proc[p].running + 1
                ELSE proc[p].running - 1
<1>2. n \in 0..Instances
  <2>1. proc[p].running \in 0..Instances /\ proc[p].want \in 0..Instances
    BY <1>1 DEF Procs
  <2>2. QED  BY <1>1, <2>1
<1>3. proc' = [proc EXCEPT ![p].running = n]
  BY DEF Diego
<1> HIDE DEF n
<1>4. Scaled(proc')
  BY <1>2, <1>3, RunningScales
<1>5. UNCHANGED <<chosen, driver, dep>> /\ fresh' = fresh /\ started' = started
  BY DEF Diego
<1>6. fresh' \in BOOLEAN /\ started' \subseteq {"own", "other", "old"}
  BY <1>5 DEF IInv, TypeOK
<1>7. QED  BY <1>4, <1>5, <1>6, ScaledStep

LEMMA PauseKeeps ==
  ASSUME IInv, NEW d \in 1..Len(dep), Pause(d), UNCHANGED <<chosen, driver>>,
         fresh' \in BOOLEAN
  PROVE  IInv' /\ Restated(dep', d, "PAUSED") /\ Scaled(proc')
<1>1. /\ dep[d].status = "DEPLOYING" /\ dep' = [dep EXCEPT ![d].status = "PAUSED"]
      /\ started' = started
  BY DEF Pause, CanPause
<1>2. Restated(dep', d, "PAUSED")
  BY <1>1, StatusRestates DEF Statuses
<1>3. Scaled(proc')
  <2>1. Len(proc) \in Nat /\ proc \in Seq(Procs) /\ \A q \in 1..Len(proc) : proc[q] \in Procs
    BY Known
  <2>2. CASE proc' = proc
    BY <2>1, <2>2 DEF Scaled
  <2>3. CASE proc' = [q \in 1..Len(proc) |->
                        IF q = dep[d].proc THEN proc[q]
                        ELSE [proc[q] EXCEPT !.want = 0, !.running = 0]]
    <3>1. /\ proc' = [q \in 1..Len(proc) |-> proc'[q]]
          /\ \A q \in 1..Len(proc) :
               \/ proc'[q] = proc[q]
               \/ proc'[q] = [proc[q] EXCEPT !.want = 0, !.running = 0]
      BY <2>3
    <3>2. ASSUME NEW q \in 1..Len(proc)
          PROVE  proc'[q] \in Procs /\ proc'[q].live = proc[q].live
      BY <2>1, <3>1, DownTyped, ZenonT(40)
    <3>3. proc' \in Seq(Procs) /\ Len(proc') = Len(proc)
      BY <2>1, <3>1, <3>2, SeqOf, Zenon
    <3>4. QED  BY <3>2, <3>3 DEF Scaled
  <2>4. QED  BY <2>2, <2>3 DEF Pause
<1>4. TypeOK' /\ PlaceInv' /\ DepInv' /\ PausedInv' /\ CancelInv'
  <2>1. started' \subseteq {"own", "other", "old"}
    BY <1>1 DEF IInv, TypeOK
  <2>2. QED  BY <1>1, <1>2, <1>3, <2>1, MovedStep DEF Scaled
<1>5. LiveInv'
  <2>1. d = Len(dep) /\ Len(dep) \in 0..2 /\ Len(proc) = Len(dep) + 1
    BY <1>1, MoverIsLast, Known
  <2>2. /\ Len(dep') = Len(dep) /\ Len(proc') = Len(proc)
        /\ \A q \in 1..Len(proc) : proc'[q].live = proc[q].live
        /\ dep'[d].status = "PAUSED"
        /\ \A e \in 1..Len(dep) : e # d => dep'[e].status = dep[e].status
    BY <1>2, <1>3 DEF Restated, Scaled
  <2>3. \A e \in 1..Len(dep) : e + 1 \in 1..Len(proc)
    BY <2>1
  <2>4. proc[d + 1].live
    BY <1>1 DEF IInv, LiveInv
  <2>5. ASSUME NEW e \in 1..Len(dep), dep'[e].status = "DEPLOYING" \/ e = Len(dep)
        PROVE  proc'[e + 1].live
    <3>1. CASE e = d
      BY <2>2, <2>3, <2>4, <3>1
    <3>2. CASE e # d
      <4>1. dep[e].status = "DEPLOYING"
        BY <2>1, <2>2, <2>5, <3>2
      <4>2. proc[e + 1].live
        BY <4>1 DEF IInv, LiveInv
      <4>3. QED  BY <2>2, <2>3, <4>2
    <3>3. QED  BY <3>1, <3>2
  <2>6. (\A e \in 1..Len(dep) : dep'[e].status # "DEPLOYED") => proc'[1].live
    <3>1. (\A e \in 1..Len(dep) : dep'[e].status # "DEPLOYED")
            => \A e \in 1..Len(dep) : dep[e].status # "DEPLOYED"
      BY <1>1, <2>2
    <3>2. 1 \in 1..Len(proc)
      BY <2>1
    <3>3. QED  BY <2>2, <3>1, <3>2 DEF IInv, LiveInv
  <2>7. d + 1 \in 1..Len(proc) /\ proc'[d + 1].live
    BY <2>2, <2>3, <2>4
  <2>8. QED  BY <2>2, <2>5, <2>6, <2>7, Zenon DEF LiveInv
<1>6. QED  BY <1>2, <1>3, <1>4, <1>5 DEF IInv

LEMMA RollOnKeeps ==
  ASSUME IInv, NEW d \in 1..Len(dep), RollOn(d), UNCHANGED <<chosen, driver>>,
         fresh' \in BOOLEAN
  PROVE  IInv' /\ dep' = dep /\ Scaled(proc')
<1>0. Size \in 1..Instances
  BY SizeFits
<1> DEFINE p == dep[d].proc
           inc == IF fault = "oneInFlight" THEN 1 ELSE dep[d].mif
           n == Least(proc[p].want + inc, Size)
<1>1. p \in 1..Len(proc) /\ proc[p] \in Procs /\ dep[d] \in Deps /\ Instances \in Nat \ {0}
  <2>1. d + 1 \in 1..Len(proc)
    BY Known
  <2>2. QED  BY <2>1, Known
<1>2. n \in 0..Instances /\ Size - n \in 0..Instances
  <2>1. inc \in 1..Instances /\ proc[p].want \in 0..Instances
    BY <1>1 DEF Deps, Procs
  <2> HIDE DEF inc, p
  <2>2. proc[p].want + inc \in Nat /\ Size \in Nat
    BY <1>0, <1>1, <2>1
  <2>3. n \in 0..Size
    BY <2>2, LeastFits
  <2> HIDE DEF n
  <2>4. QED  BY <1>0, <1>1, <2>3
<1>3. /\ proc' = [proc EXCEPT ![p].want = n] \/ proc' = Rescale(p, n, Size - n)
      /\ dep' = dep /\ started' = started
  BY DEF RollOn
<1> HIDE DEF p, n
<1>4. Scaled(proc')
  BY <1>1, <1>2, <1>3, WantScales, RescaleScales, Zenon
<1>5. started' \subseteq {"own", "other", "old"}
  BY <1>3 DEF IInv, TypeOK
<1>6. QED  BY <1>3, <1>4, <1>5, ScaledStep

LEMMA FinishKeeps ==
  ASSUME IInv, NEW d \in 1..Len(dep), Finish(d), UNCHANGED <<chosen, driver>>,
         fresh' \in BOOLEAN
  PROVE  /\ IInv' /\ Restated(dep', d, "DEPLOYED") /\ dep[d].status = "DEPLOYING"
         /\ Len(proc') = Len(proc) /\ d = Len(dep) /\ proc'[d + 1].live
<1>1. /\ dep[d].status = "DEPLOYING" /\ dep' = [dep EXCEPT ![d].status = "DEPLOYED"]
      /\ started' = started \/ started' = started \cup {"own"}
  BY DEF Finish, CanFinish
<1>2. Restated(dep', d, "DEPLOYED")
  BY <1>1, StatusRestates DEF Statuses
<1>3. /\ d = Len(dep) /\ d + 1 \in 1..Len(proc) /\ dep[d].proc = d + 1
      /\ Len(dep) \in 0..2 /\ proc \in Seq(Procs)
  <2>1. d + 1 \in 1..Len(proc)
    BY Known
  <2>2. QED  BY <1>1, <2>1, MoverIsLast, Known
<1>4. /\ proc' \in Seq(Procs) /\ Len(proc') = Len(proc)
      /\ proc'[d + 1] = proc[d + 1]
  <2>1. proc' = proc \/ proc' = Keep({d + 1, 2}) \/ proc' = Keep({d + 1})
    <3>1. CASE fault = "keepsOriginal"
      BY <1>3, <3>1 DEF Finish
    <3>2. CASE fault = "keepsCanary"
      BY <1>3, <3>2 DEF Finish
    <3>3. CASE fault \notin {"keepsOriginal", "keepsCanary"}
      BY <1>3, <3>3 DEF Finish
    <3>4. QED  BY <3>1, <3>2, <3>3
  <2>2. CASE proc' = Keep({d + 1, 2})
    BY <1>3, <2>2, KeepKeeps
  <2>3. CASE proc' = Keep({d + 1})
    BY <1>3, <2>3, KeepKeeps
  <2>4. QED  BY <1>3, <2>1, <2>2, <2>3
<1>5. TypeOK' /\ PlaceInv' /\ DepInv' /\ PausedInv' /\ CancelInv'
  <2>1. started' \subseteq {"own", "other", "old"}
    BY <1>1 DEF IInv, TypeOK
  <2>2. QED  BY <1>1, <1>2, <1>4, <2>1, MovedStep
<1>6. proc'[d + 1].live
  BY <1>1, <1>4 DEF IInv, LiveInv
<1>7. LiveInv'
  <2>1. /\ Len(dep') = Len(dep) /\ dep'[d].status = "DEPLOYED"
        /\ \A e \in 1..Len(dep) : e # d => dep'[e].status = dep[e].status
    BY <1>2 DEF Restated
  <2>2. ASSUME NEW e \in 1..Len(dep),
               dep'[e].status = "DEPLOYING" \/ (dep'[e].status = "PAUSED" /\ e = Len(dep))
        PROVE  FALSE
    <3>1. e # d
      BY <2>1, <2>2
    <3>2. dep[e].status = "DEPLOYING"
      BY <1>3, <2>1, <2>2, <3>1
    <3>3. e = Len(dep)
      BY <3>2, MoverIsLast
    <3>4. QED  BY <1>3, <3>1, <3>3
  <2>3. QED  BY <1>3, <1>4, <1>6, <2>1, <2>2, Zenon DEF LiveInv
<1>8. QED  BY <1>1, <1>2, <1>3, <1>4, <1>5, <1>6, <1>7 DEF IInv

LEMMA FinishCancelKeeps ==
  ASSUME IInv, NEW d \in 1..Len(dep), FinishCancel(d), UNCHANGED <<chosen, driver>>,
         fresh' \in BOOLEAN
  PROVE  /\ IInv' /\ Restated(dep', d, "CANCELED") /\ dep[d].status = "CANCELING"
         /\ Len(proc') = Len(proc) /\ d = Len(dep)
<1>1. /\ dep[d].status = "CANCELING" /\ dep' = [dep EXCEPT ![d].status = "CANCELED"]
      /\ started' = started /\ (proc' = proc \/ proc' = Keep({1}))
  BY DEF FinishCancel, CanFinishCancel
<1>2. Restated(dep', d, "CANCELED")
  BY <1>1, StatusRestates DEF Statuses
<1>3. d = 1 /\ Len(dep) = 1 /\ 1 \in 1..Len(proc) /\ proc \in Seq(Procs)
  BY <1>1, MoverIsLast, Known
<1>4. /\ proc' \in Seq(Procs) /\ Len(proc') = Len(proc)
      /\ proc'[1] = proc[1]
  <2>1. CASE proc' = Keep({1})
    BY <1>3, <2>1, KeepKeeps
  <2>2. QED  BY <1>1, <1>3, <2>1
<1>5. TypeOK' /\ PlaceInv' /\ DepInv' /\ PausedInv' /\ CancelInv'
  <2>1. started' \subseteq {"own", "other", "old"}
    BY <1>1 DEF IInv, TypeOK
  <2>2. QED  BY <1>1, <1>2, <1>4, <2>1, MovedStep
<1>6. proc'[1].live
  <2>1. \A e \in 1..Len(dep) : dep[e].status # "DEPLOYED"
    BY <1>1, <1>3
  <2>2. QED  BY <1>4, <2>1 DEF IInv, LiveInv
<1>7. LiveInv'
  <2>1. Len(dep') = Len(dep) /\ dep'[1].status = "CANCELED"
    BY <1>2, <1>3 DEF Restated
  <2>2. \A e \in 1..Len(dep) : e = 1
    BY <1>3
  <2>3. QED  BY <1>3, <1>4, <1>6, <2>1, <2>2 DEF LiveInv
<1>8. QED  BY <1>1, <1>2, <1>3, <1>4, <1>5, <1>7 DEF IInv

LEMMA UpdateKeeps == ASSUME IInv, NEW d \in 1..Len(dep), Update(d) PROVE IInv'
<1>1. UNCHANGED <<chosen, driver>> /\ fresh' \in BOOLEAN
  BY DEF Update
<1>2. Pause(d) \/ RollOn(d) \/ Finish(d) \/ FinishCancel(d)
  BY DEF Update
<1>3. QED
  BY <1>1, <1>2, PauseKeeps, RollOnKeeps, FinishKeeps, FinishCancelKeeps

LEMMA PlatformKeeps == ASSUME IInv, Platform PROVE IInv'
BY DiegoKeeps, UpdateKeeps DEF Platform

LEMMA NeighbourKeeps == ASSUME IInv, Neighbour PROVE IInv'
<1>1. UNCHANGED <<chosen, driver, dep>> /\ proc' = proc /\ fresh' = fresh
  BY DEF Neighbour
<1>2. fresh' \in BOOLEAN /\ started' \subseteq {"own", "other", "old"}
  BY <1>1 DEF IInv, TypeOK, Neighbour
<1>3. Scaled(proc')
  BY <1>1, Known DEF Scaled
<1>4. QED  BY <1>1, <1>2, <1>3, ScaledStep

-----------------------------------------------------------------------------
(* The driver keeps the invariant. *)

\* Where the driver goes.
LEMMA Advances ==
  ASSUME IInv, verdict = "running", Advance
  PROVE  /\ pc \in 1..Len(Script(scenario)) /\ pc' = pc + 1
         /\ pc' \in 1..(Len(Script(scenario)) + 1)
         /\ verdict' \in {"running", "passed"}
         /\ verdict' = "running" => pc' \in 1..Len(Script(scenario))
<1>1. pc \in 1..Len(Script(scenario)) /\ Len(Script(scenario)) \in Nat \ {0}
  BY Known DEF IInv, PlaceInv, Order
<1>2. pc' = pc + 1 /\ verdict' = IF pc = Len(Script(scenario)) THEN "passed" ELSE "running"
  BY DEF Advance
<1> DEFINE n == Len(Script(scenario))
<1> HIDE DEF n
<1>3. pc \in 1..n /\ n \in Nat /\ verdict' = IF pc = n THEN "passed" ELSE "running"
  BY <1>1, <1>2 DEF n
<1>4. /\ pc' \in 1..(n + 1) /\ verdict' \in {"running", "passed"}
      /\ verdict' = "running" => pc' \in 1..n
  BY <1>2, <1>3
<1>5. QED  BY <1>1, <1>2, <1>4 DEF n

\* A step that creates no deployment leaves as many as there were.
Count(s, i) == IF i <= First(s) THEN 0 ELSE IF s = "supersede" /\ i > 7 THEN 2 ELSE 1

LEMMA CountKept ==
  ASSUME IInv, pc \in 1..Len(Script(scenario)), Spot.op # "create"
  PROVE  Len(dep) = Count(scenario, pc + 1)
<1>1. scenario \in Specs /\ CreatesInOrder(scenario) /\ pc \in Nat \ {0}
  BY Known DEF Order
<1>2. pc # First(scenario) /\ ~(scenario = "supersede" /\ pc = 7)
  BY <1>1 DEF CreatesInOrder, Spot
<1>3. First(scenario) \in Nat
  BY DEF First
<1>4. /\ pc + 1 <= First(scenario) <=> pc <= First(scenario)
      /\ scenario = "supersede" => (pc + 1 > 7 <=> pc > 7)
  BY <1>1, <1>2, <1>3
<1>5. QED  BY <1>4 DEF IInv, DepInv, Count

\* A step that neither creates a deployment nor asks anything of one: a look at the
\* platform, a note of what it shows, a wait, or a scaling of the app.
Looks ==
  /\ verdict = "running" /\ UNCHANGED <<chosen, dep>> /\ Scaled(proc')
  /\ fresh' \in BOOLEAN /\ lucky' \in BOOLEAN /\ started' \subseteq {"own", "other", "old"}
  /\ noted' \in [canary : 0..3, original : 0..3]
  /\ \/ UNCHANGED <<pc, verdict>>
     \/ UNCHANGED pc /\ verdict' = "failed"
     \/ /\ Advance /\ Spot.op \notin {"create", "continue", "cancel"}
        /\ Spot = Status(1, "PAUSED") => dep[1].status = "PAUSED"

LEMMA LooksKeeps == ASSUME IInv, Looks PROVE IInv'
<1>1. /\ scenario' = scenario /\ fault' = fault /\ pace' = pace
      /\ dep' = dep /\ started' \subseteq {"own", "other", "old"}
      /\ verdict = "running" /\ fresh' \in BOOLEAN /\ lucky' \in BOOLEAN
      /\ noted' \in [canary : 0..3, original : 0..3]
      /\ proc' \in Seq(Procs) /\ Len(proc') = Len(proc)
      /\ \A q \in 1..Len(proc) : proc'[q].live = proc[q].live
  BY DEF Looks, Scaled, chosen
<1>2. LiveInv'
  <2>1. /\ \A d \in 1..Len(dep) : d + 1 \in 1..Len(proc)
        /\ 1 \in 1..Len(proc)
    BY Known
  <2>2. QED  BY <1>1, <2>1, Zenon DEF IInv, LiveInv
<1>3. CASE UNCHANGED pc /\ verdict' \in {verdict, "failed"}
  <2>1. TypeOK'
    BY <1>1, <1>3, Zenon DEF IInv, TypeOK, Procs
  <2>2. PlaceInv' /\ DepInv' /\ PausedInv' /\ CancelInv'
    BY <1>1, <1>3 DEF IInv, PlaceInv, DepInv, PausedInv, CancelInv
  <2>3. QED  BY <1>2, <2>1, <2>2 DEF IInv
<1>4. CASE /\ Advance /\ Spot.op \notin {"create", "continue", "cancel"}
           /\ Spot = Status(1, "PAUSED") => dep[1].status = "PAUSED"
  <2>1. /\ pc \in 1..Len(Script(scenario)) /\ pc' = pc + 1
        /\ pc' \in 1..(Len(Script(scenario)) + 1)
        /\ verdict' \in {"running", "passed"}
        /\ verdict' = "running" => pc' \in 1..Len(Script(scenario))
    BY <1>1, <1>4, Advances
  <2>2. scenario \in Specs /\ CreatesInOrder(scenario) /\ pc \in Nat \ {0}
    BY Known DEF Order
  <2>3. Spot = Script(scenario)[pc]
    BY DEF Spot
  <2>4. TypeOK'
    <3>1. verdict' \in {"running", "passed", "failed"}
      BY <2>1
    <3>2. QED  BY <1>1, <2>1, <3>1, Zenon DEF IInv, TypeOK, Procs
  <2>5. PlaceInv'
    BY <1>1, <2>1 DEF PlaceInv
  <2>6. DepInv'
    <3>1. Len(dep) = Count(scenario, pc + 1)
      BY <1>4, <2>1, CountKept
    <3>2. QED  BY <1>1, <2>1, <3>1, Zenon DEF IInv, DepInv, Count
  <2>7. PausedInv'
    <3>1. ASSUME PausedAt(scenario, pc + 1) PROVE Len(dep) = 1 /\ dep[1].status = "PAUSED"
      <4>1. \/ Spot = Status(1, "PAUSED")
            \/ PausedAt(scenario, pc) /\ Spot.op \in Quiet
        BY <2>2, <2>3, <3>1, PausedNext
      <4>2. CASE Spot = Status(1, "PAUSED")
        <5>1. pc > First(scenario) /\ (scenario = "supersede" => pc < 7)
          BY <2>1, <2>2, <2>3, <4>2 DEF CreatesInOrder
        <5>2. First(scenario) \in Nat
          BY DEF First
        <5>3. ~(pc <= First(scenario)) /\ ~(scenario = "supersede" /\ pc > 7)
          BY <2>2, <5>1, <5>2
        <5>4. Len(dep) = 1
          BY <5>3 DEF IInv, DepInv
        <5>5. QED  BY <1>4, <4>2, <5>4
      <4>3. CASE PausedAt(scenario, pc)
        BY <1>1, <4>3 DEF IInv, PausedInv
      <4>4. QED  BY <4>1, <4>2, <4>3
    <3>2. QED  BY <1>1, <2>1, <3>1, Zenon DEF PausedInv
  <2>8. CancelInv'
    <3>1. CanceledAt(scenario, pc + 1) <=> CanceledAt(scenario, pc)
      BY <1>4, <2>2, <2>3, CanceledNext
    <3>2. QED  BY <1>1, <2>1, <3>1, Zenon DEF IInv, CancelInv
  <2>9. QED  BY <1>2, <2>4, <2>5, <2>6, <2>7, <2>8 DEF IInv
<1>5. QED  BY <1>3, <1>4 DEF Looks

LEMMA LargestExists ==
  ASSUME NEW S, S \subseteq 1..3, S # {}
  PROVE  \E p \in S : \A q \in S : q <= p
<1>1. \A q \in S : q = 1 \/ q = 2 \/ q = 3
  OBVIOUS
<1>2. CASE 3 \in S
  BY <1>1, <1>2
<1>3. CASE 3 \notin S /\ 2 \in S
  BY <1>1, <1>3
<1>4. CASE 3 \notin S /\ 2 \notin S
  <2>1. PICK p \in S : TRUE
    OBVIOUS
  <2>2. p = 1 /\ \A q \in S : q = 1
    BY <1>1, <1>4
  <2>3. QED  BY <2>2
<1>5. QED  BY <1>2, <1>3, <1>4

LEMMA NewestIsLive ==
  ASSUME IInv
  PROVE  /\ Live \subseteq 1..3 /\ Newest \in Live /\ \A q \in Live : q <= Newest
<1>1. Len(proc) \in 1..3
  <2>1. Len(dep) \in 0..2 /\ Len(proc) = Len(dep) + 1
    BY Known, Zenon
  <2>2. \A n \in 0..2 : n + 1 \in 1..3
    OBVIOUS
  <2>3. QED  BY <2>1, <2>2, Zenon
<1>2. Live \subseteq 1..3 /\ Live # {}
  BY <1>1 DEF IInv, LiveInv, Live
<1> HIDE DEF Live
<1>3. \E p \in Live : \A q \in Live : q <= p
  BY <1>2, LargestExists
<1>4. QED  BY <1>2, <1>3 DEF Newest

LEMMA ScaleLooks == ASSUME IInv, ScaleApp PROVE Looks
<1>1. /\ verdict = "running" /\ Spot.op = "scale" /\ Advance
      /\ proc' = [proc EXCEPT ![1].want = Size]
      /\ UNCHANGED <<chosen, noted, lucky, fresh, dep, started>>
  BY DEF ScaleApp, AtStep, GoOn
<1>2. 1 \in 1..Len(proc) /\ Size \in 0..Instances
  BY SizeFits, Known
<1>3. Scaled(proc')
  BY <1>1, <1>2, WantScales
<1>4. /\ noted' \in [canary : 0..3, original : 0..3] /\ fresh' \in BOOLEAN
      /\ lucky' \in BOOLEAN /\ started' \subseteq {"own", "other", "old"}
  BY <1>1 DEF IInv, TypeOK
<1>5. Spot # Status(1, "PAUSED")
  BY <1>1 DEF Status
<1>6. QED  BY <1>1, <1>3, <1>4, <1>5 DEF Looks

\* A step that changes no process.
LEMMA SameScales == ASSUME IInv, proc' = proc PROVE Scaled(proc')
BY Known DEF Scaled

LEMMA PrepareLooks ==
  ASSUME IInv, SetHealthCheckTimeoutOnProcess \/ NoteWorkerStart \/ Misread PROVE Looks
<1>1. /\ verdict = "running" /\ Spot.op \in {"healthTimeout", "noteWorker", "wantsNot"}
      /\ Advance /\ UNCHANGED <<chosen, noted, lucky, fresh, dep, proc>>
      /\ started' = started \/ started' = {} \/ started' = {"old"}
  BY DEF SetHealthCheckTimeoutOnProcess, NoteWorkerStart, Misread, AtStep, GoOn
<1>2. /\ noted' \in [canary : 0..3, original : 0..3] /\ fresh' \in BOOLEAN
      /\ lucky' \in BOOLEAN /\ started' \subseteq {"own", "other", "old"}
  BY <1>1 DEF IInv, TypeOK
<1>3. Spot # Status(1, "PAUSED")
  BY <1>1 DEF Status
<1>4. QED  BY <1>1, <1>2, <1>3, SameScales DEF Looks

LEMMA NoteLooks == ASSUME IInv, NoteProcesses PROVE Looks
<1>1. /\ verdict = "running" /\ Spot.op = "note"
      /\ UNCHANGED <<chosen, dep, proc, started, lucky>> /\ fresh' \in {FALSE, fresh}
  BY DEF NoteProcesses, AtStep, Fail
<1>2. Live \subseteq 1..3 /\ Newest \in Live /\ \A q \in Live : q <= Newest
  BY NewestIsLive
<1> DEFINE before == CHOOSE p \in Live \ {Newest} : \A q \in Live \ {Newest} : q <= p
<1>3. Live # {Newest} => before \in Live
  <2>1. CASE Live # {Newest}
    <3> DEFINE S == Live \ {Newest}
    <3>1. S \subseteq 1..3 /\ S # {}
      BY <1>2, <2>1
    <3> HIDE DEF S
    <3>2. \E p \in S : \A q \in S : q <= p
      BY <3>1, LargestExists
    <3>3. before \in S
      BY <3>2 DEF S
    <3>4. QED  BY <3>3 DEF S
  <2>2. QED  BY <2>1
<1>4. \/ Advance /\ noted' = [canary |-> Newest,
                              original |-> IF Live = {Newest} THEN 0 ELSE before]
      \/ UNCHANGED pc /\ verdict' = "failed" /\ noted' = noted
  BY DEF NoteProcesses, Fail
<1> HIDE DEF before
<1>5. noted' \in [canary : 0..3, original : 0..3]
  <2>1. \A p \in Live : p \in 0..3
    BY <1>2
  <2>2. Newest \in 0..3 /\ (Live # {Newest} => before \in 0..3)
    BY <1>2, <1>3, <2>1, Zenon
  <2>3. noted \in [canary : 0..3, original : 0..3]
    BY DEF IInv, TypeOK
  <2>4. QED  BY <1>4, <2>2, <2>3
<1>6. Spot # Status(1, "PAUSED")
  BY <1>1 DEF Status
<1>7. /\ fresh' \in BOOLEAN /\ lucky' \in BOOLEAN /\ Scaled(proc')
      /\ started' \subseteq {"own", "other", "old"}
  BY <1>1, SameScales DEF IInv, TypeOK
<1>8. QED  BY <1>1, <1>4, <1>5, <1>6, <1>7 DEF Looks

\* A poll or a check that goes on has seen what it looked for.
LEMMA PollLooks == ASSUME IInv, Poll \/ Check PROVE Looks
<1>1. /\ verdict = "running" /\ Spot.op \in Awaited \cup Asserted
      /\ UNCHANGED <<chosen, dep, proc, started>> /\ fresh' = FALSE
  BY DEF Poll, Check, AtStep
<1>2. Fail \/ Show \/ UNCHANGED driver
  BY DEF Poll, Check
<1>3. Spot = Status(1, "PAUSED") /\ Seen => dep[1].status = "PAUSED"
  BY DEF Seen, Status
<1>4. Spot.op \notin {"create", "continue", "cancel"}
  BY <1>1 DEF Awaited, Asserted
<1>5. noted' = noted /\ lucky' \in {lucky, TRUE, FALSE}
  BY <1>2 DEF Fail, Show, driver
<1>6. /\ noted' \in [canary : 0..3, original : 0..3] /\ lucky' \in BOOLEAN
      /\ started' \subseteq {"own", "other", "old"} /\ fresh' \in BOOLEAN
  BY <1>1, <1>5 DEF IInv, TypeOK
<1>7. Scaled(proc')
  BY <1>1, SameScales
<1>8. QED  BY <1>1, <1>2, <1>3, <1>4, <1>6, <1>7 DEF Looks, Fail, Show, driver

LEMMA SleepLooks == ASSUME IInv, SleepOver PROVE Looks
<1>1. /\ verdict = "running" /\ Spot.op = "sleep" /\ Advance
      /\ UNCHANGED <<chosen, noted, lucky, fresh, dep, proc, started>>
  BY DEF SleepOver, AtStep, GoOn
<1>2. /\ noted' \in [canary : 0..3, original : 0..3] /\ fresh' \in BOOLEAN
      /\ lucky' \in BOOLEAN /\ started' \subseteq {"own", "other", "old"}
  BY <1>1 DEF IInv, TypeOK
<1>3. Spot # Status(1, "PAUSED")
  BY <1>1 DEF Status
<1>4. QED  BY <1>1, <1>2, <1>3, SameScales DEF Looks

LEMMA GivingUpLooks == ASSUME IInv, Timeout \/ Hiccup PROVE Looks
<1>1. verdict = "running" /\ Fail /\ UNCHANGED <<chosen, fresh, dep, proc, started>>
  BY DEF Timeout, Hiccup, AtStep
<1>2. /\ noted' \in [canary : 0..3, original : 0..3] /\ fresh' \in BOOLEAN
      /\ lucky' \in BOOLEAN /\ started' \subseteq {"own", "other", "old"}
  BY <1>1 DEF IInv, TypeOK, Fail
<1>3. QED  BY <1>1, <1>2, SameScales DEF Looks, Fail

\* The spec asks to continue or to cancel its deployment, which is paused.
Asks(x) ==
  /\ verdict = "running" /\ Spot.op \in {"continue", "cancel"}
  /\ x = IF Spot.op = "cancel" THEN "CANCELING" ELSE "DEPLOYING"
  /\ Len(dep) = 1 /\ dep[1].status = "PAUSED"
  /\ Restated(dep', 1, x) /\ Scaled(proc') /\ Advance
  /\ UNCHANGED <<chosen, noted, lucky, started>> /\ fresh' = TRUE

LEMMA AsksKeeps == ASSUME IInv, NEW x, Asks(x) PROVE IInv'
<1>1. /\ scenario' = scenario /\ fault' = fault /\ pace' = pace /\ noted' = noted
      /\ lucky' = lucky /\ started' = started /\ fresh' = TRUE /\ verdict = "running"
      /\ Len(dep) = 1 /\ dep[1].status = "PAUSED"
  BY DEF Asks, chosen
<1>2. /\ dep' \in Seq(Deps) /\ Len(dep') = 1 /\ dep'[1].status = x
      /\ dep'[1].proc = dep[1].proc
      /\ proc' \in Seq(Procs) /\ Len(proc') = Len(proc)
      /\ \A q \in 1..Len(proc) : proc'[q].live = proc[q].live
  <2>1. 1 \in 1..Len(dep)
    BY <1>1
  <2>2. QED  BY <1>1, <2>1, Zenon DEF Asks, Restated, Scaled
<1>3. /\ pc \in 1..Len(Script(scenario)) /\ pc' = pc + 1
      /\ pc' \in 1..(Len(Script(scenario)) + 1)
      /\ verdict' \in {"running", "passed"}
      /\ verdict' = "running" => pc' \in 1..Len(Script(scenario))
  BY Advances DEF Asks
<1>4. scenario \in Specs /\ pc \in Nat \ {0} /\ Spot = Script(scenario)[pc]
  BY Known DEF Spot
<1>5. TypeOK'
  <2>1. verdict' \in {"running", "passed", "failed"} /\ Len(dep') <= 2
    BY <1>2, <1>3
  <2>2. fresh' \in BOOLEAN
    BY <1>1
  <2>3. QED  BY <1>1, <1>2, <1>3, <2>1, <2>2, Zenon DEF IInv, TypeOK, Deps, Procs
<1>6. PlaceInv'
  BY <1>1, <1>3 DEF PlaceInv
<1>7. DepInv'
  <2>1. Len(dep) = Count(scenario, pc + 1)
    BY <1>3, CountKept DEF Asks
  <2>2. /\ Len(proc') = Len(dep') + 1 /\ Len(dep') # 2
        /\ \A d \in 1..Len(dep') : dep'[d].proc = d + 1
    <3>1. Len(proc) = 2 /\ dep[1].proc = 2
      BY <1>1, Known
    <3>2. \A d \in 1..Len(dep') : d = 1
      BY <1>2
    <3>3. QED  BY <1>2, <3>1, <3>2
  <2>3. QED  BY <1>1, <1>2, <1>3, <2>1, <2>2, Zenon DEF DepInv, Count
<1>8. LiveInv'
  <2>1. proc[1].live /\ proc[2].live /\ Len(proc) = 2
    BY <1>1, Known DEF IInv, LiveInv
  <2>2. proc'[1].live /\ proc'[2].live
    BY <1>2, <2>1
  <2>3. QED  BY <1>2, <2>1, <2>2 DEF LiveInv
<1>9. PausedInv'
  <2>1. ~PausedAt(scenario, pc + 1)
    <3>1. Spot # Status(1, "PAUSED") /\ Spot.op \notin Quiet
      BY DEF Asks, Status, Quiet
    <3>2. QED  BY <1>4, <3>1, PausedNext
  <2>2. QED  BY <1>1, <1>3, <2>1, Zenon DEF PausedInv
<1>10. CancelInv'
  <2>1. ~CanceledAt(scenario, pc)
    BY <1>1 DEF IInv, CancelInv
  <2>2. CanceledAt(scenario, pc + 1) <=> x = "CANCELING"
    BY <1>4, <2>1, CanceledNext DEF Asks
  <2>3. x \in {"CANCELING", "DEPLOYING"}
    BY DEF Asks
  <2>4. \A d \in 1..Len(dep') : d = 1
    BY <1>2
  <2>5. QED  BY <1>1, <1>2, <1>3, <2>2, <2>3, <2>4 DEF CancelInv
<1>11. QED  BY <1>5, <1>6, <1>7, <1>8, <1>9, <1>10 DEF IInv

LEMMA AskedWhenPaused ==
  ASSUME IInv, verdict = "running", Spot.op \in {"continue", "cancel"}
  PROVE  /\ Len(dep) = 1 /\ dep[1].status = "PAUSED" /\ dep[1] \in Deps
         /\ dep[1].proc = 2 /\ Len(proc) = 2 /\ Instances \in Nat \ {0}
<1>1. pc \in 1..Len(Script(scenario)) /\ AsksInOrder(scenario)
  BY Known DEF IInv, PlaceInv, Order
<1>2. PausedAt(scenario, pc)
  BY <1>1 DEF AsksInOrder, Spot
<1>3. Len(dep) = 1 /\ dep[1].status = "PAUSED"
  BY <1>2 DEF IInv, PausedInv
<1>4. QED  BY <1>3, Known

LEMMA ContinueAsks ==
  ASSUME IInv, ContinueDeployment PROVE Asks("DEPLOYING")
<1>1. verdict = "running" /\ Spot.op = "continue" /\ UNCHANGED <<chosen, started>>
  BY DEF ContinueDeployment, AtStep
<1>2. /\ Len(dep) = 1 /\ dep[1].status = "PAUSED" /\ dep[1] \in Deps
      /\ dep[1].proc = 2 /\ Len(proc) = 2 /\ Instances \in Nat \ {0}
  BY <1>1, AskedWhenPaused
<1> DEFINE d == dep[1]
           step == IF fault = "skipsSteps" THEN Len(d.targets) + 1 ELSE d.step + 1
           n == IF fault = "oneCanary" THEN 1 ELSE d.targets[step]
<1>3. /\ dep' = [dep EXCEPT ![1].status = "DEPLOYING", ![1].step = step]
      /\ proc' = IF step <= Len(d.targets) THEN Rescale(2, n, Instances - n + 1) ELSE proc
      /\ Advance /\ fresh' = TRUE /\ noted' = noted /\ lucky' = lucky
  BY <1>2 DEF ContinueDeployment, GoOn
<1>4. d.targets \in Seq(1..Instances) /\ Len(d.targets) \in Nat /\ d.step \in Nat \ {0}
  <2>1. d.targets \in Seq(1..Instances) /\ d.step \in Nat \ {0}
    BY <1>2 DEF Deps
  <2> HIDE DEF d
  <2>2. QED  BY <2>1, LenProperties
<1> HIDE DEF d
<1>5. step \in Nat \ {0}
  BY <1>4
<1>6. step <= Len(d.targets) => n \in 0..Instances /\ Instances - n + 1 \in 0..Instances
  <2>1. ASSUME step <= Len(d.targets) PROVE n \in 1..Instances
    <3>1. step \in 1..Len(d.targets)
      BY <1>4, <1>5, <2>1
    <3> HIDE DEF step
    <3>2. d.targets[step] \in 1..Instances
      BY <1>4, <3>1, ElementOfSeq
    <3>3. 1 \in 1..Instances
      BY <1>2
    <3>4. QED  BY <3>2, <3>3
  <2> HIDE DEF n, step
  <2>2. QED  BY <1>2, <2>1
<1> HIDE DEF step, n
<1>7. Scaled(proc')
  <2>1. Scaled(proc)
    BY Known DEF Scaled
  <2>2. 2 \in 1..Len(proc)
    BY <1>2
  <2>3. CASE step <= Len(d.targets)
    <3>1. proc' = Rescale(2, n, Instances - n + 1)
      BY <1>3, <2>3
    <3>2. QED  BY <1>6, <2>2, <2>3, <3>1, RescaleScales
  <2>4. CASE ~(step <= Len(d.targets))
    BY <1>3, <2>1, <2>4
  <2>5. QED  BY <2>3, <2>4
<1>8. Restated(dep', 1, "DEPLOYING")
  <2>1. 1 \in 1..Len(dep) /\ "DEPLOYING" \in Statuses
    BY <1>2 DEF Statuses
  <2>2. QED  BY <1>3, <1>5, <2>1, StepRestates
<1>9. QED  BY <1>1, <1>2, <1>3, <1>7, <1>8 DEF Asks

LEMMA CancelAsks ==
  ASSUME IInv, CancelDeployment PROVE Asks("CANCELING")
<1>1. verdict = "running" /\ Spot.op = "cancel" /\ UNCHANGED <<chosen, started>>
  BY DEF CancelDeployment, AtStep
<1>2. /\ Len(dep) = 1 /\ dep[1].status = "PAUSED"
      /\ Len(proc) = 2 /\ Instances \in Nat \ {0}
  BY <1>1, AskedWhenPaused
<1>3. /\ dep' = [dep EXCEPT ![1].status = "CANCELING"]
      /\ proc' = [proc EXCEPT ![1].want = Instances]
      /\ Advance /\ fresh' = TRUE /\ noted' = noted /\ lucky' = lucky
  BY <1>2 DEF CancelDeployment, Final, GoOn
<1>4. /\ 1 \in 1..Len(dep) /\ "CANCELING" \in Statuses
      /\ 1 \in 1..Len(proc) /\ Instances \in 0..Instances
  BY <1>2 DEF Statuses
<1>5. Restated(dep', 1, "CANCELING") /\ Scaled(proc')
  BY <1>3, <1>4, StatusRestates, WantScales
<1>6. QED  BY <1>1, <1>2, <1>3, <1>5 DEF Asks

\* POST /v3/deployments: there is room for the new deployment, and the one before it
\* is paused.
LEMMA RoomForOne ==
  ASSUME IInv, verdict = "running", Spot.op = "create"
  PROVE  /\ Creates(Spot) /\ Len(dep) + 1 = Count(scenario, pc + 1)
         /\ Len(dep) \in 0..1
         /\ Len(dep) = 1 => PausedAt(scenario, pc) /\ dep[1].status = "PAUSED"
         /\ ~CanceledAt(scenario, pc)
<1>1. /\ pc \in 1..Len(Script(scenario)) /\ CreatesInOrder(scenario) /\ scenario \in Specs
      /\ pc \in 1..(Len(Script(scenario)) + 1) /\ pc \in Nat \ {0}
  <2>1. pc \in 1..Len(Script(scenario))
    BY DEF IInv, PlaceInv
  <2>2. pc \in 1..(Len(Script(scenario)) + 1)
    BY DEF IInv, TypeOK
  <2>3. QED  BY <2>1, <2>2, Known DEF Order
<1>2. /\ Creates(Spot)
      /\ pc = First(scenario) \/ (scenario = "supersede" /\ pc = 7)
      /\ pc # First(scenario) => PausedAt(scenario, pc)
  BY <1>1 DEF CreatesInOrder, Spot
<1>3. First(scenario) \in 1..3 /\ (scenario = "supersede" => First(scenario) = 2)
  BY DEF First
<1>4. Len(dep) = Count(scenario, pc)
  BY DEF IInv, DepInv, Count
<1>5. CASE pc = First(scenario)
  <2>1. pc <= First(scenario) /\ ~(pc + 1 <= First(scenario)) /\ pc + 1 <= 7
    BY <1>3, <1>5
  <2>2. Len(dep) = 0 /\ Count(scenario, pc + 1) = 1
    BY <1>1, <1>3, <1>4, <1>5, <2>1 DEF Count
  <2>3. ~CanceledAt(scenario, pc)
    BY <1>1, <1>3, <1>5, CanceledLate
  <2>4. QED  BY <1>2, <2>2, <2>3
<1>6. CASE scenario = "supersede" /\ pc = 7
  <2>1. Len(dep) = 1 /\ Count(scenario, pc + 1) = 2
    BY <1>3, <1>4, <1>6 DEF Count
  <2>2. PausedAt(scenario, pc)
    BY <1>2, <1>3, <1>6
  <2>3. dep[1].status = "PAUSED"
    BY <2>2 DEF IInv, PausedInv
  <2>4. ~CanceledAt(scenario, pc)
    BY <1>1, <1>6, CanceledLate
  <2>5. QED  BY <1>2, <2>1, <2>2, <2>3, <2>4
<1>7. QED  BY <1>2, <1>5, <1>6

\* The deployments and the processes once one more has been created.
LEMMA DeployShapes ==
  ASSUME IInv, verdict = "running", Spot.op = "create", Deploy(Spot)
  PROVE  /\ dep' \in Seq(Deps) /\ Len(dep') = Len(dep) + 1
         /\ \A d \in 1..Len(dep) :
              /\ dep'[d].proc = dep[d].proc
              /\ IF dep[d].status \in Final \/ fault = "neverSupersedes"
                   THEN dep'[d].status = dep[d].status
                   ELSE dep'[d].status = "SUPERSEDED"
         /\ dep'[Len(dep) + 1].status = "DEPLOYING"
         /\ dep'[Len(dep) + 1].proc = Len(dep) + 2
         /\ proc' \in Seq(Procs) /\ Len(proc') = Len(proc) + 1
         /\ \A p \in 1..Len(proc) : proc'[p] = proc[p]
         /\ proc'[Len(proc) + 1].live
<1> DEFINE old == [d \in 1..Len(dep) |->
                     IF dep[d].status \in Final \/ fault = "neverSupersedes" THEN dep[d]
                     ELSE [dep[d] EXCEPT !.status = "SUPERSEDED"]]
           one == [strategy |-> Spot.strategy, status |-> "DEPLOYING", step |-> 1,
                   targets |-> Spot.targets, mif |-> Spot.mif, proc |-> Len(proc) + 1]
           want == IF Spot.strategy = "canary" THEN Spot.targets[1]
                   ELSE IF fault = "oneInFlight" THEN 1
                   ELSE Least(Spot.mif, Size)
           web == [droplet |-> Spot.droplet, running |-> 0, live |-> TRUE, want |-> want]
<1>1. dep' = Append(old, one) /\ proc' = Append(proc, web)
  BY DEF Deploy
<1>2. /\ dep \in Seq(Deps) /\ proc \in Seq(Procs) /\ Instances \in Nat \ {0}
      /\ \A d \in 1..Len(dep) : dep[d] \in Deps
      /\ Len(dep) \in 0..1 /\ Len(proc) = Len(dep) + 1
  BY Known, RoomForOne
<1>3. /\ Spot.strategy \in {"canary", "rolling"} /\ Spot.droplet \in Droplets
      /\ Spot.targets \in Seq(1..Instances) /\ Spot.mif \in 1..Instances
      /\ Spot.strategy = "canary" => Len(Spot.targets) > 0
  BY RoomForOne DEF Creates
<1>4. /\ old \in Seq(Deps) /\ Len(old) = Len(dep)
      /\ \A d \in 1..Len(dep) :
           /\ old[d].proc = dep[d].proc
           /\ IF dep[d].status \in Final \/ fault = "neverSupersedes"
                THEN old[d].status = dep[d].status
                ELSE old[d].status = "SUPERSEDED"
  <2>1. /\ old = [d \in 1..Len(dep) |-> old[d]]
        /\ \A d \in 1..Len(dep) :
             old[d] = IF dep[d].status \in Final \/ fault = "neverSupersedes" THEN dep[d]
                      ELSE [dep[d] EXCEPT !.status = "SUPERSEDED"]
    OBVIOUS
  <2> HIDE DEF old, one, web, want
  <2>2. ASSUME NEW d \in 1..Len(dep)
        PROVE  /\ old[d] \in Deps /\ old[d].proc = dep[d].proc
               /\ IF dep[d].status \in Final \/ fault = "neverSupersedes"
                    THEN old[d].status = dep[d].status
                    ELSE old[d].status = "SUPERSEDED"
    <3>1. dep[d] \in Deps
      BY <1>2
    <3>2. CASE dep[d].status \in Final \/ fault = "neverSupersedes"
      BY <2>1, <3>1, <3>2
    <3>3. CASE ~(dep[d].status \in Final \/ fault = "neverSupersedes")
      <4>1. old[d] = [dep[d] EXCEPT !.status = "SUPERSEDED"]
        BY <2>1, <3>3
      <4>2. old[d] \in Deps /\ old[d].proc = dep[d].proc /\ old[d].status = "SUPERSEDED"
        BY <3>1, <4>1 DEF Deps, Statuses
      <4>3. QED  BY <3>3, <4>2
    <3>4. QED  BY <3>2, <3>3
  <2>3. Len(dep) \in Nat
    BY <1>2
  <2>4. old \in Seq(Deps) /\ Len(old) = Len(dep)
    BY <2>1, <2>2, <2>3, SeqOf, Zenon
  <2>5. QED  BY <2>2, <2>4
<1> HIDE DEF old
<1>5. one \in Deps
  <2>1. /\ "DEPLOYING" \in Statuses /\ 1 \in Nat \ {0} /\ Len(proc) + 1 \in 2..3
    BY <1>2 DEF Statuses
  <2>2. QED  BY <1>3, <2>1 DEF Deps
<1>6. one.status = "DEPLOYING" /\ one.proc = Len(proc) + 1
  OBVIOUS
<1> HIDE DEF one
<1>7. web \in Procs /\ web.live
  <2>1. want \in 0..Instances
    <3>1. CASE Spot.strategy = "canary"
      <4>1. 1 \in 1..Len(Spot.targets)
        BY <1>3, <3>1, LenProperties
      <4>2. Spot.targets[1] \in 1..Instances
        BY <1>3, <4>1, ElementOfSeq
      <4>3. QED  BY <1>2, <3>1, <4>2
    <3>2. CASE Spot.strategy # "canary"
      BY <1>2, <1>3, <3>2, SizeFits DEF Least
    <3>3. QED  BY <3>1, <3>2
  <2> HIDE DEF want
  <2>2. 0 \in 0..Instances /\ TRUE \in BOOLEAN
    BY <1>2
  <2>3. QED  BY <1>3, <2>1, <2>2 DEF Procs
<1> HIDE DEF web
<1>8. /\ dep' \in Seq(Deps) /\ Len(dep') = Len(old) + 1
      /\ \A d \in 1..Len(old) : dep'[d] = old[d]
      /\ dep'[Len(old) + 1] = one
  BY <1>1, <1>4, <1>5, AppendProperties
<1>9. /\ proc' \in Seq(Procs) /\ Len(proc') = Len(proc) + 1
      /\ \A p \in 1..Len(proc) : proc'[p] = proc[p]
      /\ proc'[Len(proc) + 1] = web
  BY <1>1, <1>2, <1>7, AppendProperties
<1>10. dep'[Len(dep) + 1].proc = Len(dep) + 2
  BY <1>2, <1>4, <1>6, <1>8
<1>11. QED  BY <1>4, <1>6, <1>7, <1>8, <1>9, <1>10

LEMMA PostKeeps == ASSUME IInv, PostDeployment PROVE IInv'
<1>1. /\ verdict = "running" /\ Spot.op = "create" /\ Deploy(Spot) /\ Advance
      /\ scenario' = scenario /\ fault' = fault /\ pace' = pace /\ noted' = noted
      /\ lucky' = lucky /\ started' = started /\ fresh' = TRUE
  BY DEF PostDeployment, AtStep, GoOn, chosen
<1> DEFINE n == Len(dep)
<1>2. /\ n + 1 = Count(scenario, pc + 1) /\ n \in 0..1 /\ Len(proc) = n + 1
      /\ n = 1 => PausedAt(scenario, pc) /\ dep[1].status = "PAUSED" /\ dep[1].proc = 2
      /\ ~CanceledAt(scenario, pc)
  BY <1>1, RoomForOne, Known
<1>3. /\ dep' \in Seq(Deps) /\ Len(dep') = n + 1
      /\ n = 1 => dep'[1].status \in {"PAUSED", "SUPERSEDED"} /\ dep'[1].proc = 2
      /\ dep'[n + 1].status = "DEPLOYING" /\ dep'[n + 1].proc = n + 2
      /\ proc' \in Seq(Procs) /\ Len(proc') = n + 2 /\ proc'[1] = proc[1]
      /\ proc'[n + 2].live
  <2>1. n = 1 => 1 \in 1..Len(dep)
    OBVIOUS
  <2>2. 1 \in 1..Len(proc) /\ Len(proc) + 1 = n + 2
    BY <1>2
  <2>3. QED  BY <1>1, <1>2, <2>1, <2>2, DeployShapes
<1>4. /\ pc \in 1..Len(Script(scenario)) /\ pc' = pc + 1
      /\ pc' \in 1..(Len(Script(scenario)) + 1)
      /\ verdict' \in {"running", "passed"}
      /\ verdict' = "running" => pc' \in 1..Len(Script(scenario))
  BY <1>1, Advances
<1>5. scenario \in Specs /\ pc \in Nat \ {0} /\ Spot = Script(scenario)[pc]
  BY Known DEF Spot
<1> HIDE DEF n
<1>6. \A d \in 1..(n + 1) : d = n + 1 \/ (n = 1 /\ d = 1)
  BY <1>2
<1>7. TypeOK'
  <2>1. verdict' \in {"running", "passed", "failed"} /\ Len(dep') <= 2
    BY <1>2, <1>3, <1>4
  <2>2. fresh' \in BOOLEAN
    BY <1>1
  <2>3. QED  BY <1>1, <1>3, <1>4, <2>1, <2>2, Zenon DEF IInv, TypeOK, Deps, Procs
<1>8. PlaceInv'
  BY <1>1, <1>4 DEF PlaceInv
<1>9. DepInv'
  <2>1. \A d \in 1..(n + 1) : dep'[d].proc = d + 1
    BY <1>2, <1>3, <1>6
  <2>2. n + 1 = 2 => dep'[1].status \notin {"DEPLOYING", "CANCELING"}
    BY <1>2, <1>3
  <2>3. Len(proc') = Len(dep') + 1
    BY <1>2, <1>3
  <2>4. QED  BY <1>1, <1>2, <1>3, <1>4, <2>1, <2>2, <2>3, Zenon DEF DepInv, Count
<1>10. LiveInv'
  <2>1. ASSUME NEW d \in 1..(n + 1),
               dep'[d].status = "DEPLOYING" \/ (dep'[d].status = "PAUSED" /\ d = n + 1)
        PROVE  proc'[d + 1].live
    <3>1. d = n + 1 /\ d + 1 = n + 2
      BY <1>2, <1>3, <1>6, <2>1
    <3>2. QED  BY <1>3, <3>1
  <2>2. (\A d \in 1..(n + 1) : dep'[d].status # "DEPLOYED") => proc'[1].live
    <3>1. \A d \in 1..Len(dep) : dep[d].status # "DEPLOYED"
      BY <1>2 DEF n
    <3>2. proc[1].live
      BY <3>1 DEF IInv, LiveInv
    <3>3. QED  BY <1>3, <3>2
  <2>3. n + 2 \in 1..Len(proc')
    BY <1>2, <1>3
  <2>4. QED  BY <1>3, <2>1, <2>2, <2>3, Zenon DEF LiveInv
<1>11. PausedInv'
  <2>1. ~PausedAt(scenario, pc + 1)
    <3>1. Spot # Status(1, "PAUSED") /\ Spot.op \notin Quiet
      BY <1>1 DEF Status, Quiet
    <3>2. QED  BY <1>5, <3>1, PausedNext
  <2>2. QED  BY <1>1, <1>4, <2>1, Zenon DEF PausedInv
<1>12. CancelInv'
  <2>1. ~CanceledAt(scenario, pc + 1)
    BY <1>1, <1>2, <1>5, CanceledNext
  <2>2. \A d \in 1..(n + 1) : dep'[d].status \notin {"CANCELING", "CANCELED"}
    BY <1>3, <1>6
  <2>3. QED  BY <1>1, <1>3, <1>4, <2>1, <2>2, Zenon DEF CancelInv
<1>13. QED  BY <1>7, <1>8, <1>9, <1>10, <1>11, <1>12 DEF IInv

LEMMA DriverKeeps == ASSUME IInv, Driver \/ Hiccup \/ Misread PROVE IInv'
BY PostKeeps, ContinueAsks, CancelAsks, AsksKeeps, ScaleLooks, PrepareLooks,
   NoteLooks, PollLooks, SleepLooks, GivingUpLooks, LooksKeeps DEF Driver

LEMMA InitHolds == ASSUME Init PROVE IInv
<1>1. /\ scenario \in Specs /\ scenario \in Scenarios /\ Instances \in Nat \ {0}
      /\ Order(scenario)
  BY DeploymentsAssumption, EveryScriptInOrder DEF Init
<1> DEFINE web == [droplet |-> "dora", want |-> Instances, running |-> Instances, live |-> TRUE]
<1>2. /\ pc = 1 /\ verdict = "running" /\ dep = <<>> /\ proc = <<web>>
      /\ noted = [canary |-> 0, original |-> 0] /\ lucky = FALSE /\ fresh = FALSE
      /\ started = {}
      /\ pace \in {"prompt", "any"} /\ fault \in {"none"} \cup Broken(scenario)
  BY DEF Init
<1>3. web \in Procs /\ web.live
  <2>1. Instances \in 0..Instances /\ "dora" \in Droplets /\ TRUE \in BOOLEAN
    BY <1>1 DEF Droplets
  <2>2. QED  BY <2>1 DEF Procs
<1> HIDE DEF web
<1>4. /\ Len(dep) = 0 /\ dep \in Seq(Deps) /\ Len(proc) = 1 /\ proc[1] = web
      /\ proc \in Seq(Procs)
  BY <1>2, <1>3
<1>5. pc \in 1..Len(Script(scenario)) /\ pc \in 1..(Len(Script(scenario)) + 1)
  BY <1>1, <1>2 DEF Order
<1>6. TypeOK
  <2>1. fault \in Faults
    BY <1>1, <1>2 DEF Faults
  <2>2. noted \in [canary : 0..3, original : 0..3] /\ Len(dep) <= 2
    BY <1>2, <1>4
  <2>3. QED  BY <1>1, <1>2, <1>4, <1>5, <2>1, <2>2 DEF TypeOK, Deps, Procs
<1>7. PlaceInv
  BY <1>5 DEF PlaceInv
<1>8. DepInv
  <2>1. pc <= First(scenario)
    BY <1>2 DEF First
  <2>2. \A d \in 1..Len(dep) : FALSE
    BY <1>4
  <2>3. QED  BY <1>4, <2>1, <2>2 DEF DepInv
<1>9. LiveInv
  BY <1>3, <1>4 DEF LiveInv
<1>10. PausedInv /\ CancelInv
  <2>1. \A d \in 1..Len(dep) : FALSE
    BY <1>4
  <2>2. QED  BY <1>2, <2>1, KnownFirst, Zenon DEF PausedInv, CancelInv
<1>11. QED  BY <1>6, <1>7, <1>8, <1>9, <1>10 DEF IInv

LEMMA Steps == ASSUME IInv, [Next]_vars PROVE IInv'
<1>1. CASE Next
  BY <1>1, PlatformKeeps, DriverKeeps, NeighbourKeeps DEF Next
<1>2. CASE UNCHANGED vars
  <2>1. /\ UNCHANGED <<chosen, driver, dep>> /\ proc' = proc /\ fresh' = fresh
        /\ started' = started
    BY <1>2 DEF vars
  <2>2. fresh' \in BOOLEAN /\ started' \subseteq {"own", "other", "old"} /\ Scaled(proc')
    BY <2>1, Known DEF IInv, TypeOK, Scaled
  <2>3. QED  BY <2>1, <2>2, ScaledStep
<1>3. QED  BY <1>1, <1>2

\* Whatever the platform breaks and at whatever pace the spec polls, the state is
\* well formed: no process is scaled beyond what the app asked for or below nothing,
\* and there are never more than two deployments (deployments.go:77-440).
THEOREM DeploymentsTypeCorrect == Spec => []TypeOK
<1>1. Init => IInv
  BY InitHolds
<1>2. IInv /\ [Next]_vars => IInv'
  BY Steps
<1>3. IInv => TypeOK
  BY DEF IInv
<1>4. QED  BY <1>1, <1>2, <1>3, PTL DEF Spec

-----------------------------------------------------------------------------
(* No call is refused. *)

LEMMA NewestScaled ==
  ASSUME CallInv, fault = "none", dep' = dep, Scaled(proc') PROVE NewestInv'
<1>1. Len(proc) \in 1..Len(proc) /\ IInv
  BY Known DEF CallInv
<1>2. QED  BY <1>1 DEF CallInv, NewestInv, Scaled

\* The last deployment has moved, and its process is there unless it is canceled.
LEMMA NewestMoved ==
  ASSUME CallInv, fault = "none", NEW d, d \in 1..Len(dep), d = Len(dep), NEW x,
         Restated(dep', d, x), Len(proc') = Len(proc),
         x = "CANCELED" \/ proc'[d + 1].live
  PROVE  NewestInv'
<1>1. Len(proc) = Len(dep) + 1 /\ Len(dep) \in 0..2
  BY Known DEF CallInv
<1>2. /\ Len(dep') = Len(dep) /\ dep'[d].status = x
      /\ \A e \in 1..Len(dep) : e # d => dep'[e].status = dep[e].status
  BY DEF Restated
<1>3. Len(dep) = 2 => dep'[1].status = dep[1].status /\ dep[1].status \in Final
  BY <1>1, <1>2 DEF CallInv, NewestInv
<1>4. Len(dep') # 0 /\ dep'[Len(dep')].status = x /\ Len(proc') = d + 1
  BY <1>1, <1>2
<1>5. QED  BY <1>2, <1>3, <1>4, Zenon DEF NewestInv

LEMMA NewestPosted ==
  ASSUME CallInv, fault = "none", PostDeployment PROVE NewestInv'
<1>1. IInv /\ verdict = "running" /\ Spot.op = "create" /\ Deploy(Spot)
  BY DEF CallInv, PostDeployment, AtStep
<1>2. /\ Len(dep) \in 0..1 /\ Len(proc) = Len(dep) + 1
      /\ Len(dep) = 1 => dep[1].status = "PAUSED"
  BY <1>1, RoomForOne, Known
<1>3. /\ Len(dep') = Len(dep) + 1 /\ Len(proc') = Len(proc) + 1
      /\ proc'[Len(proc) + 1].live
  BY <1>1, DeployShapes
<1>4. Len(dep) = 1 => dep'[1].status = "SUPERSEDED"
  <2>1. ASSUME Len(dep) = 1 PROVE dep'[1].status = "SUPERSEDED"
    <3>1. 1 \in 1..Len(dep)
      BY <2>1
    <3>2. ~(dep[1].status \in Final \/ fault = "neverSupersedes")
      BY <1>2, <2>1 DEF Final
    <3>3. QED  BY <1>1, <3>1, <3>2, DeployShapes
  <2>2. QED  BY <2>1
<1>5. Len(dep') = 2 => dep'[1].status \in Final
  BY <1>2, <1>3, <1>4 DEF Final
<1>6. QED  BY <1>3, <1>5 DEF NewestInv

LEMMA NewestAsked ==
  ASSUME CallInv, fault = "none", NEW x, Asks(x) PROVE NewestInv'
<1>1. /\ Len(dep) = 1 /\ dep[1].status = "PAUSED" /\ Restated(dep', 1, x) /\ Scaled(proc')
      /\ Len(proc) = 2 /\ IInv
  BY Known DEF CallInv, Asks
<1>2. 1 \in 1..Len(dep) /\ 2 \in 1..Len(proc)
  BY <1>1
<1>3. proc'[1 + 1].live /\ Len(proc') = Len(proc)
  BY <1>1, <1>2 DEF IInv, LiveInv, Scaled
<1>4. QED  BY <1>1, <1>2, <1>3, NewestMoved

LEMMA NewestUpdated ==
  ASSUME CallInv, fault = "none", NEW d \in 1..Len(dep), Update(d)
  PROVE  NewestInv' /\ Len(proc') = Len(proc)
<1>1. IInv /\ UNCHANGED <<chosen, driver>> /\ fresh' \in BOOLEAN
  BY DEF CallInv, Update
<1>2. CASE Pause(d)
  <2>1. Restated(dep', d, "PAUSED") /\ Scaled(proc') /\ dep[d].status = "DEPLOYING"
    BY <1>1, <1>2, PauseKeeps DEF Pause, CanPause
  <2>2. d = Len(dep) /\ d + 1 \in 1..Len(proc)
    BY <1>1, <2>1, MoverIsLast, Known
  <2>3. proc'[d + 1].live /\ Len(proc') = Len(proc)
    BY <1>1, <2>1, <2>2 DEF IInv, LiveInv, Scaled
  <2>4. QED  BY <2>1, <2>2, <2>3, NewestMoved
<1>3. CASE RollOn(d)
  BY <1>1, <1>3, RollOnKeeps, NewestScaled DEF Scaled
<1>4. CASE Finish(d)
  BY <1>1, <1>4, FinishKeeps, NewestMoved
<1>5. CASE FinishCancel(d)
  BY <1>1, <1>5, FinishCancelKeeps, NewestMoved
<1>6. QED  BY <1>2, <1>3, <1>4, <1>5 DEF Update

\* What has been noted stays the last two processes.
LEMMA NotedKept ==
  ASSUME CallInv, fault = "none", scenario' = scenario, noted' = noted,
         Len(proc') = Len(proc),
         \/ UNCHANGED <<pc, verdict>>
         \/ verdict' = "failed"
         \/ verdict = "running" /\ Advance /\ Spot.op # "note"
  PROVE  NotedInv'
<1>1. CASE UNCHANGED <<pc, verdict>>
  BY <1>1, Zenon DEF CallInv, NotedInv
<1>2. CASE verdict' = "failed"
  BY <1>2 DEF NotedInv
<1>3. CASE verdict = "running" /\ Advance /\ Spot.op # "note"
  <2>1. pc' = pc + 1 /\ pc \in Nat \ {0} /\ Spot = Script(scenario)[pc]
    BY <1>3, Known DEF CallInv, Advance, Spot
  <2>2. NotedAt(scenario, pc + 1) => NotedAt(scenario, pc)
    BY <1>3, <2>1, NotedNext
  <2>3. QED  BY <1>3, <2>1, <2>2, Zenon DEF CallInv, NotedInv
<1>4. QED  BY <1>1, <1>2, <1>3

\* The processes the spec notes are the newest one and, before it cancels, the
\* original one.
LEMMA NotedRight ==
  ASSUME CallInv, fault = "none", NoteProcesses PROVE NotedInv'
<1>0. SUFFICES ASSUME scenario = "cancel" => Live # {Newest} PROVE NotedInv'
  BY DEF NoteProcesses, Fail, NotedInv
<1>1. /\ IInv /\ verdict = "running" /\ Spot.op = "note" /\ scenario' = scenario
      /\ proc' = proc
      /\ noted' = [canary |-> Newest,
                   original |-> IF Live = {Newest} THEN 0
                                ELSE CHOOSE p \in Live \ {Newest} :
                                       \A q \in Live \ {Newest} : q <= p]
  BY <1>0 DEF CallInv, NoteProcesses, AtStep, chosen
<1>2. /\ pc \in 1..Len(Script(scenario)) /\ LooksInOrder(scenario)
      /\ Len(proc) = Len(dep) + 1 /\ Len(dep) \in 0..2
  BY <1>1, Known DEF IInv, PlaceInv, Order
<1>3. ~CanceledAt(scenario, pc) /\ (scenario = "cancel" => PausedAt(scenario, pc))
  BY <1>1, <1>2 DEF LooksInOrder, Spot
<1>4. proc[Len(proc)].live
  <2>1. Len(dep) = 0 \/ dep[Len(dep)].status # "CANCELED"
    <3>1. CASE Len(dep) # 0
      <4>1. Len(dep) \in 1..Len(dep)
        BY <1>2, <3>1
      <4>2. QED  BY <1>1, <1>3, <4>1 DEF IInv, CancelInv
    <3>2. QED  BY <3>1
  <2>2. QED  BY <2>1 DEF CallInv, NewestInv
<1>5. Newest = Len(proc)
  <2>1. Len(proc) \in Live /\ \A q \in Live : q \in 1..Len(proc)
    BY <1>2, <1>4 DEF Live
  <2>2. Newest \in Live /\ Len(proc) <= Newest
    BY <1>1, <2>1, NewestIsLive
  <2>3. QED  BY <1>2, <2>1, <2>2
<1>6. ASSUME scenario = "cancel" PROVE noted'.original = 1
  <2>1. Len(dep) = 1 /\ dep[1].status = "PAUSED"
    BY <1>1, <1>3, <1>6 DEF IInv, PausedInv
  <2>2. proc[1].live /\ Len(proc) = 2
    BY <1>1, <1>2, <2>1 DEF IInv, LiveInv
  <2>3. Newest = 2 /\ Live \ {Newest} = {1}
    <3>1. Newest = 2
      BY <1>5, <2>2
    <3>2. \A p : p \in Live <=> p \in {1, 2}
      BY <1>4, <2>2 DEF Live
    <3>3. QED  BY <3>1, <3>2
  <2>4. Live # {Newest}
    BY <2>3
  <2>5. (CHOOSE p \in {1} : \A q \in {1} : q <= p) = 1
    OBVIOUS
  <2>6. QED  BY <1>1, <2>3, <2>4, <2>5
<1>7. noted'.canary = Len(proc)
  BY <1>1, <1>5
<1>8. QED  BY <1>1, <1>6, <1>7 DEF NotedInv

LEMMA CallSteps == ASSUME CallInv, [Next]_vars PROVE CallInv'
<1>1. IInv /\ IInv'
  BY Steps DEF CallInv
<1>2. scenario' = scenario /\ fault' = fault
  <2>1. UNCHANGED chosen
    BY DEF Next, Platform, Diego, Update, Neighbour, Driver, ScaleApp,
           SetHealthCheckTimeoutOnProcess, NoteWorkerStart, PostDeployment,
           ContinueDeployment, CancelDeployment, NoteProcesses, Poll, Check, SleepOver,
           Timeout, Hiccup, Misread, vars
  <2>2. QED  BY <2>1 DEF chosen
<1>3. SUFFICES ASSUME fault = "none" PROVE NewestInv' /\ NotedInv'
  BY <1>1, <1>2 DEF CallInv
<1>4. ASSUME Platform PROVE NewestInv' /\ NotedInv'
  <2>1. UNCHANGED driver
    BY <1>4 DEF Platform, Diego, Update
  <2>2. NewestInv' /\ Len(proc') = Len(proc)
    <3>1. ASSUME NEW p \in 1..Len(proc), Diego(p)
          PROVE  NewestInv' /\ Len(proc') = Len(proc)
      BY <1>1, <1>3, <3>1, DiegoKeeps, NewestScaled DEF Scaled
    <3>2. QED  BY <1>3, <1>4, <3>1, NewestUpdated DEF Platform
  <2>3. QED  BY <1>2, <1>3, <2>1, <2>2, NotedKept DEF driver
<1>5. ASSUME Neighbour \/ UNCHANGED vars PROVE NewestInv' /\ NotedInv'
  <2>1. UNCHANGED <<driver, dep, proc>>
    BY <1>5 DEF Neighbour, vars
  <2>2. Scaled(proc')
    BY <1>1, <2>1, Known DEF Scaled
  <2>3. QED  BY <1>2, <1>3, <2>1, <2>2, NewestScaled, NotedKept DEF driver
<1>6. ASSUME \/ Poll \/ Check \/ SleepOver \/ Timeout \/ Hiccup \/ Misread
             \/ ScaleApp \/ SetHealthCheckTimeoutOnProcess \/ NoteWorkerStart
      PROVE  NewestInv' /\ NotedInv'
  <2>1. Looks
    BY <1>1, <1>6, PollLooks, SleepLooks, GivingUpLooks, ScaleLooks, PrepareLooks
  <2>2. Scaled(proc') /\ dep' = dep /\ Len(proc') = Len(proc)
    BY <2>1 DEF Looks, Scaled
  <2>3. /\ noted' = noted
        /\ \/ UNCHANGED <<pc, verdict>>
           \/ verdict' = "failed"
           \/ verdict = "running" /\ Advance /\ Spot.op # "note"
    BY <1>6 DEF Poll, Check, SleepOver, Timeout, Hiccup, Misread, ScaleApp,
                SetHealthCheckTimeoutOnProcess, NoteWorkerStart, Show, GoOn, Fail, driver,
                AtStep, Awaited, Asserted
  <2>4. QED  BY <1>2, <1>3, <2>2, <2>3, NewestScaled, NotedKept
<1>7. ASSUME NoteProcesses PROVE NewestInv' /\ NotedInv'
  <2>1. UNCHANGED <<dep, proc>>
    BY <1>7 DEF NoteProcesses
  <2>2. Scaled(proc')
    BY <1>1, <2>1, Known DEF Scaled
  <2>3. QED  BY <1>3, <1>7, <2>1, <2>2, NewestScaled, NotedRight
<1>8. ASSUME ContinueDeployment \/ CancelDeployment PROVE NewestInv' /\ NotedInv'
  <2>1. PICK x : Asks(x)
    BY <1>1, <1>8, ContinueAsks, CancelAsks
  <2>2. /\ noted' = noted /\ verdict = "running" /\ Advance /\ Spot.op # "note"
        /\ Len(proc') = Len(proc)
    BY <2>1 DEF Asks, Scaled
  <2>3. QED  BY <1>2, <1>3, <2>1, <2>2, NewestAsked, NotedKept
<1>9. ASSUME PostDeployment PROVE NewestInv' /\ NotedInv'
  <2>1. ~NotedAt(scenario, pc + 1) /\ pc' = pc + 1
    <3>1. Spot.op = "create" /\ Advance /\ pc \in Nat \ {0} /\ Spot = Script(scenario)[pc]
      BY <1>1, <1>9, Known DEF PostDeployment, AtStep, GoOn, Spot
    <3>2. QED  BY <3>1, NotedNext DEF Advance
  <2>2. NotedInv'
    BY <1>2, <2>1 DEF NotedInv
  <2>3. QED  BY <1>3, <1>9, <2>2, NewestPosted
<1>10. QED
  BY <1>4, <1>5, <1>6, <1>7, <1>8, <1>9 DEF Next, Driver

LEMMA CallsAnswered == ASSUME CallInv PROVE NoCallRefused
<1>1. IInv
  BY DEF CallInv
<1>2. SUFFICES ASSUME fault = "none", verdict = "running"
      PROVE  /\ Spot.op = "continue" => dep[1].status = "PAUSED"
             /\ Spot.op = "cancel" => dep[1].status \notin Final
             /\ Spot.op = "running" => ~Gone
  BY Zenon DEF NoCallRefused, AtStep
<1>3. Spot.op \in {"continue", "cancel"} => dep[1].status = "PAUSED"
  BY <1>1, <1>2, AskedWhenPaused
<1>4. ASSUME Spot.op = "running" PROVE noted[Spot.who] \in Live
  <2>1. /\ pc \in 1..Len(Script(scenario)) /\ LooksInOrder(scenario) /\ scenario \in Specs
        /\ pc \in 1..(Len(Script(scenario)) + 1)
        /\ Len(proc) = Len(dep) + 1 /\ Len(dep) \in 0..2
    <3>1. pc \in 1..(Len(Script(scenario)) + 1)
      BY <1>1 DEF IInv, TypeOK
    <3>2. QED  BY <1>1, <1>2, <3>1, Known DEF IInv, PlaceInv, Order
  <2>2. /\ NotedAt(scenario, pc) /\ Spot.who \in {"canary", "original"}
        /\ Spot.who = "canary" => ~CanceledAt(scenario, pc)
        /\ Spot.who = "original" => CanceledAt(scenario, pc)
    BY <1>4, <2>1 DEF LooksInOrder, Spot
  <2>3. noted.canary = Len(proc) /\ (scenario = "cancel" => noted.original = 1)
    BY <1>2, <2>2 DEF CallInv, NotedInv
  <2>4. CASE Spot.who = "canary"
    <3>1. Len(dep) = 0 \/ dep[Len(dep)].status # "CANCELED"
      <4>1. CASE Len(dep) # 0
        <5>1. Len(dep) \in 1..Len(dep)
          BY <2>1, <4>1
        <5>2. QED  BY <1>1, <2>2, <2>4, <5>1 DEF IInv, CancelInv
      <4>2. QED  BY <4>1
    <3>2. proc[Len(proc)].live
      BY <1>2, <3>1 DEF CallInv, NewestInv
    <3>3. Len(proc) \in Live
      BY <2>1, <3>2 DEF Live
    <3>4. QED  BY <2>3, <2>4, <3>3
  <2>5. CASE Spot.who = "original"
    <3>1. scenario = "cancel" /\ Len(dep) = 1 /\ dep[1].status # "DEPLOYED"
      <4>1. CanceledAt(scenario, pc)
        BY <2>2, <2>5
      <4>2. scenario = "cancel"
        BY <2>1, <4>1, CanceledLate
      <4>3. QED  BY <1>1, <4>1, <4>2 DEF IInv, CancelInv
    <3>2. proc[1].live
      BY <1>1, <3>1 DEF IInv, LiveInv
    <3>3. 1 \in Live
      BY <2>1, <3>1, <3>2 DEF Live
    <3>4. QED  BY <2>3, <2>5, <3>1, <3>3
  <2>6. QED  BY <2>2, <2>4, <2>5
<1>5. QED  BY <1>3, <1>4 DEF Gone, Final

\* On a platform that keeps its promises no call of a spec is refused, at any pace:
\* the deployment is paused when the spec continues or cancels it
\* (deployments.go:176, :234, :346, :423), and the process whose instances it asks for
\* still exists (deployments.go:172, :182, :230, :240, :277, :290, :342, :357, :400,
\* :434).
THEOREM NoCallIsRefused == Spec => []NoCallRefused
<1>1. Init => CallInv
  <2>1. ASSUME Init PROVE IInv /\ NewestInv /\ NotedInv
    <3>1. IInv
      BY <2>1, InitHolds
    <3>2. /\ Len(dep) = 0 /\ Len(proc) = 1 /\ proc[1].live /\ pc = 1
      BY <2>1 DEF Init
    <3>3. NewestInv
      BY <3>2 DEF NewestInv
    <3>4. NotedInv
      BY <3>2, KnownFirst, Zenon DEF NotedInv
    <3>5. QED  BY <3>1, <3>3, <3>4
  <2>2. QED  BY <2>1 DEF CallInv
<1>2. CallInv /\ [Next]_vars => CallInv'
  BY CallSteps
<1>3. CallInv => NoCallRefused
  BY CallsAnswered
<1>4. QED  BY <1>1, <1>2, <1>3, PTL DEF Spec

-----------------------------------------------------------------------------
(* No fault that the spec can tell passes. *)

\* The constants of the code: four steps, and as many instances in flight.
AsWritten == Len(StepTargets) > 1 /\ MaxInFlight > 3

\* A broken promise that the spec can tell: no worker but its own has been counted,
\* no curl has missed an instance, and it polls promptly where it has to.
Telling ==
  /\ fault # "none"
  /\ fault = "noWorkerRestart" =>
       pc < First(scenario) \/ started \cap {"other", "old"} = {}
  /\ fault \in {"keepsOriginal", "keepsCanary"} => ~lucky
  /\ fault = "oneInFlight" => pace = "prompt"

\* The step that a spec does not get past when the platform breaks f.
DeadEnd(s, f) ==
  CASE f = "neverPauses" -> First(s) + 2
    [] f = "losesOriginal" -> First(s) + 4
    [] f \in {"keepsOriginal", "keepsCanary"} -> Len(Script(s)) - 1
    [] f = "noWorkerRestart" -> Len(Script(s))
    [] f = "neverSupersedes" -> 8
    [] f = "skipsSteps" -> 12
    [] f = "oneCanary" -> 16
    [] f = "neverDeploys" -> 4
    [] f = "oneInFlight" -> IF s = "inFlight" THEN 5 ELSE 8
    [] f \in {"deploysBlindly", "healthyBlindly"} -> 3

\* The droplets, and what the first deployment was made with.
MadeInv ==
  /\ proc[1].droplet = "dora"
  /\ Len(dep) > 0 =>
       LET c == Script(scenario)[First(scenario)] IN
       /\ dep[1].strategy = c.strategy /\ dep[1].targets = c.targets
       /\ proc[2].droplet = c.droplet

\* The status that no deployment comes to.
Withheld ==
  CASE fault = "neverPauses" -> "PAUSED"
    [] fault = "neverDeploys" -> "DEPLOYED"
    [] fault = "neverSupersedes" -> "SUPERSEDED"
    [] OTHER -> "none"

WithheldTrace == \A d \in 1..Len(dep) : dep[d].status # Withheld

\* No worker has started since the one that was noted.
WorkerTrace == fault = "noWorkerRestart" /\ pc >= First(scenario) => started = {}

\* With the canary up the original process has no instance.
LosesTrace ==
  fault = "losesOriginal" /\ Len(dep) > 0 /\ dep[1].status = "PAUSED" =>
    proc[1].want = 0 /\ proc[1].running = 0

\* The original process keeps an instance for ever.
OriginalTrace ==
  fault = "keepsOriginal" => proc[1].live /\ proc[1].want > 0 /\ proc[1].running > 0

\* So does the canary once it is up.
CanaryTrace ==
  fault = "keepsCanary" /\ Len(dep) > 0 =>
    /\ dep[1].step = 1
    /\ proc[2].live /\ proc[2].want = 1
    /\ dep[1].status # "DEPLOYING" => proc[2].running = 1

\* After the first continue there is no step left to pause at.
SkipTrace ==
  fault = "skipsSteps" =>
    /\ Len(dep) > 0 /\ dep[1].step > 1 =>
         dep[1].step > Len(dep[1].targets) /\ dep[1].status # "PAUSED"
    /\ pc > 10 => dep[1].step > 1

\* The second step has one canary, too.
OneCanaryTrace ==
  fault = "oneCanary" =>
    /\ Len(dep) > 0 =>
         /\ dep[1].step = (IF pc > 10 THEN 2 ELSE 1)
         /\ dep[1].status \in {"DEPLOYING", "PAUSED"}
    /\ pc > 10 =>
         proc[2].want = 1 /\ (dep[1].status = "PAUSED" => proc[2].running = 1)
    /\ pc > 8 => noted.canary = 2

\* A prompt spec comes to its check before the new process has grown three times.
RampTrace ==
  fault = "oneInFlight" /\ scenario = "inFlight" =>
    /\ Len(dep) > 0 =>
         /\ dep[1].status = "DEPLOYING"
         /\ proc[2].want <= pc - 2 /\ (~fresh => proc[2].want < pc - 2)
    /\ pc > 4 => noted.canary = 2

\* The same from the continue on.
CanaryRampTrace ==
  fault = "oneInFlight" /\ scenario = "inFlightCanary" =>
    /\ Len(dep) > 0 =>
         /\ dep[1].status \in {"DEPLOYING", "PAUSED"}
         /\ IF pc <= 6
              THEN dep[1].step = 1 /\ proc[2].want = 1
              ELSE /\ dep[1].step = 2
                   /\ proc[2].want <= pc - 5 /\ (~fresh => proc[2].want < pc - 5)
    /\ pc > 5 => noted.canary = 2

\* When the sleep is over the deployment is through.
BlindTrace == fault = "deploysBlindly" /\ pc = 3 => dep[1].status # "DEPLOYING"

Trace ==
  /\ WithheldTrace /\ WorkerTrace /\ LosesTrace /\ OriginalTrace /\ CanaryTrace
  /\ SkipTrace /\ OneCanaryTrace /\ RampTrace /\ CanaryRampTrace /\ BlindTrace

HeldInv ==
  Telling => /\ verdict # "passed"
             /\ verdict = "running" => pc <= DeadEnd(scenario, fault) /\ Trace

-----------------------------------------------------------------------------
(* What each step changes. *)

\* Deployment d comes to status x, and nothing else of a deployment changes.
Marked(d, x) ==
  /\ Len(dep') = Len(dep) /\ dep'[d].status = x
  /\ \A e \in 1..Len(dep) :
       /\ dep'[e].strategy = dep[e].strategy /\ dep'[e].targets = dep[e].targets
       /\ dep'[e].step = dep[e].step
       /\ e # d => dep'[e].status = dep[e].status

LEMMA Marks ==
  ASSUME IInv, NEW d \in 1..Len(dep), NEW x \in Statuses, dep' = [dep EXCEPT ![d].status = x]
  PROVE  Marked(d, x)
<1>1. dep \in Seq(Deps) /\ dep[d] \in Deps
  BY Known
<1> DEFINE v == [dep[d] EXCEPT !.status = x]
<1>2. /\ v \in Deps /\ v.status = x /\ v.step = dep[d].step
      /\ v.strategy = dep[d].strategy /\ v.targets = dep[d].targets
  BY <1>1 DEF Deps
<1> HIDE DEF v
<1>3. dep' = [dep EXCEPT ![d] = v]
  BY <1>1 DEF v
<1>4. /\ Len(dep') = Len(dep) /\ dep'[d] = v
      /\ \A e \in 1..Len(dep) : e # d => dep'[e] = dep[e]
  BY <1>1, <1>2, <1>3, EditSeq
<1>5. QED  BY <1>2, <1>4 DEF Marked

\* Nothing but how many instances a process has or is to have changes.
SameWebs ==
  /\ Len(proc') = Len(proc)
  /\ \A q \in 1..Len(proc) : proc'[q].droplet = proc[q].droplet

LEMMA RunningEdit ==
  ASSUME IInv, NEW p \in 1..Len(proc), NEW n \in 0..Instances,
         proc' = [proc EXCEPT ![p].running = n]
  PROVE  /\ SameWebs
         /\ \A q \in 1..Len(proc) :
              /\ proc'[q].want = proc[q].want /\ proc'[q].live = proc[q].live
              /\ proc'[q].running = IF q = p THEN n ELSE proc[q].running
<1>1. proc \in Seq(Procs) /\ proc[p] \in Procs
  BY Known
<1> DEFINE v == [proc[p] EXCEPT !.running = n]
<1>2. /\ v \in Procs /\ v.live = proc[p].live /\ v.droplet = proc[p].droplet
      /\ v.want = proc[p].want /\ v.running = n
  BY <1>1 DEF Procs
<1> HIDE DEF v
<1>3. proc' = [proc EXCEPT ![p] = v]
  BY <1>1 DEF v
<1>4. /\ Len(proc') = Len(proc) /\ proc'[p] = v
      /\ \A q \in 1..Len(proc) : q # p => proc'[q] = proc[q]
  BY <1>1, <1>2, <1>3, EditSeq
<1>5. QED  BY <1>2, <1>4 DEF SameWebs

LEMMA WantEdit ==
  ASSUME IInv, NEW p \in 1..Len(proc), NEW n \in 0..Instances,
         proc' = [proc EXCEPT ![p].want = n]
  PROVE  /\ SameWebs
         /\ \A q \in 1..Len(proc) :
              /\ proc'[q].live = proc[q].live /\ proc'[q].running = proc[q].running
              /\ proc'[q].want = IF q = p THEN n ELSE proc[q].want
<1>1. proc \in Seq(Procs) /\ proc[p] \in Procs
  BY Known
<1> DEFINE v == [proc[p] EXCEPT !.want = n]
<1>2. /\ v \in Procs /\ v.live = proc[p].live /\ v.droplet = proc[p].droplet
      /\ v.running = proc[p].running /\ v.want = n
  BY <1>1 DEF Procs
<1> HIDE DEF v
<1>3. proc' = [proc EXCEPT ![p] = v]
  BY <1>1 DEF v
<1>4. /\ Len(proc') = Len(proc) /\ proc'[p] = v
      /\ \A q \in 1..Len(proc) : q # p => proc'[q] = proc[q]
  BY <1>1, <1>2, <1>3, EditSeq
<1>5. QED  BY <1>2, <1>4 DEF SameWebs

LEMMA RescaleEdit ==
  ASSUME IInv, NEW p \in 1..Len(proc), NEW n \in 0..Instances, NEW m \in 0..Instances,
         proc' = Rescale(p, n, m)
  PROVE  /\ SameWebs
         /\ \A q \in 1..Len(proc) :
              /\ proc'[q].live = proc[q].live /\ proc'[q].running = proc[q].running
              /\ proc'[q].want = IF q = p THEN n ELSE IF proc[q].live THEN m ELSE proc[q].want
<1>1. Len(proc) \in Nat /\ \A q \in 1..Len(proc) : proc[q] \in Procs
  BY Known
<1>2. /\ Len(proc') = Len(proc)
      /\ \A q \in 1..Len(proc) :
           proc'[q] = IF q = p THEN [proc[q] EXCEPT !.want = n]
                      ELSE IF proc[q].live THEN [proc[q] EXCEPT !.want = m] ELSE proc[q]
  <2>1. Len(proc') = Len(proc)
    BY RescaleScales DEF Scaled
  <2>2. QED  BY <2>1 DEF Rescale
<1>3. ASSUME NEW q \in 1..Len(proc)
      PROVE  /\ proc'[q].live = proc[q].live /\ proc'[q].running = proc[q].running
             /\ proc'[q].droplet = proc[q].droplet
             /\ proc'[q].want = IF q = p THEN n ELSE IF proc[q].live THEN m ELSE proc[q].want
  <2>1. proc[q] \in Procs
    BY <1>1
  <2>2. CASE q = p
    BY <1>2, <2>1, <2>2 DEF Procs
  <2>3. CASE q # p /\ proc[q].live
    BY <1>2, <2>1, <2>3 DEF Procs
  <2>4. CASE q # p /\ ~proc[q].live
    BY <1>2, <2>1, <2>4 DEF Procs
  <2>5. QED  BY <2>2, <2>3, <2>4
<1>4. QED  BY <1>2, <1>3 DEF SameWebs

LEMMA KeepEdit ==
  ASSUME IInv, NEW S, NEW k \in 1..Len(proc), k \in S, proc' = Keep(S)
  PROVE  SameWebs /\ \A q \in 1..Len(proc) : q \in S => proc'[q] = proc[q]
<1>1. Len(proc) \in Nat /\ \A q \in 1..Len(proc) : proc[q] \in Procs
  BY Known
<1>2. /\ Len(proc') = Len(proc)
      /\ \A q \in 1..Len(proc) :
           proc'[q] = IF q \in S THEN proc[q]
                      ELSE [proc[q] EXCEPT !.live = FALSE, !.want = 0, !.running = 0]
  <2>1. Len(proc') = Len(proc)
    BY KeepKeeps
  <2>2. QED  BY <2>1 DEF Keep
<1>3. ASSUME NEW q \in 1..Len(proc) PROVE proc'[q].droplet = proc[q].droplet
  <2>1. proc[q] \in Procs
    BY <1>1
  <2>2. CASE q \in S
    BY <1>2, <2>2
  <2>3. CASE q \notin S
    BY <1>2, <2>1, <2>3 DEF Procs
  <2>4. QED  BY <2>2, <2>3
<1>4. QED  BY <1>2, <1>3 DEF SameWebs

LEMMA DiegoEffect ==
  ASSUME IInv, NEW p \in 1..Len(proc), Diego(p)
  PROVE  /\ UNCHANGED <<chosen, driver, fresh, dep, started>> /\ SameWebs
         /\ \A q \in 1..Len(proc) :
              /\ proc'[q].want = proc[q].want /\ proc'[q].live = proc[q].live
              /\ proc[q].running = proc[q].want => proc'[q].running = proc[q].running
              /\ proc[q].running > 0 /\ proc[q].want > 0 => proc'[q].running > 0
<1>1. proc[p] \in Procs /\ proc[p].running # proc[p].want /\ Instances \in Nat
  BY Known DEF Diego, Due
<1> DEFINE n == IF proc[p].running < proc[p].want THEN proc[p].running + 1
                ELSE proc[p].running - 1
<1>2. n \in 0..Instances /\ (proc[p].running > 0 /\ proc[p].want > 0 => n > 0)
  <2>1. proc[p].running \in 0..Instances /\ proc[p].want \in 0..Instances
    BY <1>1 DEF Procs
  <2>2. QED  BY <1>1, <2>1
<1>3. proc' = [proc EXCEPT ![p].running = n]
  BY DEF Diego
<1> HIDE DEF n
<1>4. /\ SameWebs
      /\ \A q \in 1..Len(proc) :
           /\ proc'[q].want = proc[q].want /\ proc'[q].live = proc[q].live
           /\ proc'[q].running = IF q = p THEN n ELSE proc[q].running
  BY <1>2, <1>3, RunningEdit
<1>5. UNCHANGED <<chosen, driver, fresh, dep, started>>
  BY DEF Diego
<1>6. QED  BY <1>1, <1>2, <1>4, <1>5

LEMMA PauseEffect ==
  ASSUME IInv, NEW d \in 1..Len(dep), Pause(d), UNCHANGED <<chosen, driver>>,
         fresh' \in BOOLEAN
  PROVE  /\ CanPause(d) /\ d = Len(dep) /\ Marked(d, "PAUSED") /\ started' = started
         /\ SameWebs
         /\ fault # "losesOriginal" => proc' = proc
         /\ fault = "losesOriginal" /\ d = 1 => proc'[1].want = 0 /\ proc'[1].running = 0
<1>1. CanPause(d) /\ dep[d].status = "DEPLOYING" /\ started' = started
  BY DEF Pause, CanPause
<1>2. d = Len(dep) /\ Marked(d, "PAUSED")
  <2>1. dep' = [dep EXCEPT ![d].status = "PAUSED"]
    BY DEF Pause
  <2>2. QED  BY <1>1, <2>1, MoverIsLast, Marks DEF Statuses
<1>3. CASE fault # "losesOriginal"
  <2>1. proc' = proc
    BY <1>3 DEF Pause
  <2>2. QED  BY <1>1, <1>2, <1>3, <2>1 DEF SameWebs
<1>4. CASE fault = "losesOriginal"
  <2>1. /\ Len(proc) \in Nat /\ \A q \in 1..Len(proc) : proc[q] \in Procs
        /\ dep[d].proc = d + 1 /\ 1 \in 1..Len(proc)
    BY Known
  <2>2. proc' = [q \in 1..Len(proc) |->
                   IF q = dep[d].proc THEN proc[q]
                   ELSE [proc[q] EXCEPT !.want = 0, !.running = 0]]
    BY <1>4 DEF Pause
  <2>3. Len(proc') = Len(proc)
    BY PauseKeeps DEF Scaled
  <2>4. ASSUME NEW q \in 1..Len(proc)
        PROVE  /\ proc'[q].droplet = proc[q].droplet
               /\ q # dep[d].proc => proc'[q].want = 0 /\ proc'[q].running = 0
    <3>1. proc[q] \in Procs
      BY <2>1
    <3>2. CASE q = dep[d].proc
      BY <2>2, <3>2
    <3>3. CASE q # dep[d].proc
      <4>1. proc'[q] = [proc[q] EXCEPT !.want = 0, !.running = 0]
        BY <2>2, <3>3
      <4>2. QED  BY <3>1, <4>1 DEF Procs
    <3>4. QED  BY <3>2, <3>3
  <2>5. d = 1 => 1 # dep[d].proc
    BY <2>1
  <2>6. QED  BY <1>1, <1>2, <1>4, <2>1, <2>3, <2>4, <2>5 DEF SameWebs
<1>5. QED  BY <1>3, <1>4

LEMMA RollOnEffect ==
  ASSUME IInv, NEW d \in 1..Len(dep), RollOn(d)
  PROVE  /\ CanRollOn(d) /\ d = Len(dep) /\ dep' = dep /\ started' = started /\ SameWebs
         /\ \A q \in 1..Len(proc) :
              proc'[q].live = proc[q].live /\ proc'[q].running = proc[q].running
         /\ fault \in {"keepsOriginal", "keepsCanary"} =>
              \A q \in 1..Len(proc) : q # d + 1 => proc'[q].want = proc[q].want
         /\ fault = "oneInFlight" => proc'[d + 1].want <= proc[d + 1].want + 1
<1> DEFINE p == dep[d].proc
           inc == IF fault = "oneInFlight" THEN 1 ELSE dep[d].mif
           n == Least(proc[p].want + inc, Size)
<1>1. CanRollOn(d) /\ dep[d].status = "DEPLOYING" /\ dep' = dep /\ started' = started
  BY DEF RollOn, CanRollOn
<1>2. d = Len(dep)
  BY <1>1, MoverIsLast
<1>3. p = d + 1 /\ p \in 1..Len(proc) /\ proc[p] \in Procs /\ dep[d] \in Deps
      /\ Instances \in Nat \ {0}
  <2>1. d + 1 \in 1..Len(proc)
    BY Known
  <2>2. QED  BY <2>1, Known
<1>4. /\ n \in 0..Instances /\ Size - n \in 0..Instances
      /\ fault = "oneInFlight" => n <= proc[p].want + 1
  <2>1. inc \in 1..Instances /\ (fault = "oneInFlight" => inc = 1)
    BY <1>3 DEF Deps
  <2>2. proc[p].want \in 0..Instances
    BY <1>3 DEF Procs
  <2> DEFINE w == proc[p].want
  <2>3. w \in 0..Instances /\ n = Least(w + inc, Size)
    BY <2>2
  <2> HIDE DEF inc, p, n, w
  <2>4. /\ n \in 0..Instances /\ Size - n \in 0..Instances
        /\ fault = "oneInFlight" => n <= w + 1
    BY <1>3, <2>1, <2>3, SizeFits DEF Least
  <2>5. QED  BY <2>4 DEF w
<1>5. IF fault \in {"keepsOriginal", "keepsCanary"} THEN proc' = [proc EXCEPT ![p].want = n]
      ELSE proc' = Rescale(p, n, Size - n)
  BY DEF RollOn
<1> HIDE DEF p, n
<1>6. CASE fault \in {"keepsOriginal", "keepsCanary"}
  <2>1. proc' = [proc EXCEPT ![p].want = n]
    BY <1>5, <1>6
  <2>2. /\ SameWebs
        /\ \A q \in 1..Len(proc) :
             /\ proc'[q].live = proc[q].live /\ proc'[q].running = proc[q].running
             /\ proc'[q].want = IF q = p THEN n ELSE proc[q].want
    BY <1>3, <1>4, <2>1, WantEdit
  <2>3. QED  BY <1>1, <1>2, <1>3, <1>6, <2>2
<1>7. CASE fault \notin {"keepsOriginal", "keepsCanary"}
  <2>1. proc' = Rescale(p, n, Size - n)
    BY <1>5, <1>7
  <2>2. /\ SameWebs
        /\ \A q \in 1..Len(proc) :
             /\ proc'[q].live = proc[q].live /\ proc'[q].running = proc[q].running
             /\ q = p => proc'[q].want = n
    BY <1>3, <1>4, <2>1, RescaleEdit
  <2>3. fault = "oneInFlight" => proc'[d + 1].want <= proc[d + 1].want + 1
    BY <1>3, <1>4, <2>2
  <2>4. QED  BY <1>1, <1>2, <1>7, <2>2, <2>3
<1>8. QED  BY <1>6, <1>7

LEMMA FinishEffect ==
  ASSUME IInv, NEW d \in 1..Len(dep), Finish(d)
  PROVE  /\ CanFinish(d) /\ d = Len(dep) /\ Marked(d, "DEPLOYED") /\ SameWebs
         /\ fault = "noWorkerRestart" => started' = started
         /\ fault = "keepsOriginal" => proc' = proc
         /\ fault = "keepsCanary" /\ 2 \in 1..Len(proc) => proc'[2] = proc[2]
<1>1. CanFinish(d) /\ dep[d].status = "DEPLOYING"
      /\ (fault = "noWorkerRestart" => started' = started)
  BY DEF Finish, CanFinish
<1>2. d = Len(dep) /\ Marked(d, "DEPLOYED")
  <2>1. dep' = [dep EXCEPT ![d].status = "DEPLOYED"]
    BY DEF Finish
  <2>2. QED  BY <1>1, <2>1, MoverIsLast, Marks DEF Statuses
<1>3. d + 1 \in 1..Len(proc) /\ dep[d].proc = d + 1
  BY Known
<1>4. CASE fault = "keepsOriginal"
  <2>1. proc' = proc
    BY <1>4 DEF Finish
  <2>2. QED  BY <1>1, <1>2, <1>4, <2>1 DEF SameWebs
<1>5. CASE fault = "keepsCanary"
  <2>1. proc' = Keep({d + 1, 2})
    BY <1>3, <1>5 DEF Finish
  <2>2. QED  BY <1>1, <1>2, <1>3, <1>5, <2>1, KeepEdit
<1>6. CASE fault \notin {"keepsOriginal", "keepsCanary"}
  <2>1. proc' = Keep({d + 1})
    BY <1>3, <1>6 DEF Finish
  <2>2. QED  BY <1>1, <1>2, <1>3, <1>6, <2>1, KeepEdit
<1>7. QED  BY <1>4, <1>5, <1>6

LEMMA FinishCancelEffect ==
  ASSUME IInv, NEW d \in 1..Len(dep), FinishCancel(d)
  PROVE  /\ CanFinishCancel(d) /\ Marked(d, "CANCELED") /\ SameWebs /\ started' = started
         /\ fault = "keepsCanary" => proc' = proc
         /\ proc'[1] = proc[1]
<1>1. CanFinishCancel(d) /\ started' = started
  BY DEF FinishCancel, CanFinishCancel
<1>2. Marked(d, "CANCELED")
  <2>1. dep' = [dep EXCEPT ![d].status = "CANCELED"]
    BY DEF FinishCancel
  <2>2. QED  BY <2>1, Marks DEF Statuses
<1>3. 1 \in 1..Len(proc)
  BY Known
<1>4. CASE fault = "keepsCanary"
  <2>1. proc' = proc
    BY <1>4 DEF FinishCancel
  <2>2. QED  BY <1>1, <1>2, <2>1 DEF SameWebs
<1>5. CASE fault # "keepsCanary"
  <2>1. proc' = Keep({1})
    BY <1>5 DEF FinishCancel
  <2>2. QED  BY <1>1, <1>2, <1>3, <1>5, <2>1, KeepEdit
<1>6. QED  BY <1>4, <1>5

LEMMA UpdateEffect ==
  ASSUME IInv, NEW d \in 1..Len(dep), Update(d)
  PROVE  /\ UNCHANGED <<chosen, driver>> /\ fresh' = TRUE /\ fresh' \in BOOLEAN /\ Waited
         /\ Pause(d) \/ RollOn(d) \/ Finish(d) \/ FinishCancel(d)
BY DEF Update

LEMMA PostEffect ==
  ASSUME IInv, PostDeployment
  PROVE  /\ verdict = "running" /\ Spot.op = "create" /\ Advance /\ fresh' = TRUE
         /\ UNCHANGED <<chosen, noted, lucky, started>>
         /\ Len(dep) \in 0..1 /\ Len(dep') = Len(dep) + 1 /\ Len(proc') = Len(proc) + 1
         /\ \A e \in 1..Len(dep) :
              /\ dep'[e].strategy = dep[e].strategy /\ dep'[e].targets = dep[e].targets
              /\ dep'[e].step = dep[e].step
              /\ IF dep[e].status \in Final \/ fault = "neverSupersedes"
                   THEN dep'[e].status = dep[e].status
                   ELSE dep'[e].status = "SUPERSEDED"
         /\ dep'[Len(dep) + 1].strategy = Spot.strategy
         /\ dep'[Len(dep) + 1].targets = Spot.targets
         /\ dep'[Len(dep) + 1].step = 1
         /\ dep'[Len(dep) + 1].status = "DEPLOYING"
         /\ \A q \in 1..Len(proc) : proc'[q] = proc[q]
         /\ proc'[Len(dep) + 2].droplet = Spot.droplet
         /\ proc'[Len(dep) + 2].live
         /\ Spot.strategy = "canary" => proc'[Len(dep) + 2].want = Spot.targets[1]
         /\ Spot.strategy # "canary" /\ fault = "oneInFlight" => proc'[Len(dep) + 2].want = 1
<1> DEFINE old == [d \in 1..Len(dep) |->
                     IF dep[d].status \in Final \/ fault = "neverSupersedes" THEN dep[d]
                     ELSE [dep[d] EXCEPT !.status = "SUPERSEDED"]]
           one == [strategy |-> Spot.strategy, status |-> "DEPLOYING", step |-> 1,
                   targets |-> Spot.targets, mif |-> Spot.mif, proc |-> Len(proc) + 1]
           want == IF Spot.strategy = "canary" THEN Spot.targets[1]
                   ELSE IF fault = "oneInFlight" THEN 1
                   ELSE Least(Spot.mif, Size)
           web == [droplet |-> Spot.droplet, running |-> 0, live |-> TRUE, want |-> want]
<1>1. /\ verdict = "running" /\ Spot.op = "create" /\ Advance /\ fresh' = TRUE
      /\ UNCHANGED <<chosen, noted, lucky, started>> /\ Deploy(Spot)
  BY DEF PostDeployment, AtStep, GoOn
<1>2. dep' = Append(old, one) /\ proc' = Append(proc, web)
  BY <1>1 DEF Deploy
<1>3. /\ proc \in Seq(Procs) /\ Len(dep) \in 0..1 /\ Len(proc) = Len(dep) + 1
      /\ \A d \in 1..Len(dep) : dep[d] \in Deps
      /\ Len(dep') = Len(dep) + 1 /\ Len(proc') = Len(proc) + 1
  BY <1>1, Known, RoomForOne, DeployShapes
<1>4. /\ one.strategy = Spot.strategy /\ one.targets = Spot.targets /\ one.step = 1
      /\ one.status = "DEPLOYING"
  OBVIOUS
<1>5. web.droplet = Spot.droplet /\ web.live /\ web.want = want
  OBVIOUS
<1>6. \A d \in 1..Len(dep) :
        old[d] = IF dep[d].status \in Final \/ fault = "neverSupersedes" THEN dep[d]
                 ELSE [dep[d] EXCEPT !.status = "SUPERSEDED"]
  OBVIOUS
<1>7. DOMAIN old = 1..Len(dep)
  OBVIOUS
<1> HIDE DEF old, one, web
<1>8. \A d \in 1..Len(dep) :
        /\ old[d].strategy = dep[d].strategy /\ old[d].targets = dep[d].targets
        /\ old[d].step = dep[d].step
        /\ IF dep[d].status \in Final \/ fault = "neverSupersedes"
             THEN old[d].status = dep[d].status
             ELSE old[d].status = "SUPERSEDED"
  <2> SUFFICES ASSUME NEW d \in 1..Len(dep)
      PROVE  /\ old[d].strategy = dep[d].strategy /\ old[d].targets = dep[d].targets
             /\ old[d].step = dep[d].step
             /\ IF dep[d].status \in Final \/ fault = "neverSupersedes"
                  THEN old[d].status = dep[d].status
                  ELSE old[d].status = "SUPERSEDED"
    OBVIOUS
  <2>1. dep[d] \in Deps
    BY <1>3
  <2>2. CASE dep[d].status \in Final \/ fault = "neverSupersedes"
    BY <1>6, <2>2
  <2>3. CASE ~(dep[d].status \in Final \/ fault = "neverSupersedes")
    <3>1. old[d] = [dep[d] EXCEPT !.status = "SUPERSEDED"]
      BY <1>6, <2>3
    <3>2. QED  BY <2>1, <2>3, <3>1 DEF Deps
  <2>4. QED  BY <2>2, <2>3
<1> DEFINE Olds == {old[d] : d \in 1..Len(dep)}
<1>9. old \in Seq(Olds) /\ Len(old) = Len(dep)
  <2>1. old = [d \in 1..Len(dep) |-> old[d]] /\ Len(dep) \in Nat
    BY <1>3 DEF old
  <2>2. \A d \in 1..Len(dep) : old[d] \in Olds
    OBVIOUS
  <2> HIDE DEF Olds
  <2>3. QED  BY <2>1, <2>2, SeqOf, Zenon
<1> HIDE DEF Olds
<1>10. /\ \A d \in 1..Len(dep) : dep'[d] = old[d]
       /\ dep'[Len(dep) + 1] = one
  BY <1>2, <1>9 DEF old
<1>11. /\ \A q \in 1..Len(proc) : proc'[q] = proc[q]
       /\ proc'[Len(dep) + 2] = web
  <2>1. /\ \A q \in 1..Len(proc) : proc'[q] = proc[q]
        /\ proc'[Len(proc) + 1] = web
    BY <1>2, <1>3
  <2>2. Len(proc) + 1 = Len(dep) + 2
    BY <1>3
  <2>3. QED  BY <2>1, <2>2
<1>12. /\ Spot.strategy = "canary" => want = Spot.targets[1]
       /\ Spot.strategy # "canary" /\ fault = "oneInFlight" => want = 1
  OBVIOUS
<1> HIDE DEF want
<1>13. QED  BY <1>1, <1>3, <1>4, <1>5, <1>8, <1>10, <1>11, <1>12

LEMMA ContinueEffect ==
  ASSUME IInv, ContinueDeployment
  PROVE  /\ verdict = "running" /\ Spot.op = "continue" /\ Advance /\ fresh' = TRUE
         /\ UNCHANGED <<chosen, noted, lucky, started>> /\ SameWebs
         /\ Len(dep) = 1 /\ Len(dep') = 1 /\ Len(proc) = 2 /\ dep[1].status = "PAUSED"
         /\ dep'[1].status = "DEPLOYING"
         /\ dep'[1].strategy = dep[1].strategy /\ dep'[1].targets = dep[1].targets
         /\ dep'[1].step = IF fault = "skipsSteps" THEN Len(dep[1].targets) + 1
                           ELSE dep[1].step + 1
         /\ \A q \in 1..2 : proc'[q].live = proc[q].live /\ proc'[q].running = proc[q].running
         /\ proc[1].want > 0 => proc'[1].want > 0
         /\ dep'[1].step <= Len(dep[1].targets) /\ fault = "oneCanary" => proc'[2].want = 1
         /\ ~(dep'[1].step <= Len(dep[1].targets)) => proc' = proc
<1>1. verdict = "running" /\ Spot.op = "continue" /\ UNCHANGED <<chosen, started>>
  BY DEF ContinueDeployment, AtStep
<1>2. /\ Len(dep) = 1 /\ dep[1].status = "PAUSED" /\ dep[1] \in Deps
      /\ dep[1].proc = 2 /\ Len(proc) = 2 /\ Instances \in Nat \ {0}
      /\ dep \in Seq(Deps)
  BY <1>1, AskedWhenPaused, Known
<1> DEFINE d == dep[1]
           step == IF fault = "skipsSteps" THEN Len(d.targets) + 1 ELSE d.step + 1
           n == IF fault = "oneCanary" THEN 1 ELSE d.targets[step]
           v == [d EXCEPT !.status = "DEPLOYING", !.step = step]
<1>3. /\ dep' = [dep EXCEPT ![1].status = "DEPLOYING", ![1].step = step]
      /\ proc' = IF step <= Len(d.targets) THEN Rescale(2, n, Instances - n + 1) ELSE proc
      /\ Advance /\ fresh' = TRUE /\ noted' = noted
      /\ lucky' = lucky
  BY <1>2 DEF ContinueDeployment, GoOn
<1>4. dep' = [dep EXCEPT ![1] = v]
  BY <1>2, <1>3
<1>5. d.targets \in Seq(1..Instances) /\ Len(d.targets) \in Nat /\ d.step \in Nat \ {0}
  <2>1. d.targets \in Seq(1..Instances) /\ d.step \in Nat \ {0}
    BY <1>2 DEF Deps
  <2> HIDE DEF d
  <2>2. QED  BY <2>1, LenProperties
<1>6. step \in Nat \ {0}
  <2> HIDE DEF d
  <2>1. QED  BY <1>5
<1>7. /\ v \in Deps /\ v.status = "DEPLOYING" /\ v.step = step
      /\ v.strategy = d.strategy /\ v.targets = d.targets
  <2>1. d \in Deps
    BY <1>2
  <2> HIDE DEF d, step
  <2>2. QED  BY <1>6, <2>1 DEF Deps, Statuses
<1>8. Len(dep') = 1 /\ dep'[1] = v
  <2>1. 1 \in 1..Len(dep)
    BY <1>2
  <2> HIDE DEF v
  <2>2. QED  BY <1>2, <1>4, <1>7, <2>1, EditSeq
<1> HIDE DEF v
<1>9. step <= Len(d.targets) => n \in 1..Instances /\ Instances - n + 1 \in 1..Instances
  <2>1. ASSUME step <= Len(d.targets) PROVE n \in 1..Instances
    <3>1. step \in 1..Len(d.targets)
      <4> HIDE DEF d, step
      <4>1. QED  BY <1>5, <1>6, <2>1
    <3> HIDE DEF step, d
    <3>2. d.targets[step] \in 1..Instances
      BY <1>5, <3>1, ElementOfSeq
    <3>3. 1 \in 1..Instances
      BY <1>2
    <3>4. QED  BY <3>2, <3>3
  <2> HIDE DEF n, step, d
  <2>2. QED  BY <1>2, <2>1
<1>10. fault = "oneCanary" => n = 1
  OBVIOUS
<1>11. step = IF fault = "skipsSteps" THEN Len(dep[1].targets) + 1 ELSE dep[1].step + 1
  OBVIOUS
<1> HIDE DEF n, step
<1>12. CASE step <= Len(d.targets)
  <2>1. 2 \in 1..Len(proc) /\ n \in 0..Instances /\ Instances - n + 1 \in 0..Instances
    BY <1>2, <1>9, <1>12
  <2>2. proc' = Rescale(2, n, Instances - n + 1)
    BY <1>3, <1>12
  <2>3. /\ SameWebs
        /\ \A q \in 1..Len(proc) :
             /\ proc'[q].live = proc[q].live /\ proc'[q].running = proc[q].running
             /\ proc'[q].want = IF q = 2 THEN n
                                ELSE IF proc[q].live THEN Instances - n + 1 ELSE proc[q].want
    <3> DEFINE m == Instances - n + 1
    <3>1. m \in 0..Instances /\ proc' = Rescale(2, n, m)
      BY <2>1, <2>2
    <3> HIDE DEF m
    <3>2. /\ SameWebs
          /\ \A q \in 1..Len(proc) :
               /\ proc'[q].live = proc[q].live /\ proc'[q].running = proc[q].running
               /\ proc'[q].want = IF q = 2 THEN n ELSE IF proc[q].live THEN m ELSE proc[q].want
      BY <2>1, <3>1, RescaleEdit
    <3>3. QED  BY <3>2 DEF m
  <2>4. /\ proc'[1].want = (IF proc[1].live THEN Instances - n + 1 ELSE proc[1].want)
        /\ proc'[2].want = n
        /\ \A q \in 1..2 : proc'[q].live = proc[q].live /\ proc'[q].running = proc[q].running
    BY <1>2, <2>3
  <2>5. Instances - n + 1 > 0
    BY <1>2, <1>9, <1>12
  <2>6. proc[1].want > 0 => proc'[1].want > 0
    BY <2>4, <2>5
  <2>7. QED  BY <1>1, <1>2, <1>3, <1>7, <1>8, <1>10, <1>11, <1>12, <2>3, <2>4, <2>6
<1>13. CASE ~(step <= Len(d.targets))
  <2>1. proc' = proc
    BY <1>3, <1>13
  <2>2. QED  BY <1>1, <1>2, <1>3, <1>7, <1>8, <1>11, <1>13, <2>1 DEF SameWebs
<1>14. QED  BY <1>12, <1>13

LEMMA CancelEffect ==
  ASSUME IInv, CancelDeployment
  PROVE  /\ verdict = "running" /\ Spot.op = "cancel" /\ Advance /\ fresh' = TRUE
         /\ UNCHANGED <<chosen, noted, lucky, started>> /\ SameWebs
         /\ Len(dep) = 1 /\ Len(proc) = 2 /\ dep[1].status = "PAUSED"
         /\ Marked(1, "CANCELING")
         /\ \A q \in 1..2 : proc'[q].live = proc[q].live /\ proc'[q].running = proc[q].running
         /\ proc'[1].want > 0 /\ proc'[2].want = proc[2].want
<1>1. verdict = "running" /\ Spot.op = "cancel" /\ UNCHANGED <<chosen, started>>
  BY DEF CancelDeployment, AtStep
<1>2. /\ Len(dep) = 1 /\ dep[1].status = "PAUSED"
      /\ Len(proc) = 2 /\ Instances \in Nat \ {0}
  BY <1>1, AskedWhenPaused
<1>3. /\ dep' = [dep EXCEPT ![1].status = "CANCELING"]
      /\ proc' = [proc EXCEPT ![1].want = Instances]
      /\ Advance /\ fresh' = TRUE /\ noted' = noted /\ lucky' = lucky
  BY <1>2 DEF CancelDeployment, GoOn, Final
<1>4. /\ 1 \in 1..Len(dep) /\ "CANCELING" \in Statuses
      /\ 1 \in 1..Len(proc) /\ Instances \in 0..Instances
  BY <1>2 DEF Statuses
<1>5. Marked(1, "CANCELING")
  BY <1>3, <1>4, Marks
<1>6. /\ SameWebs
      /\ \A q \in 1..Len(proc) :
           /\ proc'[q].live = proc[q].live /\ proc'[q].running = proc[q].running
           /\ proc'[q].want = IF q = 1 THEN Instances ELSE proc[q].want
  BY <1>3, <1>4, WantEdit
<1>7. QED  BY <1>1, <1>2, <1>3, <1>5, <1>6

\* The steps that only look, or set what nothing depends on.
LooksOnly ==
  \/ SetHealthCheckTimeoutOnProcess \/ NoteProcesses \/ Poll \/ Check \/ SleepOver
  \/ Timeout \/ Hiccup \/ Misread

LEMMA LooksEffect ==
  ASSUME LooksOnly
  PROVE  verdict = "running" /\ UNCHANGED <<chosen, dep, proc, started>>
BY DEF LooksOnly, SetHealthCheckTimeoutOnProcess, NoteProcesses, Poll, Check, SleepOver,
       Timeout, Hiccup, Misread, AtStep

\* ScaleApp comes before the first deployment of a spec without a loop or a note.
LEMMA ScaleEffect ==
  ASSUME IInv, ScaleApp
  PROVE  /\ verdict = "running" /\ Spot.op = "scale" /\ Advance /\ scenario = "rolling"
         /\ UNCHANGED <<chosen, noted, lucky, fresh, dep, started>>
         /\ Len(dep) = 0 /\ SameWebs
<1>1. /\ verdict = "running" /\ Spot.op = "scale" /\ Advance
      /\ UNCHANGED <<chosen, noted, lucky, fresh, dep, started>>
      /\ proc' = [proc EXCEPT ![1].want = Size]
  BY DEF ScaleApp, AtStep, GoOn
<1>2. /\ pc \in 1..Len(Script(scenario)) /\ PreparesInOrder(scenario)
      /\ Len(dep) = (IF pc <= First(scenario) THEN 0
                     ELSE IF scenario = "supersede" /\ pc > 7 THEN 2 ELSE 1)
  BY <1>1, Known DEF IInv, PlaceInv, DepInv, Order
<1>3. pc < First(scenario) /\ scenario = "rolling"
  BY <1>1, <1>2 DEF PreparesInOrder, Spot
<1>4. Len(dep) = 0
  BY <1>2, <1>3 DEF First
<1>5. 1 \in 1..Len(proc) /\ Size \in 0..Instances
  BY Known, SizeFits
<1>6. SameWebs
  BY <1>1, <1>5, WantEdit
<1>7. QED  BY <1>1, <1>3, <1>4, <1>6

LEMMA NoteWorkerEffect ==
  ASSUME NoteWorkerStart
  PROVE  /\ verdict = "running" /\ Spot.op = "noteWorker" /\ Advance
         /\ UNCHANGED <<chosen, noted, lucky, fresh, dep, proc>>
         /\ started' \in {{}, {"old"}}
BY DEF NoteWorkerStart, AtStep, GoOn

-----------------------------------------------------------------------------
(* The step each broken promise ends a spec at. *)

\* What that step looks for.
Ends(f) ==
  CASE f \in {"neverPauses", "skipsSteps"} -> Status(1, "PAUSED")
    [] f = "losesOriginal" -> Serves("dora")
    [] f = "keepsOriginal" -> Only("static")
    [] f = "keepsCanary" -> Never("static")
    [] f = "noWorkerRestart" -> WorkerStarted
    [] f = "neverSupersedes" -> Status(1, "SUPERSEDED")
    [] f = "oneCanary" -> Running("canary", 2)
    [] f = "neverDeploys" -> Status(1, "DEPLOYED")
    [] f = "oneInFlight" -> Wants(MaxInFlight)
    [] f \in {"deploysBlindly", "healthyBlindly"} -> Is(1, "DEPLOYING")

\* The first two turns of the loop.
LEMMA TwoTurns ==
  ASSUME AsWritten
  PROVE  LET q == Script("steps") IN
         /\ Len(q) \in Nat /\ Len(q) > 22
         /\ q[1] = Serves("dora") /\ q[2] = NoteWorker
         /\ q[3] = Create("canary", "static", StepTargets, 1)
         /\ q[4] = TwoWebs /\ q[5] = Status(1, "PAUSED")
         /\ q[6] = Serves("static") /\ q[7] = Serves("dora") /\ q[8] = Note
         /\ q[9] = Running("canary", 1) /\ q[10] = Continue /\ q[11] = Status(1, "DEPLOYING")
         /\ q[12] = Status(1, "PAUSED") /\ q[13] = Serves("static") /\ q[14] = Serves("dora")
         /\ q[15] = Note /\ q[16] = Running("canary", 2)
         /\ q[Len(q) - 1] = Only("static") /\ q[Len(q)] = WorkerStarted
<1> DEFINE q == Script("steps")
           n == Len(StepTargets)
<1>1. n \in Nat /\ n > 1
  BY DeploymentsAssumption DEF AsWritten
<1>2. /\ Len(q) = 7 * n + 9
      /\ q[1] = Serves("dora") /\ q[2] = NoteWorker
      /\ q[3] = Create("canary", "static", StepTargets, 1) /\ q[4] = TwoWebs
      /\ q[7 * n + 8] = Only("static") /\ q[7 * n + 9] = WorkerStarted
  BY StepsScriptSteps
<1>3. ASSUME NEW t \in 1..n, NEW j \in 1..7
      PROVE  q[4 + (7 * (t - 1) + j)] = Turn(t)[j]
  BY StepsScriptSteps
<1> HIDE DEF q, n
<1>4. 1 \in 1..n /\ 2 \in 1..n
  BY <1>1
<1>5. \A j \in 1..7 : q[4 + j] = Turn(1)[j] /\ q[11 + j] = Turn(2)[j]
  <2> TAKE j \in 1..7
  <2>1. 4 + (7 * (1 - 1) + j) = 4 + j /\ 4 + (7 * (2 - 1) + j) = 11 + j
    OBVIOUS
  <2>2. q[4 + (7 * (1 - 1) + j)] = Turn(1)[j] /\ q[4 + (7 * (2 - 1) + j)] = Turn(2)[j]
    BY <1>3, <1>4
  <2>3. QED  BY <2>1, <2>2
<1>6. /\ q[5] = Turn(1)[1] /\ q[6] = Turn(1)[2] /\ q[7] = Turn(1)[3] /\ q[8] = Turn(1)[4]
      /\ q[9] = Turn(1)[5] /\ q[10] = Turn(1)[6] /\ q[11] = Turn(1)[7]
      /\ q[12] = Turn(2)[1] /\ q[13] = Turn(2)[2] /\ q[14] = Turn(2)[3]
      /\ q[15] = Turn(2)[4] /\ q[16] = Turn(2)[5]
  BY <1>5
<1>7. Len(q) \in Nat /\ Len(q) > 22 /\ Len(q) - 1 = 7 * n + 8
  BY <1>1, <1>2
<1>8. QED  BY <1>2, <1>6, <1>7, TurnSteps DEF q

LEMMA AtTheEnd ==
  ASSUME AsWritten, NEW s \in Specs, NEW f \in Broken(s)
  PROVE  /\ DeadEnd(s, f) \in 1..Len(Script(s)) /\ Script(s)[DeadEnd(s, f)] = Ends(f)
         /\ f # "none" /\ DeadEnd(s, f) > First(s)
<1>1. CASE s = "continue"
  <2> DEFINE q == Script("continue")
  <2>1. f \in {"neverPauses", "losesOriginal", "keepsOriginal", "noWorkerRestart"}
    BY <1>1 DEF Broken
  <2>2. /\ Len(q) = 14
        /\ q[5] = Status(1, "PAUSED")
        /\ q[7] = Serves("dora")
        /\ q[13] = Only("static")
        /\ q[14] = WorkerStarted
    BY ContinueScriptSteps
  <2> HIDE DEF q
  <2>3. q = Script(s)
    BY <1>1 DEF q
  <2>4. CASE f = "neverPauses"
    <3>1. DeadEnd(s, f) = 5 /\ Ends(f) = Status(1, "PAUSED") /\ f # "none"
      BY <1>1, <2>3, <2>4 DEF DeadEnd, Ends, First
    <3>2. 5 \in 1..Len(q) /\ q[5] = Status(1, "PAUSED") /\ 5 > First(s)
      BY <1>1, <2>2 DEF First
    <3>3. QED  BY <2>3, <3>1, <3>2
  <2>5. CASE f = "losesOriginal"
    <3>1. DeadEnd(s, f) = 7 /\ Ends(f) = Serves("dora") /\ f # "none"
      BY <1>1, <2>3, <2>5 DEF DeadEnd, Ends, First
    <3>2. 7 \in 1..Len(q) /\ q[7] = Serves("dora") /\ 7 > First(s)
      BY <1>1, <2>2 DEF First
    <3>3. QED  BY <2>3, <3>1, <3>2
  <2>6. CASE f = "keepsOriginal"
    <3>1. DeadEnd(s, f) = Len(q) - 1 /\ Ends(f) = Only("static") /\ f # "none"
      BY <1>1, <2>3, <2>6 DEF DeadEnd, Ends, First
    <3>2. Len(q) - 1 \in 1..Len(q) /\ q[Len(q) - 1] = Only("static") /\ Len(q) - 1 > First(s)
      BY <1>1, <2>2 DEF First
    <3>3. QED  BY <2>3, <3>1, <3>2
  <2>7. CASE f = "noWorkerRestart"
    <3>1. DeadEnd(s, f) = Len(q) /\ Ends(f) = WorkerStarted /\ f # "none"
      BY <1>1, <2>3, <2>7 DEF DeadEnd, Ends, First
    <3>2. Len(q) \in 1..Len(q) /\ q[Len(q)] = WorkerStarted /\ Len(q) > First(s)
      BY <1>1, <2>2 DEF First
    <3>3. QED  BY <2>3, <3>1, <3>2
  <2>8. QED  BY <2>1, <2>4, <2>5, <2>6, <2>7
<1>2. CASE s = "cancel"
  <2> DEFINE q == Script("cancel")
  <2>1. f \in {"neverPauses", "losesOriginal", "keepsCanary"}
    BY <1>2 DEF Broken
  <2>2. /\ Len(q) = 13
        /\ q[4] = Status(1, "PAUSED")
        /\ q[6] = Serves("dora")
        /\ q[12] = Never("static")
    BY CancelScriptSteps
  <2> HIDE DEF q
  <2>3. q = Script(s)
    BY <1>2 DEF q
  <2>4. CASE f = "neverPauses"
    <3>1. DeadEnd(s, f) = 4 /\ Ends(f) = Status(1, "PAUSED") /\ f # "none"
      BY <1>2, <2>3, <2>4 DEF DeadEnd, Ends, First
    <3>2. 4 \in 1..Len(q) /\ q[4] = Status(1, "PAUSED") /\ 4 > First(s)
      BY <1>2, <2>2 DEF First
    <3>3. QED  BY <2>3, <3>1, <3>2
  <2>5. CASE f = "losesOriginal"
    <3>1. DeadEnd(s, f) = 6 /\ Ends(f) = Serves("dora") /\ f # "none"
      BY <1>2, <2>3, <2>5 DEF DeadEnd, Ends, First
    <3>2. 6 \in 1..Len(q) /\ q[6] = Serves("dora") /\ 6 > First(s)
      BY <1>2, <2>2 DEF First
    <3>3. QED  BY <2>3, <3>1, <3>2
  <2>6. CASE f = "keepsCanary"
    <3>1. DeadEnd(s, f) = Len(q) - 1 /\ Ends(f) = Never("static") /\ f # "none"
      BY <1>2, <2>3, <2>6 DEF DeadEnd, Ends, First
    <3>2. Len(q) - 1 \in 1..Len(q) /\ q[Len(q) - 1] = Never("static") /\ Len(q) - 1 > First(s)
      BY <1>2, <2>2 DEF First
    <3>3. QED  BY <2>3, <3>1, <3>2
  <2>7. QED  BY <2>1, <2>4, <2>5, <2>6
<1>3. CASE s = "supersede"
  <2> DEFINE q == Script("supersede")
  <2>1. f \in {"neverPauses", "neverSupersedes", "keepsCanary"}
    BY <1>3 DEF Broken
  <2>2. /\ Len(q) = 13
        /\ q[4] = Status(1, "PAUSED")
        /\ q[8] = Status(1, "SUPERSEDED")
        /\ q[12] = Never("static")
    BY SupersedeScriptSteps
  <2> HIDE DEF q
  <2>3. q = Script(s)
    BY <1>3 DEF q
  <2>4. CASE f = "neverPauses"
    <3>1. DeadEnd(s, f) = 4 /\ Ends(f) = Status(1, "PAUSED") /\ f # "none"
      BY <1>3, <2>3, <2>4 DEF DeadEnd, Ends, First
    <3>2. 4 \in 1..Len(q) /\ q[4] = Status(1, "PAUSED") /\ 4 > First(s)
      BY <1>3, <2>2 DEF First
    <3>3. QED  BY <2>3, <3>1, <3>2
  <2>5. CASE f = "neverSupersedes"
    <3>1. DeadEnd(s, f) = 8 /\ Ends(f) = Status(1, "SUPERSEDED") /\ f # "none"
      BY <1>3, <2>3, <2>5 DEF DeadEnd, Ends, First
    <3>2. 8 \in 1..Len(q) /\ q[8] = Status(1, "SUPERSEDED") /\ 8 > First(s)
      BY <1>3, <2>2 DEF First
    <3>3. QED  BY <2>3, <3>1, <3>2
  <2>6. CASE f = "keepsCanary"
    <3>1. DeadEnd(s, f) = Len(q) - 1 /\ Ends(f) = Never("static") /\ f # "none"
      BY <1>3, <2>3, <2>6 DEF DeadEnd, Ends, First
    <3>2. Len(q) - 1 \in 1..Len(q) /\ q[Len(q) - 1] = Never("static") /\ Len(q) - 1 > First(s)
      BY <1>3, <2>2 DEF First
    <3>3. QED  BY <2>3, <3>1, <3>2
  <2>7. QED  BY <2>1, <2>4, <2>5, <2>6
<1>4. CASE s = "steps"
  <2> DEFINE q == Script("steps")
  <2>1. f \in {"neverPauses", "losesOriginal", "keepsOriginal", "noWorkerRestart", "skipsSteps", "oneCanary"}
    BY <1>4 DEF Broken
  <2>2. /\ Len(q) \in Nat /\ Len(q) > 22
        /\ q[5] = Status(1, "PAUSED")
        /\ q[7] = Serves("dora")
        /\ q[Len(q) - 1] = Only("static")
        /\ q[Len(q)] = WorkerStarted
        /\ q[12] = Status(1, "PAUSED")
        /\ q[16] = Running("canary", 2)
    BY TwoTurns
  <2> HIDE DEF q
  <2>3. q = Script(s)
    BY <1>4 DEF q
  <2>4. CASE f = "neverPauses"
    <3>1. DeadEnd(s, f) = 5 /\ Ends(f) = Status(1, "PAUSED") /\ f # "none"
      BY <1>4, <2>3, <2>4 DEF DeadEnd, Ends, First
    <3>2. 5 \in 1..Len(q) /\ q[5] = Status(1, "PAUSED") /\ 5 > First(s)
      BY <1>4, <2>2 DEF First
    <3>3. QED  BY <2>3, <3>1, <3>2
  <2>5. CASE f = "losesOriginal"
    <3>1. DeadEnd(s, f) = 7 /\ Ends(f) = Serves("dora") /\ f # "none"
      BY <1>4, <2>3, <2>5 DEF DeadEnd, Ends, First
    <3>2. 7 \in 1..Len(q) /\ q[7] = Serves("dora") /\ 7 > First(s)
      BY <1>4, <2>2 DEF First
    <3>3. QED  BY <2>3, <3>1, <3>2
  <2>6. CASE f = "keepsOriginal"
    <3>1. DeadEnd(s, f) = Len(q) - 1 /\ Ends(f) = Only("static") /\ f # "none"
      BY <1>4, <2>3, <2>6 DEF DeadEnd, Ends, First
    <3>2. Len(q) - 1 \in 1..Len(q) /\ q[Len(q) - 1] = Only("static") /\ Len(q) - 1 > First(s)
      BY <1>4, <2>2 DEF First
    <3>3. QED  BY <2>3, <3>1, <3>2
  <2>7. CASE f = "noWorkerRestart"
    <3>1. DeadEnd(s, f) = Len(q) /\ Ends(f) = WorkerStarted /\ f # "none"
      BY <1>4, <2>3, <2>7 DEF DeadEnd, Ends, First
    <3>2. Len(q) \in 1..Len(q) /\ q[Len(q)] = WorkerStarted /\ Len(q) > First(s)
      BY <1>4, <2>2 DEF First
    <3>3. QED  BY <2>3, <3>1, <3>2
  <2>8. CASE f = "skipsSteps"
    <3>1. DeadEnd(s, f) = 12 /\ Ends(f) = Status(1, "PAUSED") /\ f # "none"
      BY <1>4, <2>3, <2>8 DEF DeadEnd, Ends, First
    <3>2. 12 \in 1..Len(q) /\ q[12] = Status(1, "PAUSED") /\ 12 > First(s)
      BY <1>4, <2>2 DEF First
    <3>3. QED  BY <2>3, <3>1, <3>2
  <2>9. CASE f = "oneCanary"
    <3>1. DeadEnd(s, f) = 16 /\ Ends(f) = Running("canary", 2) /\ f # "none"
      BY <1>4, <2>3, <2>9 DEF DeadEnd, Ends, First
    <3>2. 16 \in 1..Len(q) /\ q[16] = Running("canary", 2) /\ 16 > First(s)
      BY <1>4, <2>2 DEF First
    <3>3. QED  BY <2>3, <3>1, <3>2
  <2>10. QED  BY <2>1, <2>4, <2>5, <2>6, <2>7, <2>8, <2>9
<1>5. CASE s = "rolling"
  <2> DEFINE q == Script("rolling")
  <2>1. f \in {"neverDeploys"}
    BY <1>5 DEF Broken
  <2>2. /\ Len(q) = 4
        /\ q[4] = Status(1, "DEPLOYED")
    BY RollingScriptSteps
  <2> HIDE DEF q
  <2>3. q = Script(s)
    BY <1>5 DEF q
  <2>4. CASE f = "neverDeploys"
    <3>1. DeadEnd(s, f) = 4 /\ Ends(f) = Status(1, "DEPLOYED") /\ f # "none"
      BY <1>5, <2>3, <2>4 DEF DeadEnd, Ends, First
    <3>2. 4 \in 1..Len(q) /\ q[4] = Status(1, "DEPLOYED") /\ 4 > First(s)
      BY <1>5, <2>2 DEF First
    <3>3. QED  BY <2>3, <3>1, <3>2
  <2>5. QED  BY <2>1, <2>4
<1>6. CASE s = "inFlight"
  <2> DEFINE q == Script("inFlight")
  <2>1. f \in {"oneInFlight"}
    BY <1>6 DEF Broken
  <2>2. /\ Len(q) = 6
        /\ q[5] = Wants(MaxInFlight)
    BY InFlightScriptSteps
  <2> HIDE DEF q
  <2>3. q = Script(s)
    BY <1>6 DEF q
  <2>4. CASE f = "oneInFlight"
    <3>1. DeadEnd(s, f) = 5 /\ Ends(f) = Wants(MaxInFlight) /\ f # "none"
      BY <1>6, <2>3, <2>4 DEF DeadEnd, Ends, First
    <3>2. 5 \in 1..Len(q) /\ q[5] = Wants(MaxInFlight) /\ 5 > First(s)
      BY <1>6, <2>2 DEF First
    <3>3. QED  BY <2>3, <3>1, <3>2
  <2>5. QED  BY <2>1, <2>4
<1>7. CASE s = "inFlightCanary"
  <2> DEFINE q == Script("inFlightCanary")
  <2>1. f \in {"neverPauses", "oneInFlight"}
    BY <1>7 DEF Broken
  <2>2. /\ Len(q) = 9
        /\ q[4] = Status(1, "PAUSED")
        /\ q[8] = Wants(MaxInFlight)
    BY InFlightCanaryScriptSteps
  <2> HIDE DEF q
  <2>3. q = Script(s)
    BY <1>7 DEF q
  <2>4. CASE f = "neverPauses"
    <3>1. DeadEnd(s, f) = 4 /\ Ends(f) = Status(1, "PAUSED") /\ f # "none"
      BY <1>7, <2>3, <2>4 DEF DeadEnd, Ends, First
    <3>2. 4 \in 1..Len(q) /\ q[4] = Status(1, "PAUSED") /\ 4 > First(s)
      BY <1>7, <2>2 DEF First
    <3>3. QED  BY <2>3, <3>1, <3>2
  <2>5. CASE f = "oneInFlight"
    <3>1. DeadEnd(s, f) = 8 /\ Ends(f) = Wants(MaxInFlight) /\ f # "none"
      BY <1>7, <2>3, <2>5 DEF DeadEnd, Ends, First
    <3>2. 8 \in 1..Len(q) /\ q[8] = Wants(MaxInFlight) /\ 8 > First(s)
      BY <1>7, <2>2 DEF First
    <3>3. QED  BY <2>3, <3>1, <3>2
  <2>6. QED  BY <2>1, <2>4, <2>5
<1>8. CASE s = "badDroplet"
  <2> DEFINE q == Script("badDroplet")
  <2>1. f \in {"deploysBlindly", "healthyBlindly"}
    BY <1>8 DEF Broken
  <2>2. /\ Len(q) = 3
        /\ q[3] = Is(1, "DEPLOYING")
    BY BadDropletScriptSteps
  <2> HIDE DEF q
  <2>3. q = Script(s)
    BY <1>8 DEF q
  <2>4. CASE f = "deploysBlindly"
    <3>1. DeadEnd(s, f) = 3 /\ Ends(f) = Is(1, "DEPLOYING") /\ f # "none"
      BY <1>8, <2>3, <2>4 DEF DeadEnd, Ends, First
    <3>2. 3 \in 1..Len(q) /\ q[3] = Is(1, "DEPLOYING") /\ 3 > First(s)
      BY <1>8, <2>2 DEF First
    <3>3. QED  BY <2>3, <3>1, <3>2
  <2>5. CASE f = "healthyBlindly"
    <3>1. DeadEnd(s, f) = 3 /\ Ends(f) = Is(1, "DEPLOYING") /\ f # "none"
      BY <1>8, <2>3, <2>5 DEF DeadEnd, Ends, First
    <3>2. 3 \in 1..Len(q) /\ q[3] = Is(1, "DEPLOYING") /\ 3 > First(s)
      BY <1>8, <2>2 DEF First
    <3>3. QED  BY <2>3, <3>1, <3>2
  <2>6. QED  BY <2>1, <2>4, <2>5
<1>9. QED  BY <1>1, <1>2, <1>3, <1>4, <1>5, <1>6, <1>7, <1>8 DEF Specs

\* What the first deployment of a spec is made with.
LEMMA FirstMade ==
  ASSUME NEW s \in Specs
  PROVE  LET c == Script(s)[First(s)] IN
         /\ s \in {"continue", "cancel", "supersede"} =>
              c.strategy = "canary" /\ c.targets = <<1>> /\ c.droplet = "static"
         /\ s = "steps" =>
              c.strategy = "canary" /\ c.targets = StepTargets /\ c.droplet = "static"
         /\ s = "inFlightCanary" => c.strategy = "canary" /\ c.targets = <<1>>
         /\ s \in {"inFlight", "badDroplet"} => c.strategy = "rolling"
<1>1. CASE s \in {"continue", "cancel", "supersede"}
  BY <1>1, ContinueScriptSteps, CancelScriptSteps, SupersedeScriptSteps DEF First, Create
<1>2. CASE s = "steps"
  BY <1>2, StepsScriptSteps DEF First, Create
<1>3. CASE s \in {"inFlight", "inFlightCanary", "badDroplet"}
  BY <1>3, InFlightScriptSteps, InFlightCanaryScriptSteps, BadDropletScriptSteps
     DEF First, Create
<1>4. CASE s = "rolling"
  BY <1>4
<1>5. QED  BY <1>1, <1>2, <1>3, <1>4 DEF Specs

-----------------------------------------------------------------------------
(* The steps of a spec that still runs. *)

\* A look that leaves the spec where it is.
Stays ==
  /\ UNCHANGED <<pc, noted, dep, proc, started>> /\ fresh' = FALSE
  /\ \/ Spot.op \in Awaited /\ ~Sure
     \/ Spot.op \in {"never", "wants"} /\ Seen

\* A look, a note, a sleep or another step after which the spec goes on.
GoesOn ==
  /\ Advance /\ UNCHANGED <<dep, proc>>
  /\ Spot.op # "noteWorker" => started' = started
  /\ \/ Spot.op = "note" /\ fresh' = FALSE /\ noted'.canary = Newest
     \/ Spot.op = "sleep" /\ Idle /\ UNCHANGED <<noted, fresh>>
     \/ /\ Spot.op \in Awaited \cup Asserted /\ Seen /\ noted' = noted /\ fresh' = FALSE
        /\ Spot.op \in {"only", "never"} /\ ~Sure => lucky'
     \/ Spot.op = "healthTimeout" /\ UNCHANGED <<noted, fresh>>
     \/ Spot.op = "noteWorker" /\ UNCHANGED <<noted, fresh>> /\ started' \in {{}, {"old"}}
     \/ Spot.op = "wantsNot" /\ pace = "any" /\ UNCHANGED <<noted, fresh>>

\* Nothing that the spec depends on changes, save what a neighbour does.
Aside ==
  /\ UNCHANGED <<pc, noted, fresh, dep, proc>>
  /\ started' \in {started, started \cup {"other"}}

LEMMA ChosenOnce == ASSUME [Next]_vars PROVE UNCHANGED chosen
BY DEF Next, Platform, Diego, Update, Neighbour, Driver, ScaleApp,
       SetHealthCheckTimeoutOnProcess, NoteWorkerStart, PostDeployment, ContinueDeployment,
       CancelDeployment, NoteProcesses, Poll, Check, SleepOver, Timeout, Hiccup, Misread, vars

\* A spec that has ended stays so.
LEMMA Ended == ASSUME [Next]_vars, verdict # "running" PROVE verdict' = verdict
BY DEF Next, Platform, Diego, Update, Neighbour, Driver, ScaleApp,
       SetHealthCheckTimeoutOnProcess, NoteWorkerStart, PostDeployment, ContinueDeployment,
       CancelDeployment, NoteProcesses, Poll, Check, SleepOver, Timeout, Hiccup, Misread,
       AtStep, driver, vars

LEMMA Kinds ==
  ASSUME [Next]_vars, verdict = "running", verdict' # "failed"
  PROVE  \/ \E p \in 1..Len(proc) : Diego(p)
         \/ \E d \in 1..Len(dep) : Update(d)
         \/ PostDeployment
         \/ ContinueDeployment
         \/ CancelDeployment
         \/ ScaleApp
         \/ Stays
         \/ GoesOn
         \/ Aside
<1>1. CASE Neighbour \/ UNCHANGED vars
  BY <1>1 DEF Neighbour, vars, driver, Aside
<1>2. CASE NoteProcesses
  <2>1. ~Fail
    BY DEF Fail
  <2>2. /\ Advance /\ UNCHANGED <<dep, proc, started>> /\ fresh' = FALSE
        /\ Spot.op = "note" /\ noted'.canary = Newest
    BY <1>2, <2>1 DEF NoteProcesses, AtStep
  <2>3. QED  BY <2>2 DEF GoesOn
<1>3. CASE Poll
  <2>1. /\ UNCHANGED <<dep, proc, started>> /\ fresh' = FALSE /\ Spot.op \in Awaited
        /\ Fail \/ Show \/ (~Sure /\ UNCHANGED driver)
    BY <1>3 DEF Poll, AtStep
  <2>2. CASE Fail
    BY <2>2 DEF Fail
  <2>3. CASE Show
    BY <2>1, <2>3 DEF Show, GoesOn, Awaited
  <2>4. CASE ~Sure /\ UNCHANGED driver
    BY <2>1, <2>4 DEF Stays, driver
  <2>5. QED  BY <2>1, <2>2, <2>3, <2>4
<1>4. CASE Check
  <2>1. /\ UNCHANGED <<dep, proc, started>> /\ fresh' = FALSE /\ Spot.op \in Asserted
        /\ Fail \/ Show \/ (Spot.op # "is" /\ Seen /\ UNCHANGED driver)
    BY <1>4 DEF Check, AtStep
  <2>2. CASE Fail
    BY <2>2 DEF Fail
  <2>3. CASE Show
    BY <2>1, <2>3 DEF Show, GoesOn, Asserted
  <2>4. CASE Spot.op # "is" /\ Seen /\ UNCHANGED driver
    BY <2>1, <2>4 DEF Stays, driver, Asserted
  <2>5. QED  BY <2>1, <2>2, <2>3, <2>4
<1>5. CASE SleepOver \/ SetHealthCheckTimeoutOnProcess
  BY <1>5 DEF SleepOver, SetHealthCheckTimeoutOnProcess, AtStep, GoOn, GoesOn
<1>6. CASE NoteWorkerStart
  BY <1>6, NoteWorkerEffect DEF GoesOn
<1>7. CASE Misread
  BY <1>7 DEF Misread, AtStep, GoOn, GoesOn
<1>8. CASE Timeout \/ Hiccup
  BY <1>8 DEF Timeout, Hiccup, Fail
<1>9. CASE Platform
  BY <1>9 DEF Platform
<1>10. CASE PostDeployment \/ ContinueDeployment \/ CancelDeployment \/ ScaleApp
  BY <1>10
<1>11. QED
  BY <1>1, <1>2, <1>3, <1>4, <1>5, <1>6, <1>7, <1>8, <1>9, <1>10 DEF Next, Driver

\* The droplets stay, and so does what the first deployment was made with.
LEMMA MadeKept ==
  ASSUME IInv, MadeInv, scenario' = scenario, SameWebs, Len(dep') = Len(dep),
         \A e \in 1..Len(dep) :
           dep'[e].strategy = dep[e].strategy /\ dep'[e].targets = dep[e].targets
  PROVE  MadeInv'
<1>1. /\ Len(proc) = Len(dep) + 1 /\ Len(dep) \in Nat
      /\ \A q \in 1..Len(proc) : proc'[q].droplet = proc[q].droplet
  BY Known DEF SameWebs
<1>2. 1 \in 1..Len(proc)
  BY <1>1
<1>3. CASE Len(dep) = 0
  BY <1>1, <1>2, <1>3 DEF MadeInv
<1>4. CASE Len(dep) > 0
  <2>1. 1 \in 1..Len(dep) /\ 2 \in 1..Len(proc)
    BY <1>1, <1>4
  <2>2. QED  BY <1>1, <1>2, <1>4, <2>1 DEF MadeInv
<1>5. QED  BY <1>1, <1>3, <1>4

LEMMA MadePosted ==
  ASSUME IInv, MadeInv, PostDeployment PROVE MadeInv'
<1>1. /\ verdict = "running" /\ Spot.op = "create" /\ scenario' = scenario
      /\ Len(dep) \in 0..1 /\ Len(dep') = Len(dep) + 1 /\ Len(proc') = Len(proc) + 1
      /\ \A e \in 1..Len(dep) :
           dep'[e].strategy = dep[e].strategy /\ dep'[e].targets = dep[e].targets
      /\ dep'[Len(dep) + 1].strategy = Spot.strategy
      /\ dep'[Len(dep) + 1].targets = Spot.targets
      /\ \A q \in 1..Len(proc) : proc'[q] = proc[q]
      /\ proc'[Len(dep) + 2].droplet = Spot.droplet
  BY PostEffect DEF chosen
<1>2. Len(proc) = Len(dep) + 1 /\ proc'[1].droplet = "dora"
  <2>1. Len(proc) = Len(dep) + 1 /\ 1 \in 1..Len(proc)
    BY <1>1, Known
  <2>2. QED  BY <1>1, <2>1 DEF MadeInv
<1>3. CASE Len(dep) = 0
  <2>1. pc = First(scenario)
    <3>1. /\ CreatesInOrder(scenario) /\ pc \in 1..Len(Script(scenario)) /\ pc \in Nat
          /\ First(scenario) \in 1..3
      BY <1>1, Known DEF Order, IInv, PlaceInv, First
    <3>2. pc = First(scenario) \/ (scenario = "supersede" /\ pc = 7)
      BY <1>1, <3>1 DEF CreatesInOrder, Spot
    <3>3. pc <= First(scenario)
      BY <1>3 DEF IInv, DepInv
    <3>4. QED  BY <3>1, <3>2, <3>3
  <2>2. Spot = Script(scenario)[First(scenario)]
    BY <2>1 DEF Spot
  <2>3. /\ dep'[1].strategy = Spot.strategy /\ dep'[1].targets = Spot.targets
        /\ proc'[2].droplet = Spot.droplet
    BY <1>1, <1>3
  <2>4. QED  BY <1>1, <1>2, <2>2, <2>3 DEF MadeInv
<1>4. CASE Len(dep) = 1
  <2>1. /\ dep'[1].strategy = dep[1].strategy /\ dep'[1].targets = dep[1].targets
        /\ proc'[2] = proc[2]
    BY <1>1, <1>2, <1>4
  <2>2. QED  BY <1>1, <1>2, <1>4, <2>1 DEF MadeInv
<1>5. QED  BY <1>1, <1>3, <1>4

LEMMA MadeSteps ==
  ASSUME IInv, MadeInv, [Next]_vars PROVE MadeInv'
<1>1. scenario' = scenario
  BY ChosenOnce DEF chosen
<1>2. ASSUME UNCHANGED <<dep, proc>> PROVE MadeInv'
  BY <1>1, <1>2, MadeKept DEF SameWebs
<1>3. ASSUME NEW p \in 1..Len(proc), Diego(p) PROVE MadeInv'
  BY <1>1, <1>3, DiegoEffect, MadeKept
<1>4. ASSUME NEW d \in 1..Len(dep), Update(d) PROVE MadeInv'
  <2>1. UNCHANGED <<chosen, driver>> /\ fresh' \in BOOLEAN
    BY <1>4, UpdateEffect
  <2>2. CASE Pause(d)
    BY <1>1, <2>1, <2>2, PauseEffect, MadeKept DEF Marked
  <2>3. CASE RollOn(d)
    BY <1>1, <2>3, RollOnEffect, MadeKept
  <2>4. CASE Finish(d)
    BY <1>1, <2>4, FinishEffect, MadeKept DEF Marked
  <2>5. CASE FinishCancel(d)
    BY <1>1, <2>5, FinishCancelEffect, MadeKept DEF Marked
  <2>6. QED  BY <1>4, <2>2, <2>3, <2>4, <2>5, UpdateEffect
<1>5. ASSUME ContinueDeployment PROVE MadeInv'
  <2>1. /\ SameWebs /\ Len(dep) = 1 /\ Len(dep') = 1
        /\ dep'[1].strategy = dep[1].strategy /\ dep'[1].targets = dep[1].targets
    BY <1>5, ContinueEffect
  <2>2. QED  BY <1>1, <2>1, MadeKept
<1>6. ASSUME CancelDeployment PROVE MadeInv'
  BY <1>1, <1>6, CancelEffect, MadeKept DEF Marked
<1>7. ASSUME LooksOnly \/ NoteWorkerStart PROVE MadeInv'
  BY <1>2, <1>7, LooksEffect, NoteWorkerEffect
<1>8. CASE Neighbour \/ UNCHANGED vars
  BY <1>2, <1>8 DEF Neighbour, vars
<1>9. ASSUME ScaleApp PROVE MadeInv'
  BY <1>1, <1>9, ScaleEffect, MadeKept
<1>10. QED
  BY <1>3, <1>4, <1>5, <1>6, <1>7, <1>8, <1>9, MadePosted
     DEF Next, Platform, Driver, LooksOnly

-----------------------------------------------------------------------------
(* What a broken promise leaves behind stays as the spec goes on. *)

\* A step of a spec that runs, before and after, and has a broken promise to tell.
Going ==
  /\ AsWritten /\ IInv /\ IInv' /\ MadeInv /\ MadeInv'
  /\ Telling /\ Telling'
  /\ fault \in Broken(scenario) /\ UNCHANGED chosen
  /\ verdict = "running" /\ verdict' = "running"
  /\ pc <= DeadEnd(scenario, fault) /\ pc' <= DeadEnd(scenario, fault)
  /\ Trace

\* The specs about a promise.
LEMMA TestedBy ==
  ASSUME NEW s \in Specs, NEW f \in Broken(s)
  PROVE  /\ f = "losesOriginal" => s \in {"continue", "cancel", "steps"}
         /\ f = "keepsOriginal" => s \in {"continue", "steps"}
         /\ f = "keepsCanary" => s \in {"cancel", "supersede"}
         /\ f \in {"skipsSteps", "oneCanary"} => s = "steps"
         /\ f = "oneInFlight" => s \in {"inFlight", "inFlightCanary"}
         /\ f \in {"deploysBlindly", "healthyBlindly"} => s = "badDroplet"
         /\ f = "noWorkerRestart" => s \in {"continue", "steps"}
         /\ s = "rolling" => f = "neverDeploys"
BY DEF Specs, Broken

\* The spec that scales its app has one promise to tell of.
LEMMA NeverScales ==
  ASSUME Going, fault # "neverDeploys" PROVE ~ScaleApp
BY Known, TestedBy, ScaleEffect DEF Going

\* Only the spec on superseding has a second deployment.
LEMMA OneDeployment ==
  ASSUME IInv, scenario # "supersede"
  PROVE  /\ Len(dep) \in 0..1 /\ (Len(dep) = 0 <=> pc <= First(scenario))
         /\ Len(proc) = Len(dep) + 1 /\ \A d \in 1..Len(dep) : d = 1 /\ Len(dep) = 1
<1>1. /\ Len(dep) \in 0..1 /\ (Len(dep) = 0 <=> pc <= First(scenario))
      /\ Len(proc) = Len(dep) + 1
  BY Known DEF IInv, DepInv
<1> DEFINE n == Len(dep)
<1>2. n \in 0..1
  BY <1>1
<1> HIDE DEF n
<1>3. \A d \in 1..n : d = 1 /\ n = 1
  BY <1>2
<1>4. QED  BY <1>1, <1>3 DEF n

\* The steps that change nothing the traces speak of but the position.
LEMMA Unmoved ==
  ASSUME Stays \/ GoesOn \/ Aside PROVE UNCHANGED <<dep, proc>>
BY DEF Stays, GoesOn, Aside

LEMMA WithheldIs ==
  /\ Withheld \notin {"DEPLOYING", "CANCELING", "CANCELED"}
  /\ Withheld = "PAUSED" <=> fault = "neverPauses"
  /\ Withheld = "DEPLOYED" <=> fault = "neverDeploys"
  /\ Withheld = "SUPERSEDED" <=> fault = "neverSupersedes"
BY DEF Withheld

LEMMA WithheldStep ==
  ASSUME Going, [Next]_vars PROVE WithheldTrace'
<1>1. /\ IInv /\ \A d \in 1..Len(dep) : dep[d].status # Withheld
      /\ Withheld' = Withheld /\ Len(dep) \in Nat
  <2>1. IInv /\ fault' = fault /\ WithheldTrace
    BY DEF Going, chosen, Trace
  <2>2. QED  BY <2>1, Known DEF WithheldTrace, Withheld
<1>2. SUFFICES \A d \in 1..Len(dep') : dep'[d].status # Withheld
  BY <1>1 DEF WithheldTrace
<1>3. ASSUME NEW d \in 1..Len(dep), NEW x, Marked(d, x), x # Withheld
      PROVE  \A e \in 1..Len(dep') : dep'[e].status # Withheld
  BY <1>1, <1>3 DEF Marked
<1>4. ASSUME NEW p \in 1..Len(proc), Diego(p)
      PROVE  \A d \in 1..Len(dep') : dep'[d].status # Withheld
  BY <1>1, <1>4, DiegoEffect
<1>5. ASSUME NEW d \in 1..Len(dep), Update(d)
      PROVE  \A e \in 1..Len(dep') : dep'[e].status # Withheld
  <2>1. UNCHANGED <<chosen, driver>> /\ fresh' \in BOOLEAN
    BY <1>1, <1>5, UpdateEffect
  <2>2. CASE Pause(d)
    BY <1>1, <1>3, <2>1, <2>2, PauseEffect, WithheldIs DEF CanPause
  <2>3. CASE RollOn(d)
    BY <1>1, <2>3, RollOnEffect
  <2>4. CASE Finish(d)
    BY <1>1, <1>3, <2>4, FinishEffect, WithheldIs DEF CanFinish
  <2>5. CASE FinishCancel(d)
    BY <1>1, <1>3, <2>5, FinishCancelEffect, WithheldIs
  <2>6. QED  BY <1>1, <1>5, <2>2, <2>3, <2>4, <2>5, UpdateEffect
<1>6. CASE PostDeployment
  <2>1. /\ Len(dep) \in 0..1 /\ Len(dep') = Len(dep) + 1
        /\ \A e \in 1..Len(dep) :
             IF dep[e].status \in Final \/ fault = "neverSupersedes"
               THEN dep'[e].status = dep[e].status
               ELSE dep'[e].status = "SUPERSEDED"
        /\ dep'[Len(dep) + 1].status = "DEPLOYING"
    BY <1>1, <1>6, PostEffect
  <2>2. \A e \in 1..Len(dep) : dep'[e].status # Withheld
    BY <1>1, <2>1, WithheldIs
  <2>3. QED  BY <2>1, <2>2, WithheldIs
<1>7. CASE ContinueDeployment
  <2>1. Len(dep') = 1 /\ dep'[1].status = "DEPLOYING"
    BY <1>1, <1>7, ContinueEffect
  <2>2. "DEPLOYING" # Withheld
    BY WithheldIs
  <2>3. QED  BY <2>1, <2>2
<1>8. CASE CancelDeployment
  <2>1. Len(dep) = 1 /\ Marked(1, "CANCELING")
    BY <1>1, <1>8, CancelEffect
  <2>2. "CANCELING" # Withheld
    BY WithheldIs
  <2>3. 1 \in 1..Len(dep)
    BY <2>1
  <2>4. QED  BY <1>3, <2>1, <2>2, <2>3
<1>9. CASE Stays \/ GoesOn \/ Aside
  BY <1>1, <1>9, Unmoved
<1>10. CASE ScaleApp
  BY <1>1, <1>10, ScaleEffect
<1>11. QED
  BY <1>4, <1>5, <1>6, <1>7, <1>8, <1>9, <1>10, Kinds DEF Going

\* The start of a worker is noted right before the deployment.
LEMMA NotedBefore ==
  ASSUME IInv, scenario \in {"continue", "steps"}, verdict = "running", AsWritten
  PROVE  /\ First(scenario) = 3 /\ pc \in Nat
         /\ Spot.op = "noteWorker" <=> pc = 2
<1>1. pc \in 1..Len(Script(scenario)) /\ PreparesInOrder(scenario) /\ pc \in Nat
  BY Known DEF IInv, PlaceInv, Order
<1>2. First(scenario) = 3
  BY DEF First
<1>3. Script(scenario)[1] = Serves("dora") /\ Script(scenario)[2] = NoteWorker
  BY ContinueScriptSteps, TwoTurns
<1>4. Spot.op = "noteWorker" => pc < 3
  BY <1>1, <1>2 DEF PreparesInOrder, Spot
<1>5. pc = 1 => Spot.op = "serves"
  BY <1>3 DEF Spot, Serves
<1>6. pc = 2 => Spot.op = "noteWorker"
  BY <1>3 DEF Spot, NoteWorker
<1>7. QED  BY <1>1, <1>2, <1>4, <1>5, <1>6

LEMMA WorkerStep ==
  ASSUME Going, [Next]_vars PROVE WorkerTrace'
<1>1. SUFFICES ASSUME fault = "noWorkerRestart", pc' >= First(scenario) PROVE started' = {}
  BY DEF WorkerTrace, Going, chosen
<1>2. /\ IInv /\ First(scenario) = 3 /\ pc \in Nat /\ pc' \in Nat
      /\ Spot.op = "noteWorker" <=> pc = 2
  <2>1. IInv /\ scenario \in Specs /\ fault \in Broken(scenario) /\ IInv'
    BY Known DEF Going
  <2>2. scenario \in {"continue", "steps"}
    BY <1>1, <2>1, TestedBy
  <2>3. pc' \in Nat
    BY <2>1 DEF IInv, TypeOK
  <2>4. QED  BY <2>1, <2>2, <2>3, NotedBefore DEF Going
<1>3. started' \cap {"other", "old"} = {}
  <2>1. Telling' /\ fault' = fault /\ scenario' = scenario
    BY DEF Going, chosen
  <2>2. ~(pc' < First(scenario))
    BY <1>1, <1>2
  <2>3. QED  BY <1>1, <2>1, <2>2 DEF Telling, First
<1>4. pc >= 3 => started = {}
  BY <1>1, <1>2 DEF Going, Trace, WorkerTrace
<1>5. ~ScaleApp
  BY <1>1, NeverScales
<1>6. ASSUME UNCHANGED <<pc, started>> PROVE started' = {}
  BY <1>1, <1>2, <1>4, <1>6
<1>7. ASSUME Advance, started' = started, Spot.op # "noteWorker" PROVE started' = {}
  <2>1. pc' = pc + 1
    BY <1>7 DEF Advance
  <2>2. QED  BY <1>1, <1>2, <1>4, <1>7, <2>1
<1>8. ASSUME NEW p \in 1..Len(proc), Diego(p) PROVE started' = {}
  BY <1>2, <1>6, <1>8, DiegoEffect DEF driver
<1>9. ASSUME NEW d \in 1..Len(dep), Update(d) PROVE started' = {}
  <2>1. UNCHANGED <<chosen, driver>> /\ fresh' \in BOOLEAN
    BY <1>2, <1>9, UpdateEffect
  <2>2. started' = started
    BY <1>1, <1>2, <1>9, <2>1, UpdateEffect, PauseEffect, RollOnEffect, FinishEffect,
       FinishCancelEffect
  <2>3. QED  BY <1>6, <2>1, <2>2 DEF driver
<1>10. CASE PostDeployment \/ ContinueDeployment \/ CancelDeployment
  <2>1. Advance /\ started' = started /\ Spot.op \in {"create", "continue", "cancel"}
    BY <1>2, <1>10, PostEffect, ContinueEffect, CancelEffect
  <2>2. QED  BY <1>7, <2>1
<1>11. CASE Stays
  BY <1>6, <1>11 DEF Stays
<1>12. CASE GoesOn
  <2>1. CASE Spot.op = "noteWorker"
    <3>1. started' \in {{}, {"old"}}
      BY <1>12, <2>1 DEF GoesOn, Awaited, Asserted
    <3>2. QED  BY <1>3, <3>1
  <2>2. CASE Spot.op # "noteWorker"
    BY <1>7, <1>12, <2>2 DEF GoesOn
  <2>3. QED  BY <2>1, <2>2
<1>13. CASE Aside
  <2>1. pc' = pc /\ started' \in {started, started \cup {"other"}}
    BY <1>13 DEF Aside
  <2>2. started' = started
    BY <1>3, <2>1
  <2>3. QED  BY <1>6, <2>1, <2>2
<1>14. QED  BY <1>5, <1>8, <1>9, <1>10, <1>11, <1>12, <1>13, Kinds DEF Going

LEMMA LosesStep ==
  ASSUME Going, [Next]_vars PROVE LosesTrace'
<1>1. SUFFICES ASSUME fault = "losesOriginal", Len(dep') > 0, dep'[1].status = "PAUSED"
      PROVE  proc'[1].want = 0 /\ proc'[1].running = 0
  BY DEF LosesTrace, Going, chosen
<1>2. /\ IInv /\ scenario # "supersede"
      /\ Len(dep) > 0 /\ dep[1].status = "PAUSED" => proc[1].want = 0 /\ proc[1].running = 0
  <2>1. IInv /\ scenario \in Specs /\ fault \in Broken(scenario) /\ LosesTrace
    BY Known DEF Going, Trace
  <2>2. QED  BY <1>1, <2>1, TestedBy DEF LosesTrace
<1>3. /\ Len(dep) \in 0..1 /\ Len(proc) = Len(dep) + 1
      /\ Len(dep') \in 0..1 /\ \A d \in 1..Len(dep) : d = 1
  <2>1. IInv' /\ scenario' = scenario
    BY DEF Going, chosen
  <2>2. Len(dep') \in 0..1
    BY <1>2, <2>1 DEF IInv, DepInv
  <2>3. QED  BY <1>2, <2>2, OneDeployment
<1>4. CASE UNCHANGED <<dep, proc>>
  BY <1>1, <1>2, <1>4
<1>5. ASSUME NEW p \in 1..Len(proc), Diego(p)
      PROVE  proc'[1].want = 0 /\ proc'[1].running = 0
  <2>1. dep' = dep /\ 1 \in 1..Len(proc)
    BY <1>2, <1>3, <1>5, DiegoEffect
  <2>2. QED  BY <1>1, <1>2, <1>5, <2>1, DiegoEffect
<1>6. ASSUME NEW d \in 1..Len(dep), Update(d)
      PROVE  proc'[1].want = 0 /\ proc'[1].running = 0
  <2>1. d = 1
    BY <1>3
  <2>2. Pause(d)
    <3>1. ~RollOn(d)
      <4>1. ASSUME RollOn(d) PROVE FALSE
        <5>1. dep[1].status = "DEPLOYING" /\ dep' = dep
          BY <1>2, <2>1, <4>1, RollOnEffect DEF CanRollOn
        <5>2. QED  BY <1>1, <5>1
      <4>2. QED  BY <4>1
    <3>2. ~Finish(d)
      BY <1>1, <1>2, <2>1, FinishEffect DEF Marked
    <3>3. ~FinishCancel(d)
      BY <1>1, <1>2, <2>1, FinishCancelEffect DEF Marked
    <3>4. QED  BY <1>2, <1>6, <3>1, <3>2, <3>3, UpdateEffect
  <2>3. UNCHANGED <<chosen, driver>> /\ fresh' \in BOOLEAN
    BY <1>2, <1>6, UpdateEffect, Zenon
  <2>4. QED  BY <1>1, <1>2, <2>1, <2>2, <2>3, PauseEffect
<1>7. ~PostDeployment
  <2>1. ASSUME PostDeployment PROVE FALSE
    <3>1. Len(dep) = 0 /\ dep'[Len(dep) + 1].status = "DEPLOYING"
      BY <1>2, <1>3, <2>1, PostEffect
    <3>2. QED  BY <1>1, <3>1
  <2>2. QED  BY <2>1
<1>8. ~ContinueDeployment /\ ~CancelDeployment
  BY <1>1, <1>2, ContinueEffect, CancelEffect DEF Marked
<1>9. ~ScaleApp
  BY <1>1, NeverScales
<1>10. QED  BY <1>4, <1>5, <1>6, <1>7, <1>8, <1>9, Kinds, Unmoved DEF Going

LEMMA OriginalStep ==
  ASSUME Going, [Next]_vars PROVE OriginalTrace'
<1> DEFINE Up1(P) == P[1].live /\ P[1].want > 0 /\ P[1].running > 0
<1>1. SUFFICES ASSUME fault = "keepsOriginal" PROVE Up1(proc')
  BY DEF OriginalTrace, Going, chosen
<1>2. IInv /\ Up1(proc)
  BY <1>1 DEF Going, Trace, OriginalTrace
<1>3. /\ 1 \in 1..Len(proc) /\ Len(dep) \in Nat
      /\ \A d \in 1..Len(dep) : d + 1 # 1
  BY <1>2, Known
<1>4. CASE UNCHANGED <<dep, proc>>
  BY <1>2, <1>4
<1>5. ASSUME NEW p \in 1..Len(proc), Diego(p) PROVE Up1(proc')
  BY <1>2, <1>3, <1>5, DiegoEffect
<1>6. ASSUME NEW d \in 1..Len(dep), Update(d) PROVE Up1(proc')
  <2>1. UNCHANGED <<chosen, driver>> /\ fresh' \in BOOLEAN
    BY <1>2, <1>6, UpdateEffect, Zenon
  <2>2. CASE Pause(d)
    <3>1. proc' = proc
      BY <1>1, <1>2, <2>1, <2>2, PauseEffect
    <3>2. QED  BY <1>2, <3>1
  <2>3. CASE RollOn(d)
    <3>1. /\ proc'[1].live = proc[1].live /\ proc'[1].running = proc[1].running
          /\ proc'[1].want = proc[1].want
      BY <1>1, <1>2, <1>3, <2>3, RollOnEffect
    <3>2. QED  BY <1>2, <3>1
  <2>4. CASE Finish(d)
    <3>1. proc' = proc
      BY <1>1, <1>2, <2>4, FinishEffect
    <3>2. QED  BY <1>2, <3>1
  <2>5. CASE FinishCancel(d)
    <3>1. proc'[1] = proc[1]
      BY <1>2, <2>5, FinishCancelEffect
    <3>2. QED  BY <1>2, <3>1
  <2>6. QED  BY <1>2, <1>6, <2>2, <2>3, <2>4, <2>5, UpdateEffect
<1>7. CASE PostDeployment
  <2>1. proc'[1] = proc[1]
    BY <1>2, <1>3, <1>7, PostEffect
  <2>2. QED  BY <1>2, <2>1
<1>8. CASE ContinueDeployment
  BY <1>2, <1>8, ContinueEffect
<1>9. CASE CancelDeployment
  BY <1>2, <1>9, CancelEffect
<1>10. ~ScaleApp
  BY <1>1, NeverScales
<1>11. QED
  BY <1>4, <1>5, <1>6, <1>7, <1>8, <1>9, <1>10, Kinds, Unmoved DEF Going

\* The specs with a canary of one instance.
LEMMA OneStep ==
  ASSUME IInv, MadeInv, scenario \in {"continue", "cancel", "supersede"}, Len(dep) > 0
  PROVE  /\ dep[1].strategy = "canary" /\ dep[1].targets = <<1>>
         /\ proc[2].droplet = "static"
         /\ dep[1].step = 1 => InSteps(1)
<1>1. scenario \in Specs
  BY Known
<1>2. /\ dep[1].strategy = "canary" /\ dep[1].targets = <<1>>
      /\ proc[2].droplet = "static"
  BY <1>1, FirstMade DEF MadeInv
<1>3. QED  BY <1>2 DEF InSteps

LEMMA CanaryStep ==
  ASSUME Going, [Next]_vars PROVE CanaryTrace'
<1> DEFINE Holds ==
             /\ dep'[1].step = 1 /\ proc'[2].live /\ proc'[2].want = 1
             /\ dep'[1].status # "DEPLOYING" => proc'[2].running = 1
<1>1. SUFFICES ASSUME fault = "keepsCanary", Len(dep') > 0 PROVE Holds
  BY DEF CanaryTrace, Going, chosen
<1>2. /\ IInv /\ MadeInv /\ IInv' /\ MadeInv' /\ scenario' = scenario
      /\ scenario \in {"cancel", "supersede"}
      /\ Len(dep) \in Nat /\ Len(proc) = Len(dep) + 1
  <2>1. /\ IInv /\ MadeInv /\ IInv' /\ MadeInv' /\ scenario \in Specs
        /\ scenario' = scenario /\ fault \in Broken(scenario)
    BY Known DEF Going, chosen
  <2>2. QED  BY <1>1, <2>1, TestedBy, Known
<1>3. ASSUME Len(dep) > 0
      PROVE  /\ dep[1].step = 1 /\ proc[2].live /\ proc[2].want = 1
             /\ dep[1].status # "DEPLOYING" => proc[2].running = 1
             /\ InSteps(1) /\ 1 \in 1..Len(dep) /\ 2 \in 1..Len(proc)
  <2>1. CanaryTrace
    BY DEF Going, Trace
  <2>2. /\ dep[1].step = 1 /\ proc[2].live /\ proc[2].want = 1
        /\ dep[1].status # "DEPLOYING" => proc[2].running = 1
    BY <1>1, <1>3, <2>1 DEF CanaryTrace
  <2>3. InSteps(1)
    BY <1>2, <1>3, <2>2, OneStep
  <2>4. 1 \in 1..Len(dep) /\ 2 \in 1..Len(proc)
    BY <1>2, <1>3
  <2>5. QED  BY <2>2, <2>3, <2>4
<1>4. CASE UNCHANGED <<dep, proc>>
  BY <1>1, <1>3, <1>4
<1>5. ASSUME NEW p \in 1..Len(proc), Diego(p) PROVE Holds
  <2>1. dep' = dep /\ Len(dep) > 0
    BY <1>1, <1>2, <1>5, DiegoEffect
  <2>2. /\ proc'[2].want = proc[2].want /\ proc'[2].live = proc[2].live
        /\ proc[2].running = proc[2].want => proc'[2].running = proc[2].running
    BY <1>2, <1>3, <1>5, <2>1, DiegoEffect
  <2>3. QED  BY <1>3, <2>1, <2>2
<1>6. ASSUME NEW d \in 1..Len(dep), Update(d) PROVE Holds
  <2>1. UNCHANGED <<chosen, driver>> /\ fresh' \in BOOLEAN
    BY <1>2, <1>6, UpdateEffect, Zenon
  <2>2. Len(dep) > 0
    BY <1>2
  <2>3. CASE Pause(d)
    <3>1. proc' = proc /\ Marked(d, "PAUSED") /\ CanPause(d)
      BY <1>1, <1>2, <2>1, <2>3, PauseEffect
    <3>2. dep'[1].step = dep[1].step
      BY <1>3, <2>2, <3>1 DEF Marked
    <3>3. CASE d = 1
      <4>1. dep[1].proc = 2
        BY <1>2, <1>3, <2>2, Known
      <4>2. proc[2].running = proc[2].want
        BY <3>1, <3>3, <4>1 DEF CanPause, Up
      <4>3. QED  BY <1>3, <2>2, <3>1, <3>2, <4>2
    <3>4. CASE d # 1
      <4>1. dep'[1].status = dep[1].status
        BY <1>3, <2>2, <3>1, <3>4 DEF Marked
      <4>2. QED  BY <1>3, <2>2, <3>1, <3>2, <4>1
    <3>5. QED  BY <3>3, <3>4
  <2>4. CASE RollOn(d)
    <3>1. /\ CanRollOn(d) /\ dep' = dep
          /\ \A q \in 1..Len(proc) :
               proc'[q].live = proc[q].live /\ proc'[q].running = proc[q].running
          /\ \A q \in 1..Len(proc) : q # d + 1 => proc'[q].want = proc[q].want
      BY <1>1, <1>2, <2>4, RollOnEffect
    <3>2. d # 1
      BY <1>3, <2>2, <3>1 DEF CanRollOn
    <3>3. 2 # d + 1
      BY <1>2, <3>2
    <3>4. QED  BY <1>3, <2>2, <3>1, <3>3
  <2>5. CASE Finish(d)
    <3>1. CanFinish(d) /\ Marked(d, "DEPLOYED") /\ proc'[2] = proc[2]
      BY <1>1, <1>2, <1>3, <2>2, <2>5, FinishEffect
    <3>2. d # 1
      BY <1>3, <2>2, <3>1 DEF CanFinish
    <3>3. dep'[1].step = dep[1].step /\ dep'[1].status = dep[1].status
      BY <1>3, <2>2, <3>1, <3>2 DEF Marked
    <3>4. QED  BY <1>3, <2>2, <3>1, <3>3
  <2>6. CASE FinishCancel(d)
    <3>1. CanFinishCancel(d) /\ Marked(d, "CANCELED") /\ proc' = proc
      BY <1>1, <1>2, <2>6, FinishCancelEffect
    <3>2. /\ dep'[1].step = dep[1].step
          /\ dep'[1].status # "DEPLOYING" => dep[1].status # "DEPLOYING"
      BY <1>3, <2>2, <3>1 DEF Marked, CanFinishCancel
    <3>3. QED  BY <1>3, <2>2, <3>1, <3>2
  <2>7. QED  BY <1>2, <1>6, <2>3, <2>4, <2>5, <2>6, UpdateEffect
<1>7. CASE PostDeployment
  <2>1. CASE Len(dep) = 0
    <3>1. /\ dep'[1].strategy = Spot.strategy /\ dep'[1].targets = Spot.targets
          /\ dep'[1].step = 1 /\ dep'[1].status = "DEPLOYING" /\ proc'[2].live
          /\ Spot.strategy = "canary" => proc'[2].want = Spot.targets[1]
      BY <1>2, <1>7, <2>1, PostEffect
    <3>2. dep'[1].strategy = "canary" /\ dep'[1].targets = <<1>>
      <4>1. scenario \in Specs
        BY <1>2, Known
      <4>2. QED  BY <1>1, <1>2, <4>1, FirstMade DEF MadeInv
    <3>3. proc'[2].want = 1
      BY <3>1, <3>2
    <3>4. QED  BY <3>1, <3>3
  <2>2. CASE Len(dep) > 0
    <3>1. /\ Spot.op = "create" /\ Len(dep) \in 0..1
          /\ \A e \in 1..Len(dep) : dep'[e].step = dep[e].step
          /\ \A q \in 1..Len(proc) : proc'[q] = proc[q]
      BY <1>2, <1>7, PostEffect
    <3>2. dep[1].status = "PAUSED"
      <4>1. verdict = "running" /\ Len(dep) = 1
        BY <2>2, <3>1 DEF Going
      <4>2. QED  BY <1>2, <3>1, <4>1, RoomForOne
    <3>3. dep'[1].step = dep[1].step /\ proc'[2] = proc[2]
      BY <1>3, <2>2, <3>1
    <3>4. QED  BY <1>3, <2>2, <3>2, <3>3
  <2>3. QED  BY <1>2, <2>1, <2>2
<1>8. ~ContinueDeployment
  <2>1. ASSUME ContinueDeployment PROVE FALSE
    <3>1. Spot.op = "continue" /\ verdict = "running"
      BY <1>2, <2>1, ContinueEffect
    <3>2. AsksInOrder(scenario) /\ pc \in 1..Len(Script(scenario))
      BY <1>2, <3>1, Known DEF Order, IInv, PlaceInv
    <3>3. QED  BY <1>2, <3>1, <3>2 DEF AsksInOrder, Spot
  <2>2. QED  BY <2>1
<1>9. CASE CancelDeployment
  <2>1. /\ Len(dep) = 1 /\ dep[1].status = "PAUSED" /\ Marked(1, "CANCELING")
        /\ \A q \in 1..2 : proc'[q].live = proc[q].live /\ proc'[q].running = proc[q].running
        /\ proc'[2].want = proc[2].want
    BY <1>2, <1>9, CancelEffect
  <2>2. dep'[1].step = dep[1].step
    BY <2>1 DEF Marked
  <2>3. QED  BY <1>3, <2>1, <2>2
<1>10. ~ScaleApp
  BY <1>1, NeverScales
<1>11. QED
  BY <1>4, <1>5, <1>6, <1>7, <1>8, <1>9, <1>10, Kinds, Unmoved DEF Going

\* The first deployment comes at its place.
LEMMA PostedFirst ==
  ASSUME IInv, IInv', scenario # "supersede", scenario' = scenario, PostDeployment
  PROVE  /\ Len(dep) = 0 /\ Len(dep') = 1 /\ pc = First(scenario) /\ pc' = pc + 1
         /\ fresh' = TRUE /\ noted' = noted
         /\ dep'[1].strategy = Spot.strategy /\ dep'[1].targets = Spot.targets
         /\ dep'[1].step = 1 /\ dep'[1].status = "DEPLOYING"
         /\ Spot.strategy = "canary" => proc'[2].want = Spot.targets[1]
         /\ Spot.strategy # "canary" /\ fault = "oneInFlight" => proc'[2].want = 1
<1>1. /\ verdict = "running" /\ Spot.op = "create" /\ Advance /\ fresh' = TRUE
      /\ noted' = noted /\ Len(dep) \in 0..1 /\ Len(dep') = Len(dep) + 1
      /\ dep'[Len(dep) + 1].strategy = Spot.strategy
      /\ dep'[Len(dep) + 1].targets = Spot.targets
      /\ dep'[Len(dep) + 1].step = 1
      /\ dep'[Len(dep) + 1].status = "DEPLOYING"
      /\ Spot.strategy = "canary" => proc'[Len(dep) + 2].want = Spot.targets[1]
      /\ Spot.strategy # "canary" /\ fault = "oneInFlight" => proc'[Len(dep) + 2].want = 1
  BY PostEffect
<1>2. Len(dep') \in 0..1
  BY DEF IInv, DepInv
<1>3. Len(dep) = 0
  BY <1>1, <1>2
<1>4. pc = First(scenario) /\ pc' = pc + 1
  <2>1. CreatesInOrder(scenario) /\ pc \in 1..Len(Script(scenario))
    BY <1>1, Known DEF Order, IInv, PlaceInv
  <2>2. QED  BY <1>1, <2>1 DEF CreatesInOrder, Spot, Advance
<1>5. QED  BY <1>1, <1>3, <1>4

LEMMA NeverCancels ==
  ASSUME IInv, scenario # "cancel" PROVE ~CancelDeployment
<1>1. ASSUME CancelDeployment PROVE FALSE
  <2>1. verdict = "running" /\ Spot.op = "cancel"
    BY <1>1, CancelEffect
  <2>2. AsksInOrder(scenario) /\ pc \in 1..Len(Script(scenario))
    BY <2>1, Known DEF Order, IInv, PlaceInv
  <2>3. QED  BY <2>1, <2>2 DEF AsksInOrder, Spot
<1>2. QED  BY <1>1

\* Where a step leads, and the position of a spec that runs.
LEMMA Place ==
  ASSUME Going
  PROVE  /\ IInv /\ IInv' /\ MadeInv /\ MadeInv' /\ UNCHANGED chosen /\ scenario' = scenario
         /\ fault' = fault /\ scenario \in Specs /\ fault \in Broken(scenario)
         /\ pc \in Nat \ {0} /\ pc' \in Nat \ {0} /\ verdict = "running"
         /\ pc <= DeadEnd(scenario, fault) /\ pc' <= DeadEnd(scenario, fault)
         /\ Stays \/ Aside => pc' = pc /\ noted' = noted
         /\ GoesOn \/ ContinueDeployment => pc' = pc + 1
         /\ \A p \in 1..Len(proc) : Diego(p) => UNCHANGED <<pc, noted, fresh>>
         /\ \A d \in 1..Len(dep) : Update(d) => UNCHANGED <<pc, noted>> /\ fresh' = TRUE
<1>1. /\ IInv /\ IInv' /\ MadeInv /\ MadeInv' /\ UNCHANGED chosen /\ scenario' = scenario
      /\ fault' = fault /\ fault \in Broken(scenario) /\ verdict = "running"
      /\ pc <= DeadEnd(scenario, fault) /\ pc' <= DeadEnd(scenario, fault)
  BY DEF Going, chosen
<1>2. scenario \in Specs /\ pc \in Nat \ {0}
  BY <1>1, Known
<1>3. pc' \in Nat \ {0}
  <2>1. Order(scenario)
    BY <1>1, Known
  <2>2. pc' \in 1..(Len(Script(scenario)) + 1)
    BY <1>1 DEF IInv, TypeOK
  <2>3. QED  BY <2>1, <2>2 DEF Order
<1>4. Stays \/ Aside => pc' = pc /\ noted' = noted
  BY DEF Stays, Aside
<1>5. GoesOn \/ ContinueDeployment => pc' = pc + 1
  BY <1>1, ContinueEffect DEF GoesOn, Advance
<1>6. \A p \in 1..Len(proc) : Diego(p) => UNCHANGED <<pc, noted, fresh>>
  BY DEF Diego, driver
<1>7. \A d \in 1..Len(dep) : Update(d) => UNCHANGED <<pc, noted>> /\ fresh' = TRUE
  BY DEF Update, driver
<1>8. QED  BY <1>1, <1>2, <1>3, <1>4, <1>5, <1>6, <1>7

LEMMA SkipStep ==
  ASSUME Going, [Next]_vars PROVE SkipTrace'
<1> DEFINE A == Len(dep') > 0 /\ dep'[1].step > 1 =>
                  dep'[1].step > Len(dep'[1].targets) /\ dep'[1].status # "PAUSED"
           B == pc' > 10 => dep'[1].step > 1
<1>1. SUFFICES ASSUME fault = "skipsSteps" PROVE A /\ B
  BY Place DEF SkipTrace
<1>2. /\ IInv /\ MadeInv /\ IInv' /\ MadeInv' /\ scenario' = scenario
      /\ scenario = "steps" /\ pc \in Nat \ {0} /\ verdict = "running"
      /\ Len(dep) > 0 /\ dep[1].step > 1 =>
           dep[1].step > Len(dep[1].targets) /\ dep[1].status # "PAUSED"
      /\ pc > 10 => dep[1].step > 1
  <2>1. SkipTrace
    BY DEF Going, Trace
  <2>2. QED  BY <1>1, <2>1, Place, TestedBy DEF SkipTrace
<1>3. /\ Len(dep) \in 0..1 /\ (Len(dep) = 0 <=> pc <= 3)
      /\ \A d \in 1..Len(dep) : d = 1 /\ Len(dep) = 1
  BY <1>2, OneDeployment DEF First
<1>4. Len(dep) > 0 =>
        /\ dep[1].step \in Nat \ {0} /\ dep[1].strategy = "canary"
        /\ Len(dep[1].targets) \in Nat /\ dep[1].targets = StepTargets
  <2>1. ASSUME Len(dep) > 0 PROVE dep[1].strategy = "canary" /\ dep[1].targets = StepTargets
    BY <1>2, <2>1, FirstMade DEF MadeInv, Specs
  <2>2. ASSUME Len(dep) > 0 PROVE dep[1].step \in Nat \ {0}
    <3>1. dep[1] \in Deps
      BY <1>2, <1>3, <2>2, Known
    <3>2. QED  BY <3>1 DEF Deps
  <2>3. Len(StepTargets) \in Nat
    BY DeploymentsAssumption
  <2>4. QED  BY <2>1, <2>2, <2>3
<1>5. CASE Stays \/ Aside
  BY <1>2, <1>5, Place, Unmoved
<1>6. CASE GoesOn
  <2>1. pc' = pc + 1 /\ dep' = dep
    BY <1>6, Place, Unmoved
  <2>2. pc # 10
    <3>1. Spot.op # "continue"
      BY <1>6 DEF GoesOn, Awaited, Asserted
    <3>2. Script("steps")[10].op = "continue"
      BY TwoTurns DEF Going, Continue
    <3>3. QED  BY <1>2, <3>1, <3>2 DEF Spot
  <2>3. QED  BY <1>2, <2>1, <2>2
<1>7. ASSUME NEW p \in 1..Len(proc), Diego(p) PROVE A /\ B
  <2>1. dep' = dep /\ pc' = pc
    BY <1>2, <1>7, DiegoEffect, Place
  <2>2. QED  BY <1>2, <2>1
<1>8. ASSUME NEW d \in 1..Len(dep), Update(d) PROVE A /\ B
  <2>1. /\ UNCHANGED <<chosen, driver>> /\ fresh' \in BOOLEAN
    BY <1>2, <1>8, UpdateEffect, Zenon
  <2>2. d = 1 /\ 1 \in 1..Len(dep) /\ pc' = pc /\ Len(dep) > 0
    <3>1. d = 1 /\ Len(dep) = 1
      BY <1>3
    <3>2. pc' = pc
      BY <1>8, Place
    <3>3. QED  BY <3>1, <3>2
  <2>3. CASE Pause(d)
    <3>1. CanPause(1) /\ Marked(1, "PAUSED")
      BY <1>2, <2>1, <2>2, <2>3, PauseEffect
    <3>2. ~(dep[1].step > 1)
      BY <1>2, <1>4, <2>2, <3>1 DEF CanPause, InSteps
    <3>3. dep'[1].step = dep[1].step
      BY <2>2, <3>1 DEF Marked
    <3>4. QED  BY <1>2, <2>2, <3>2, <3>3
  <2>4. CASE RollOn(d)
    <3>1. dep' = dep
      BY <1>2, <2>4, RollOnEffect
    <3>2. QED  BY <1>2, <2>2, <3>1
  <2>5. CASE Finish(d) \/ FinishCancel(d)
    <3>1. PICK x : Marked(1, x) /\ x # "PAUSED"
      BY <1>2, <2>2, <2>5, FinishEffect, FinishCancelEffect
    <3>2. /\ dep'[1].step = dep[1].step /\ dep'[1].targets = dep[1].targets
          /\ dep'[1].status # "PAUSED"
      BY <2>2, <3>1 DEF Marked
    <3>3. QED  BY <1>2, <2>2, <3>2
  <2>6. QED  BY <1>2, <1>8, <2>3, <2>4, <2>5, UpdateEffect
<1>9. CASE PostDeployment
  <2>1. dep'[1].step = 1 /\ pc' = 4
    BY <1>2, <1>9, PostedFirst DEF First
  <2>2. QED  BY <2>1
<1>10. CASE ContinueDeployment
  <2>1. /\ dep'[1].step = Len(dep[1].targets) + 1 /\ dep'[1].status = "DEPLOYING"
        /\ dep'[1].targets = dep[1].targets /\ Len(dep) = 1
    BY <1>1, <1>2, <1>10, ContinueEffect
  <2>2. Len(dep[1].targets) \in Nat /\ Len(dep[1].targets) > 0
    BY <1>4, <2>1, DeploymentsAssumption
  <2>3. QED  BY <2>1, <2>2
<1>11. ~CancelDeployment
  BY <1>2, NeverCancels
<1>12. ~ScaleApp
  BY <1>1, NeverScales
<1>13. QED
  BY <1>5, <1>6, <1>7, <1>8, <1>9, <1>10, <1>11, <1>12, Kinds DEF Going

\* With a deployment that moves or is paused the new process is the newest.
LEMMA NewestSecond ==
  ASSUME IInv, Len(dep) = 1, dep[1].status \in {"DEPLOYING", "PAUSED"}
  PROVE  Newest = 2 /\ Live = {1, 2} /\ Len(proc) = 2
<1>1. Len(proc) = 2 /\ 1 \in 1..Len(dep)
  BY Known
<1>2. proc[1].live /\ proc[2].live
  <2>1. \A d \in 1..Len(dep) : d = 1
    BY <1>1
  <2>2. proc[1 + 1].live
    BY <1>1 DEF IInv, LiveInv
  <2>3. proc[1].live
    BY <2>1 DEF IInv, LiveInv
  <2>4. QED  BY <2>2, <2>3
<1>3. Live = {1, 2}
  BY <1>1, <1>2 DEF Live
<1>4. Newest \in Live /\ \A q \in Live : q <= Newest
  BY NewestIsLive
<1>5. QED  BY <1>1, <1>3, <1>4

LEMMA OneCanaryStep ==
  ASSUME Going, [Next]_vars PROVE OneCanaryTrace'
<1> DEFINE A == Len(dep') > 0 =>
                  /\ dep'[1].step = (IF pc' > 10 THEN 2 ELSE 1)
                  /\ dep'[1].status \in {"DEPLOYING", "PAUSED"}
           B == pc' > 10 => /\ proc'[2].want = 1
                            /\ dep'[1].status = "PAUSED" => proc'[2].running = 1
           C == pc' > 8 => noted'.canary = 2
<1>1. SUFFICES ASSUME fault = "oneCanary" PROVE A /\ B /\ C
  BY Place DEF OneCanaryTrace
<1>2. /\ IInv /\ MadeInv /\ IInv' /\ MadeInv' /\ scenario' = scenario
      /\ scenario = "steps" /\ pc \in Nat \ {0} /\ pc <= 16 /\ verdict = "running"
      /\ Len(dep) > 0 => /\ dep[1].step = (IF pc > 10 THEN 2 ELSE 1)
                         /\ dep[1].status \in {"DEPLOYING", "PAUSED"}
      /\ pc > 10 => proc[2].want = 1 /\ (dep[1].status = "PAUSED" => proc[2].running = 1)
      /\ pc > 8 => noted.canary = 2
  <2>1. OneCanaryTrace
    BY DEF Going, Trace
  <2>2. DeadEnd(scenario, fault) = 16
    BY <1>1 DEF DeadEnd
  <2>3. QED  BY <1>1, <2>1, <2>2, Place, TestedBy DEF OneCanaryTrace
<1>3. /\ Len(dep) \in 0..1 /\ (Len(dep) = 0 <=> pc <= 3) /\ Len(proc) = Len(dep) + 1
      /\ \A d \in 1..Len(dep) : d = 1 /\ Len(dep) = 1
  BY <1>2, OneDeployment DEF First
<1>4. /\ Len(StepTargets) \in Nat /\ Len(StepTargets) > 1
      /\ Len(dep) = 1 =>
           dep[1].strategy = "canary" /\ dep[1].targets = StepTargets /\ InSteps(1)
  <2>1. Len(StepTargets) \in Nat /\ Len(StepTargets) > 1
    BY DeploymentsAssumption DEF Going, AsWritten
  <2>2. ASSUME Len(dep) = 1
        PROVE  dep[1].strategy = "canary" /\ dep[1].targets = StepTargets
    BY <1>2, <2>2, FirstMade DEF MadeInv, Specs
  <2>3. ASSUME Len(dep) = 1 PROVE InSteps(1)
    BY <1>2, <2>1, <2>2, <2>3 DEF InSteps
  <2>4. QED  BY <2>1, <2>2, <2>3
<1>5. pc > 3 => Len(dep) = 1 /\ 1 \in 1..Len(dep) /\ 2 \in 1..Len(proc) /\ dep[1].proc = 2
  <2>1. ASSUME pc > 3 PROVE Len(dep) = 1 /\ Len(proc) = 2
    BY <1>2, <1>3, <2>1
  <2>2. QED  BY <1>2, <2>1, Known
<1>6. CASE Stays \/ Aside
  BY <1>2, <1>6, Place, Unmoved
<1>7. CASE GoesOn
  <2>1. pc' = pc + 1 /\ dep' = dep /\ proc' = proc
    BY <1>7, Place, Unmoved
  <2>2. pc # 10 /\ (pc = 8 => Spot.op = "note")
    <3>1. Spot.op # "continue"
      BY <1>7 DEF GoesOn, Awaited, Asserted
    <3>2. Script("steps")[10].op = "continue" /\ Script("steps")[8].op = "note"
      BY TwoTurns DEF Going, Continue, Note
    <3>3. QED  BY <1>2, <3>1, <3>2 DEF Spot
  <2>3. A /\ B
    BY <1>2, <2>1, <2>2
  <2>4. C
    <3>1. CASE Spot.op = "note"
      <4>1. noted'.canary = Newest
        BY <1>7, <3>1 DEF GoesOn, Awaited, Asserted
      <4>2. pc > 3 => Newest = 2
        BY <1>2, <1>5, NewestSecond
      <4>3. QED  BY <1>2, <2>1, <4>1, <4>2
    <3>2. CASE Spot.op # "note"
      <4>1. noted' = noted
        BY <1>7, <3>2 DEF GoesOn
      <4>2. QED  BY <1>2, <2>1, <2>2, <3>2, <4>1
    <3>3. QED  BY <3>1, <3>2
  <2>5. QED  BY <2>3, <2>4
<1>8. ASSUME NEW p \in 1..Len(proc), Diego(p) PROVE A /\ B /\ C
  <2>1. dep' = dep /\ pc' = pc /\ noted' = noted
    BY <1>2, <1>8, DiegoEffect, Place
  <2>2. pc > 10 => /\ proc'[2].want = proc[2].want
                   /\ proc[2].running = proc[2].want => proc'[2].running = proc[2].running
    BY <1>2, <1>5, <1>8, DiegoEffect
  <2>3. QED  BY <1>2, <2>1, <2>2
<1>9. ASSUME NEW d \in 1..Len(dep), Update(d) PROVE A /\ B /\ C
  <2>1. /\ UNCHANGED <<chosen, driver>> /\ fresh' \in BOOLEAN
    BY <1>2, <1>9, UpdateEffect, Zenon
  <2>2. d = 1 /\ Len(dep) = 1
    BY <1>3
  <2>3. pc' = pc /\ noted' = noted
    BY <1>9, Place
  <2>4. Pause(d)
    <3>1. ~RollOn(d)
      BY <1>2, <1>4, <2>2, RollOnEffect DEF CanRollOn
    <3>2. ~Finish(d)
      BY <1>2, <1>4, <2>2, FinishEffect DEF CanFinish
    <3>3. ~FinishCancel(d)
      BY <1>2, <2>2, FinishCancelEffect DEF CanFinishCancel
    <3>4. QED  BY <1>2, <1>9, <3>1, <3>2, <3>3, UpdateEffect
  <2>5. CanPause(1) /\ Marked(1, "PAUSED") /\ proc' = proc
    BY <1>1, <1>2, <2>1, <2>2, <2>4, PauseEffect
  <2>6. dep'[1].step = dep[1].step /\ dep'[1].status = "PAUSED"
    <3>1. 1 \in 1..Len(dep)
      BY <2>2
    <3>2. QED  BY <2>5, <3>1 DEF Marked
  <2>7. pc > 10 => proc[2].running = proc[2].want
    BY <1>2, <1>5, <2>5 DEF CanPause, Up
  <2>8. QED  BY <1>2, <2>2, <2>3, <2>5, <2>6, <2>7
<1>10. CASE PostDeployment
  <2>1. dep'[1].step = 1 /\ dep'[1].status = "DEPLOYING" /\ pc' = 4
    BY <1>2, <1>10, PostedFirst DEF First
  <2>2. QED  BY <2>1
<1>11. CASE ContinueDeployment
  <2>1. /\ Spot.op = "continue" /\ Len(dep) = 1 /\ dep'[1].status = "DEPLOYING"
        /\ dep'[1].targets = dep[1].targets
        /\ dep'[1].step = dep[1].step + 1 /\ noted' = noted
        /\ dep'[1].step <= Len(dep[1].targets) => proc'[2].want = 1
    BY <1>1, <1>2, <1>11, ContinueEffect
  <2>2. pc = 10
    <3> DEFINE q == Script("steps")
    <3>1. /\ q[1] = Serves("dora") /\ q[2] = NoteWorker
          /\ q[3] = Create("canary", "static", StepTargets, 1)
          /\ q[4] = TwoWebs /\ q[5] = Status(1, "PAUSED") /\ q[6] = Serves("static")
          /\ q[7] = Serves("dora") /\ q[8] = Note /\ q[9] = Running("canary", 1)
          /\ q[11] = Status(1, "DEPLOYING") /\ q[12] = Status(1, "PAUSED")
          /\ q[13] = Serves("static") /\ q[14] = Serves("dora") /\ q[15] = Note
          /\ q[16] = Running("canary", 2)
      BY TwoTurns DEF Going
    <3> HIDE DEF q
    <3>2. /\ q[1].op = "serves" /\ q[2].op = "noteWorker" /\ q[3].op = "create"
          /\ q[4].op = "twoWebs" /\ q[5].op = "status" /\ q[6].op = "serves"
          /\ q[7].op = "serves" /\ q[8].op = "note" /\ q[9].op = "running"
      BY <3>1 DEF Serves, NoteWorker, Create, TwoWebs, Status, Note, Running
    <3>3. /\ q[11].op = "status" /\ q[12].op = "status" /\ q[13].op = "serves"
          /\ q[14].op = "serves" /\ q[15].op = "note" /\ q[16].op = "running"
      BY <3>1 DEF Serves, Status, Note, Running
    <3>4. q[pc].op = "continue"
      BY <1>2, <2>1 DEF Spot, q
    <3>5. pc \in 1..16
      BY <1>2
    <3>6. \/ pc = 1 \/ pc = 2 \/ pc = 3 \/ pc = 4 \/ pc = 5 \/ pc = 6 \/ pc = 7 \/ pc = 8
          \/ pc = 9 \/ pc = 10 \/ pc = 11 \/ pc = 12 \/ pc = 13 \/ pc = 14 \/ pc = 15
          \/ pc = 16
      BY <3>5
    <3>7. QED  BY <3>2, <3>3, <3>4, <3>6
  <2>3. pc' = 11
    BY <1>11, <2>2, Place
  <2>4. dep'[1].step = 2 /\ proc'[2].want = 1 /\ noted'.canary = 2
    BY <1>2, <1>4, <2>1, <2>2
  <2>5. QED  BY <2>1, <2>3, <2>4
<1>12. ~CancelDeployment
  BY <1>2, NeverCancels
<1>13. ~ScaleApp
  BY <1>1, NeverScales
<1>14. QED
  BY <1>6, <1>7, <1>8, <1>9, <1>10, <1>11, <1>12, <1>13, Kinds DEF Going

\* A prompt spec lets the updater make one change between two looks.
LEMMA OneChange ==
  ASSUME IInv, Telling, fault = "oneInFlight", Spot.op # "sleep",
         NEW d \in 1..Len(dep), Update(d)
  PROVE  ~fresh
BY DEF Update, Waited, AtStep, Telling

LEMMA RampStep ==
  ASSUME Going, [Next]_vars PROVE RampTrace'
<1> DEFINE A == Len(dep') > 0 =>
                  /\ dep'[1].status = "DEPLOYING"
                  /\ proc'[2].want <= pc' - 2 /\ (~fresh' => proc'[2].want < pc' - 2)
           B == pc' > 4 => noted'.canary = 2
<1>1. SUFFICES ASSUME fault = "oneInFlight", scenario = "inFlight" PROVE A /\ B
  BY Place DEF RampTrace
<1>2. /\ IInv /\ MadeInv /\ IInv' /\ MadeInv' /\ scenario' = scenario
      /\ pc \in 1..5 /\ pc' \in 1..5 /\ verdict = "running"
      /\ Len(dep) > 0 =>
           /\ dep[1].status = "DEPLOYING"
           /\ proc[2].want <= pc - 2 /\ (~fresh => proc[2].want < pc - 2)
      /\ pc > 4 => noted.canary = 2
  <2>1. RampTrace
    BY DEF Going, Trace
  <2>2. DeadEnd(scenario, fault) = 5
    BY <1>1 DEF DeadEnd
  <2>3. QED  BY <1>1, <2>1, <2>2, Place DEF RampTrace
<1>3. /\ Len(dep) \in 0..1 /\ (Len(dep) = 0 <=> pc <= 2) /\ Len(proc) = Len(dep) + 1
      /\ \A d \in 1..Len(dep) : d = 1 /\ Len(dep) = 1
  BY <1>1, <1>2, OneDeployment DEF First
<1>4. /\ Spot.op = CASE pc = 1 -> "serves" [] pc = 2 -> "create" [] pc = 3 -> "twoWebs"
                     [] pc = 4 -> "note" [] pc = 5 -> "wants"
      /\ Script(scenario)[2].strategy = "rolling"
  <2> DEFINE q == Script("inFlight")
  <2>1. /\ q[1].op = "serves" /\ q[2].op = "create" /\ q[3].op = "twoWebs"
        /\ q[4].op = "note" /\ q[5].op = "wants" /\ q[2].strategy = "rolling"
    BY InFlightScriptSteps DEF Serves, Create, TwoWebs, Note, Wants
  <2>2. Spot = q[pc] /\ Script(scenario) = q
    BY <1>1 DEF Spot
  <2> HIDE DEF q
  <2>3. pc = 1 \/ pc = 2 \/ pc = 3 \/ pc = 4 \/ pc = 5
    BY <1>2
  <2>4. QED  BY <2>1, <2>2, <2>3
<1>5. Len(dep) = 1 =>
        /\ dep[1].strategy = "rolling" /\ ~InSteps(1) /\ dep[1].proc = 2
        /\ 1 \in 1..Len(dep) /\ 2 \in 1..Len(proc) /\ proc[2].want \in Nat
        /\ Live = {1, 2} /\ Newest = 2 /\ pc > 2
  <2>1. ASSUME Len(dep) = 1
        PROVE  /\ dep[1].strategy = "rolling"
               /\ 1 \in 1..Len(dep) /\ 2 \in 1..Len(proc) /\ pc > 2
    BY <1>1, <1>2, <1>3, <2>1, FirstMade DEF MadeInv, Specs
  <2>2. ASSUME Len(dep) = 1 PROVE ~InSteps(1)
    BY <2>1, <2>2 DEF InSteps
  <2>3. ASSUME Len(dep) = 1 PROVE dep[1].proc = 2 /\ proc[2].want \in Nat
    <3>1. proc[2] \in Procs /\ dep[1].proc = 2 /\ Instances \in Nat
      BY <1>2, <2>1, <2>3, Known
    <3>2. QED  BY <3>1 DEF Procs
  <2>4. ASSUME Len(dep) = 1 PROVE Live = {1, 2} /\ Newest = 2
    BY <1>2, <2>4, NewestSecond
  <2>5. QED  BY <2>1, <2>2, <2>3, <2>4
<1>6. Len(dep) = 0 \/ Len(dep) = 1
  BY <1>3
<1>7. CASE Aside
  <2>1. UNCHANGED <<dep, proc, pc, noted, fresh>>
    BY <1>7 DEF Aside
  <2>2. QED  BY <1>2, <2>1
<1>8. CASE Stays
  <2>1. UNCHANGED <<dep, proc, pc, noted>>
    BY <1>8 DEF Stays
  <2>2. Len(dep) = 0
    <3>1. ASSUME Len(dep) = 1 PROVE FALSE
      <4>1. CASE pc = 5
        <5>1. Spot.op = "wants" /\ Seen
          BY <1>4, <1>8, <4>1 DEF Stays, Awaited
        <5>2. Spot = Ends(fault)
          BY <1>1, <1>2, <4>1, InFlightScriptSteps DEF Spot, Ends
        <5>3. Spot.n = MaxInFlight
          BY <1>1, <5>2 DEF Ends, Wants
        <5>4. proc[2].want = MaxInFlight
          BY <1>2, <4>1, <5>1, <5>3 DEF Seen
        <5>5. MaxInFlight \in Nat /\ MaxInFlight > 3
          BY DeploymentsAssumption DEF Going, AsWritten
        <5>6. QED  BY <1>2, <3>1, <4>1, <5>4, <5>5
      <4>2. CASE pc # 5
        <5>1. Spot.op = "twoWebs" /\ ~Sure
          BY <1>2, <1>4, <1>5, <1>8, <3>1, <4>2 DEF Stays, Awaited
        <5>2. Live = {1, 2} /\ 1 # 2
          BY <1>5, <3>1
        <5>3. \E p, r \in Live : p # r
          BY <5>2, Zenon
        <5>4. Sure
          BY <5>1, <5>3 DEF Seen, Sure
        <5>5. QED  BY <5>1, <5>4
      <4>3. QED  BY <4>1, <4>2
    <3>2. QED  BY <1>6, <3>1
  <2>3. QED  BY <1>2, <2>1, <2>2
<1>9. CASE GoesOn
  <2>1. pc' = pc + 1 /\ dep' = dep /\ proc' = proc /\ pc \in 1..4
    BY <1>2, <1>9, Place, Unmoved
  <2>2. A
    BY <1>2, <1>5, <1>6, <2>1
  <2>3. B
    <3>1. ASSUME pc = 4 PROVE noted'.canary = 2
      <4>1. Spot.op = "note" /\ Len(dep) = 1
        BY <1>3, <1>4, <1>6, <3>1
      <4>2. noted'.canary = Newest
        BY <1>9, <4>1 DEF GoesOn, Awaited, Asserted
      <4>3. QED  BY <1>5, <4>1, <4>2
    <3>2. QED  BY <2>1, <3>1
  <2>4. QED  BY <2>2, <2>3
<1>10. ASSUME NEW p \in 1..Len(proc), Diego(p) PROVE A /\ B
  <2>1. dep' = dep /\ UNCHANGED <<pc, noted, fresh>>
    BY <1>2, <1>10, DiegoEffect, Place
  <2>2. Len(dep) = 1 => proc'[2].want = proc[2].want
    BY <1>2, <1>5, <1>10, DiegoEffect
  <2>3. QED  BY <1>2, <1>6, <2>1, <2>2
<1>11. ASSUME NEW d \in 1..Len(dep), Update(d) PROVE A /\ B
  <2>1. UNCHANGED <<chosen, driver>> /\ fresh' \in BOOLEAN
    BY <1>2, <1>11, UpdateEffect, Zenon
  <2>2. d = 1 /\ Len(dep) = 1
    BY <1>3
  <2>3. UNCHANGED <<pc, noted>> /\ fresh' = TRUE
    BY <1>11, Place
  <2>4. ~fresh
    <3>1. Spot.op # "sleep" /\ Telling
      BY <1>2, <1>4 DEF Going
    <3>2. QED  BY <1>1, <1>2, <1>11, <3>1, OneChange
  <2>5. RollOn(d)
    <3>1. ~Pause(d)
      BY <1>2, <1>5, <2>1, <2>2, PauseEffect DEF CanPause
    <3>2. ~Finish(d)
      <4>1. ASSUME Finish(d) PROVE FALSE
        <5>1. proc[2].want = Instances
          BY <1>1, <1>2, <1>5, <2>2, <4>1, FinishEffect DEF CanFinish, Size
        <5>2. Instances \in Nat /\ Instances > 3
          BY DeploymentsAssumption DEF Going, AsWritten
        <5>3. QED  BY <1>2, <1>5, <2>2, <5>1, <5>2
      <4>2. QED  BY <4>1
    <3>3. ~FinishCancel(d)
      BY <1>2, <2>2, FinishCancelEffect DEF CanFinishCancel
    <3>4. QED  BY <1>2, <1>11, <3>1, <3>2, <3>3, UpdateEffect
  <2>6. dep' = dep /\ proc'[2].want <= proc[2].want + 1 /\ proc'[2].want \in Nat
    <3>1. dep' = dep /\ proc'[1 + 1].want <= proc[1 + 1].want + 1 /\ SameWebs
      BY <1>1, <1>2, <2>2, <2>5, RollOnEffect
    <3>2. 2 \in 1..Len(proc') /\ proc' \in Seq(Procs) /\ Instances \in Nat
      BY <1>2, <1>5, <2>2, <3>1, DeploymentsAssumption DEF SameWebs, IInv, TypeOK, Procs
    <3>3. proc'[2] \in Procs
      BY <3>2
    <3>4. QED  BY <3>1, <3>2, <3>3 DEF Procs
  <2>7. QED  BY <1>2, <1>5, <2>2, <2>3, <2>4, <2>6
<1>12. CASE PostDeployment
  <2>1. /\ dep'[1].status = "DEPLOYING" /\ pc' = 3 /\ fresh' = TRUE /\ pc = 2
        /\ Spot.strategy # "canary" => proc'[2].want = 1
    BY <1>1, <1>2, <1>12, PostedFirst DEF First
  <2>2. Spot.strategy = "rolling"
    BY <1>4, <2>1 DEF Spot
  <2>3. QED  BY <2>1, <2>2
<1>13. ~ContinueDeployment
  <2>1. Spot.op # "continue"
    BY <1>2, <1>4
  <2>2. QED  BY <1>2, <2>1, ContinueEffect
<1>14. ~CancelDeployment
  BY <1>1, <1>2, NeverCancels
<1>15. ~ScaleApp
  BY <1>1, NeverScales
<1>16. QED
  BY <1>7, <1>8, <1>9, <1>10, <1>11, <1>12, <1>13, <1>14, <1>15, Kinds DEF Going

LEMMA CanaryRampStep ==
  ASSUME Going, [Next]_vars PROVE CanaryRampTrace'
<1> DEFINE A == Len(dep') > 0 =>
                  /\ dep'[1].status \in {"DEPLOYING", "PAUSED"}
                  /\ pc' <= 6 => dep'[1].step = 1 /\ proc'[2].want = 1
                  /\ pc' > 6 => /\ dep'[1].step = 2 /\ proc'[2].want <= pc' - 5
                                /\ ~fresh' => proc'[2].want < pc' - 5
           B == pc' > 5 => noted'.canary = 2
<1>1. SUFFICES ASSUME fault = "oneInFlight", scenario = "inFlightCanary" PROVE A /\ B
  <2>1. pc' \in Nat
    BY Place
  <2>2. pc' <= 6 \/ pc' > 6
    BY <2>1
  <2>3. QED  BY <2>1, <2>2, Place DEF CanaryRampTrace
<1>2. /\ IInv /\ MadeInv /\ IInv' /\ MadeInv' /\ scenario' = scenario
      /\ pc \in 1..8 /\ pc' \in 1..8 /\ verdict = "running"
      /\ Len(dep) > 0 =>
           /\ dep[1].status \in {"DEPLOYING", "PAUSED"}
           /\ pc <= 6 => dep[1].step = 1 /\ proc[2].want = 1
           /\ pc > 6 => /\ dep[1].step = 2 /\ proc[2].want <= pc - 5
                        /\ ~fresh => proc[2].want < pc - 5
      /\ pc > 5 => noted.canary = 2
  <2>1. CanaryRampTrace
    BY DEF Going, Trace
  <2>2. DeadEnd(scenario, fault) = 8
    BY <1>1 DEF DeadEnd
  <2>3. QED  BY <1>1, <2>1, <2>2, Place DEF CanaryRampTrace
<1>3. /\ Len(dep) \in 0..1 /\ (Len(dep) = 0 <=> pc <= 2) /\ Len(proc) = Len(dep) + 1
      /\ \A d \in 1..Len(dep) : d = 1 /\ Len(dep) = 1
  BY <1>1, <1>2, OneDeployment DEF First
<1>4. /\ pc = 1 => Spot.op = "serves"
      /\ pc = 2 => Spot.op = "create"
      /\ pc = 3 => Spot.op = "twoWebs"
      /\ pc = 4 => Spot.op = "status"
      /\ pc = 5 => Spot.op = "note"
      /\ pc = 6 => Spot.op = "continue"
      /\ pc = 7 => Spot = WantsNot(1)
      /\ pc = 8 => Spot = Wants(MaxInFlight)
      /\ Script(scenario)[2].strategy = "canary" /\ Script(scenario)[2].targets = <<1>>
  <2> DEFINE q == Script("inFlightCanary")
  <2>1. /\ q[1].op = "serves" /\ q[2].op = "create" /\ q[3].op = "twoWebs"
        /\ q[4].op = "status" /\ q[5].op = "note" /\ q[6].op = "continue"
        /\ q[7] = WantsNot(1) /\ q[8] = Wants(MaxInFlight)
        /\ q[2].strategy = "canary" /\ q[2].targets = <<1>>
    BY InFlightCanaryScriptSteps DEF Serves, Create, TwoWebs, Status, Note, Continue, Wants
  <2>2. Spot = q[pc] /\ Script(scenario) = q
    BY <1>1 DEF Spot
  <2> HIDE DEF q
  <2>3. QED  BY <2>1, <2>2
<1>5. Len(dep) = 1 =>
        /\ dep[1].strategy = "canary" /\ dep[1].targets = <<1>> /\ dep[1].proc = 2
        /\ 1 \in 1..Len(dep) /\ 2 \in 1..Len(proc) /\ proc[2].want \in Nat
        /\ InSteps(1) <=> pc <= 6
        /\ Newest = 2 /\ pc > 2
  <2>1. ASSUME Len(dep) = 1
        PROVE  /\ dep[1].strategy = "canary" /\ dep[1].targets = <<1>>
               /\ 1 \in 1..Len(dep) /\ 2 \in 1..Len(proc) /\ pc > 2
    BY <1>1, <1>2, <1>3, <2>1, FirstMade DEF MadeInv, Specs
  <2>2. ASSUME Len(dep) = 1 PROVE InSteps(1) <=> pc <= 6
    <3>1. InSteps(1) <=> dep[1].step <= 1
      BY <2>1, <2>2 DEF InSteps
    <3>2. CASE pc <= 6
      BY <1>2, <2>2, <3>1, <3>2
    <3>3. CASE pc > 6
      BY <1>2, <2>2, <3>1, <3>3
    <3>4. QED  BY <1>2, <3>2, <3>3
  <2>3. ASSUME Len(dep) = 1 PROVE dep[1].proc = 2 /\ proc[2].want \in Nat
    <3>1. proc[2] \in Procs /\ dep[1].proc = 2 /\ Instances \in Nat
      BY <1>2, <2>1, <2>3, Known
    <3>2. QED  BY <3>1 DEF Procs
  <2>4. ASSUME Len(dep) = 1 PROVE Newest = 2
    BY <1>2, <2>4, NewestSecond
  <2>5. QED  BY <2>1, <2>2, <2>3, <2>4
<1>6. Len(dep) = 0 \/ Len(dep) = 1
  BY <1>3
<1>7. CASE Aside
  <2>1. UNCHANGED <<dep, proc, pc, noted, fresh>>
    BY <1>7 DEF Aside
  <2>2. QED  BY <1>2, <2>1
<1>8. CASE Stays
  <2>1. UNCHANGED <<dep, proc, pc, noted>> /\ fresh' = FALSE
    BY <1>8 DEF Stays
  <2>2. ASSUME Len(dep) = 1, pc > 6 PROVE proc[2].want < pc - 5
    <3>1. pc = 7
      <4>1. ASSUME pc = 8 PROVE FALSE
        <5>1. Spot.op = "wants" /\ Spot.n = MaxInFlight
          BY <1>4, <4>1 DEF Wants
        <5>2. Seen
          BY <1>8, <5>1 DEF Stays, Awaited
        <5>3. proc[2].want = MaxInFlight
          BY <1>2, <4>1, <5>1, <5>2 DEF Seen
        <5>4. MaxInFlight \in Nat /\ MaxInFlight > 3
          BY DeploymentsAssumption DEF Going, AsWritten
        <5>5. QED  BY <1>2, <2>2, <4>1, <5>3, <5>4
      <4>2. QED  BY <1>2, <2>2, <4>1
    <3>2. ~(proc[noted.canary].want # 1)
      <4>1. Spot.op = "wantsNot" /\ Spot.n = 1
        BY <1>4, <3>1 DEF WantsNot
      <4>2. ~Sure
        BY <1>8, <4>1 DEF Stays
      <4>3. QED  BY <4>1, <4>2 DEF Seen, Sure
    <3>3. proc[2].want = 1
      BY <1>2, <3>1, <3>2
    <3>4. QED  BY <3>1, <3>3
  <2>3. A
    BY <1>2, <1>6, <2>1, <2>2
  <2>4. QED  BY <1>2, <2>1, <2>3
<1>9. CASE GoesOn
  <2>1. pc' = pc + 1 /\ dep' = dep /\ proc' = proc /\ pc \in 1..7 /\ pc # 6
    <3>1. Spot.op # "continue"
      BY <1>9 DEF GoesOn, Awaited, Asserted
    <3>2. pc # 6
      BY <1>4, <3>1
    <3>3. QED  BY <1>2, <1>9, <3>2, Place, Unmoved
  <2>2. A
    <3>1. CASE pc <= 5
      BY <1>2, <2>1, <3>1
    <3>2. CASE pc = 7
      <4>1. pace = "prompt"
        BY <1>1 DEF Going, Telling
      <4>2. fresh' = FALSE /\ Seen
        BY <1>4, <1>9, <3>2, <4>1 DEF GoesOn, WantsNot
      <4>3. QED  BY <1>2, <1>5, <1>6, <2>1, <3>2
    <3>3. QED  BY <2>1, <3>1, <3>2
  <2>3. B
    <3>1. ASSUME pc = 5 PROVE noted'.canary = 2
      <4>1. Spot.op = "note" /\ Len(dep) = 1
        BY <1>3, <1>4, <1>6, <3>1
      <4>2. noted'.canary = Newest
        BY <1>9, <4>1 DEF GoesOn, Awaited, Asserted
      <4>3. QED  BY <1>5, <4>1, <4>2
    <3>2. ASSUME pc = 7 PROVE noted'.canary = 2
      <4>1. noted' = noted
        BY <1>4, <1>9, <3>2 DEF GoesOn, WantsNot
      <4>2. QED  BY <1>2, <3>2, <4>1
    <3>3. QED  BY <2>1, <3>1, <3>2
  <2>4. QED  BY <2>2, <2>3
<1>10. ASSUME NEW p \in 1..Len(proc), Diego(p) PROVE A /\ B
  <2>1. dep' = dep /\ UNCHANGED <<pc, noted, fresh>>
    BY <1>2, <1>10, DiegoEffect, Place
  <2>2. Len(dep) = 1 => proc'[2].want = proc[2].want
    BY <1>2, <1>5, <1>10, DiegoEffect
  <2>3. QED  BY <1>2, <1>6, <2>1, <2>2
<1>11. ASSUME NEW d \in 1..Len(dep), Update(d) PROVE A /\ B
  <2>1. UNCHANGED <<chosen, driver>> /\ fresh' \in BOOLEAN
    BY <1>2, <1>11, UpdateEffect, Zenon
  <2>2. d = 1 /\ Len(dep) = 1
    BY <1>3
  <2>3. UNCHANGED <<pc, noted>> /\ fresh' = TRUE
    BY <1>11, Place
  <2>4. CASE Pause(d)
    <3>1. CanPause(1) /\ Marked(1, "PAUSED") /\ proc' = proc
      BY <1>1, <1>2, <2>1, <2>2, <2>4, PauseEffect
    <3>2. pc <= 6
      BY <1>5, <2>2, <3>1 DEF CanPause
    <3>3. dep'[1].step = dep[1].step /\ dep'[1].status = "PAUSED"
      BY <1>5, <2>2, <3>1 DEF Marked
    <3>4. QED  BY <1>2, <2>2, <2>3, <3>1, <3>2, <3>3
  <2>5. CASE RollOn(d)
    <3>1. dep' = dep /\ proc'[1 + 1].want <= proc[1 + 1].want + 1 /\ SameWebs /\ CanRollOn(1)
      BY <1>1, <1>2, <2>2, <2>5, RollOnEffect
    <3>2. proc'[2].want \in Nat
      <4>1. 2 \in 1..Len(proc') /\ proc' \in Seq(Procs) /\ Instances \in Nat
        BY <1>2, <1>5, <2>2, <3>1, DeploymentsAssumption DEF SameWebs, IInv, TypeOK, Procs
      <4>2. proc'[2] \in Procs
        BY <4>1
      <4>3. QED  BY <4>1, <4>2 DEF Procs
    <3>3. pc > 6
      BY <1>2, <1>5, <2>2, <3>1 DEF CanRollOn
    <3>4. ~fresh
      <4>1. Spot.op # "sleep" /\ Telling
        BY <1>2, <1>4, <3>3 DEF Going, WantsNot, Wants
      <4>2. QED  BY <1>1, <1>2, <1>11, <4>1, OneChange
    <3>5. QED  BY <1>2, <1>5, <2>2, <2>3, <3>1, <3>2, <3>3, <3>4
  <2>6. ~Finish(d)
    <3>1. ASSUME Finish(d) PROVE FALSE
      <4>1. proc[2].want = Instances /\ ~InSteps(1)
        BY <1>1, <1>2, <1>5, <2>2, <3>1, FinishEffect DEF CanFinish, Size
      <4>2. Instances \in Nat /\ Instances > 3
        BY DeploymentsAssumption DEF Going, AsWritten
      <4>3. pc > 6
        BY <1>2, <1>5, <2>2, <4>1
      <4>4. QED  BY <1>2, <1>5, <2>2, <4>1, <4>2, <4>3
    <3>2. QED  BY <3>1
  <2>7. ~FinishCancel(d)
    BY <1>2, <2>2, FinishCancelEffect DEF CanFinishCancel
  <2>8. QED  BY <1>2, <1>11, <2>4, <2>5, <2>6, <2>7, UpdateEffect
<1>12. CASE PostDeployment
  <2>1. /\ dep'[1].status = "DEPLOYING" /\ dep'[1].step = 1 /\ pc' = 3 /\ pc = 2
        /\ Spot.strategy = "canary" => proc'[2].want = Spot.targets[1]
    BY <1>1, <1>2, <1>12, PostedFirst DEF First
  <2>2. Spot.strategy = "canary" /\ Spot.targets = <<1>>
    BY <1>4, <2>1 DEF Spot
  <2>3. proc'[2].want = 1
    BY <2>1, <2>2
  <2>4. QED  BY <2>1, <2>3
<1>13. CASE ContinueDeployment
  <2>1. /\ Spot.op = "continue" /\ Len(dep) = 1 /\ dep'[1].status = "DEPLOYING"
        /\ fresh' = TRUE /\ noted' = noted
        /\ dep'[1].step = dep[1].step + 1
        /\ ~(dep'[1].step <= Len(dep[1].targets)) => proc' = proc
    BY <1>1, <1>2, <1>13, ContinueEffect
  <2>2. pc = 6 /\ pc' = 7
    <3>1. pc # 7
      BY <1>4, <2>1 DEF WantsNot
    <3>2. /\ pc # 1 /\ pc # 2 /\ pc # 3 /\ pc # 4 /\ pc # 5 /\ pc # 8
      BY <1>4, <2>1 DEF Wants
    <3>3. pc = 6
      BY <1>2, <3>1, <3>2
    <3>4. QED  BY <1>13, <3>3, Place
  <2>3. dep[1].step = 1 /\ proc[2].want = 1 /\ dep'[1].step = 2
    BY <1>2, <2>1, <2>2
  <2>4. ~(2 <= Len(dep[1].targets))
    <3>1. Len(<<1>>) = 1
      OBVIOUS
    <3>2. Len(dep[1].targets) = 1
      BY <1>5, <2>1, <3>1
    <3>3. QED  BY <3>2
  <2>5. proc' = proc
    BY <2>1, <2>3, <2>4
  <2>6. QED  BY <1>2, <2>1, <2>2, <2>3, <2>5
<1>14. ~CancelDeployment
  BY <1>1, <1>2, NeverCancels
<1>15. ~ScaleApp
  BY <1>1, NeverScales
<1>16. QED
  BY <1>7, <1>8, <1>9, <1>10, <1>11, <1>12, <1>13, <1>14, <1>15, Kinds DEF Going

LEMMA BlindStep ==
  ASSUME Going, [Next]_vars PROVE BlindTrace'
<1>1. SUFFICES ASSUME fault = "deploysBlindly", pc' = 3 PROVE dep'[1].status # "DEPLOYING"
  BY Place DEF BlindTrace
<1>2. /\ IInv /\ MadeInv /\ IInv' /\ scenario' = scenario /\ scenario = "badDroplet"
      /\ pc \in 1..3 /\ verdict = "running"
      /\ pc = 3 => dep[1].status # "DEPLOYING"
  <2>1. BlindTrace
    BY DEF Going, Trace
  <2>2. DeadEnd(scenario, fault) = 3
    BY <1>1 DEF DeadEnd
  <2>3. QED  BY <1>1, <2>1, <2>2, Place, TestedBy DEF BlindTrace
<1>3. /\ \A d \in 1..Len(dep) : d = 1 /\ Len(dep) = 1
      /\ pc > 1 => Len(dep) = 1
  BY <1>2, OneDeployment DEF First
<1>4. pc = 2 => Spot.op = "sleep"
  BY <1>2, BadDropletScriptSteps DEF Spot, Sleep
<1>5. CASE Stays \/ Aside
  <2>1. pc' = pc /\ dep' = dep
    BY <1>5, Place, Unmoved
  <2>2. QED  BY <1>1, <1>2, <2>1
<1>6. CASE GoesOn
  <2>1. pc = 2 /\ dep' = dep
    BY <1>1, <1>2, <1>6, Place, Unmoved
  <2>2. Idle /\ Spot.op = "sleep"
    BY <1>4, <1>6, <2>1 DEF GoesOn, Awaited, Asserted
  <2>3. Waited /\ Len(dep) = 1 /\ 1 \in 1..Len(dep)
    BY <1>2, <1>3, <2>1, <2>2 DEF Waited, AtStep
  <2>4. ~CanFinish(1)
    BY <2>2, <2>3 DEF Idle
  <2>5. ~InSteps(1)
    <3>1. dep[1].strategy = "rolling"
      BY <1>2, <2>3, FirstMade DEF MadeInv, Specs
    <3>2. QED  BY <3>1 DEF InSteps
  <2>6. QED  BY <1>1, <2>1, <2>4, <2>5 DEF CanFinish
<1>7. ASSUME NEW p \in 1..Len(proc), Diego(p) PROVE dep'[1].status # "DEPLOYING"
  <2>1. pc' = pc /\ dep' = dep
    BY <1>2, <1>7, DiegoEffect, Place
  <2>2. QED  BY <1>1, <1>2, <2>1
<1>8. ASSUME NEW d \in 1..Len(dep), Update(d) PROVE dep'[1].status # "DEPLOYING"
  <2>1. UNCHANGED <<chosen, driver>> /\ fresh' \in BOOLEAN
    BY <1>2, <1>8, UpdateEffect, Zenon
  <2>2. d = 1
    BY <1>3
  <2>3. dep[1].status # "DEPLOYING"
    BY <1>1, <1>2, <1>8, Place
  <2>4. FinishCancel(d)
    BY <1>2, <1>8, <2>1, <2>2, <2>3, UpdateEffect, PauseEffect, RollOnEffect, FinishEffect
       DEF CanPause, CanRollOn, CanFinish
  <2>5. QED  BY <1>2, <2>2, <2>4, FinishCancelEffect DEF Marked
<1>9. ~PostDeployment
  <2>1. ASSUME PostDeployment PROVE FALSE
    <3>1. pc = 1 /\ pc' = pc + 1
      BY <1>2, <2>1, PostedFirst DEF First
    <3>2. QED  BY <1>1, <3>1
  <2>2. QED  BY <2>1
<1>10. ~ContinueDeployment
  <2>1. ASSUME ContinueDeployment PROVE FALSE
    <3>1. pc = 2 /\ Spot.op = "continue"
      BY <1>1, <1>2, <2>1, Place, ContinueEffect
    <3>2. QED  BY <1>4, <3>1
  <2>2. QED  BY <2>1
<1>11. ~CancelDeployment
  BY <1>2, NeverCancels
<1>12. ~ScaleApp
  BY <1>1, NeverScales
<1>13. QED
  BY <1>5, <1>6, <1>7, <1>8, <1>9, <1>10, <1>11, <1>12, Kinds DEF Going

LEMMA TraceStep ==
  ASSUME Going, [Next]_vars PROVE Trace'
BY WithheldStep, WorkerStep, LosesStep, OriginalStep, CanaryStep, SkipStep, OneCanaryStep,
   RampStep, CanaryRampStep, BlindStep DEF Trace

-----------------------------------------------------------------------------
(* At the dead end the spec does not see what it looks for. *)

\* Where the steps that end a spec find its deployment paused.
LEMMA PausedThere ==
  /\ PausedAt("cancel", 6)
  /\ PausedAt("continue", 7)
  /\ AsWritten => PausedAt("steps", 7) /\ PausedAt("steps", 16)
<1>1. ASSUME NEW s, NEW n \in Nat \ {0}, Script(s)[n] = Status(1, "PAUSED"),
             Script(s)[n + 1] = Serves("static")
      PROVE  \A k \in (n + 1)..(n + 2 - 1) : Script(s)[k].op \in Quiet
  <2>1. Script(s)[n + 1].op \in Quiet
    BY <1>1 DEF Serves, Quiet
  <2>2. \A k \in (n + 1)..(n + 2 - 1) : k = n + 1
    OBVIOUS
  <2>3. QED  BY <2>1, <2>2
<1>2. PausedAt("continue", 7)
  <2>1. Script("continue")[5] = Status(1, "PAUSED") /\ Script("continue")[6] = Serves("static")
    BY ContinueScriptSteps
  <2>2. \A k \in (5 + 1)..(7 - 1) : Script("continue")[k].op \in Quiet
    BY <1>1, <2>1
  <2>3. QED  BY <2>1, <2>2 DEF PausedAt
<1>3. PausedAt("cancel", 6)
  <2>1. Script("cancel")[4] = Status(1, "PAUSED") /\ Script("cancel")[5] = Serves("static")
    BY CancelScriptSteps
  <2>2. \A k \in (4 + 1)..(6 - 1) : Script("cancel")[k].op \in Quiet
    BY <1>1, <2>1
  <2>3. QED  BY <2>1, <2>2 DEF PausedAt
<1>4. ASSUME AsWritten PROVE PausedAt("steps", 7)
  <2>1. Script("steps")[5] = Status(1, "PAUSED") /\ Script("steps")[6] = Serves("static")
    BY <1>4, TwoTurns
  <2>2. \A k \in (5 + 1)..(7 - 1) : Script("steps")[k].op \in Quiet
    BY <1>1, <2>1
  <2>3. QED  BY <2>1, <2>2 DEF PausedAt
<1>5. ASSUME AsWritten PROVE PausedAt("steps", 16)
  <2> DEFINE q == Script("steps")
  <2>1. /\ q[12] = Status(1, "PAUSED") /\ q[13] = Serves("static") /\ q[14] = Serves("dora")
        /\ q[15] = Note
    BY <1>5, TwoTurns
  <2> HIDE DEF q
  <2>2. q[13].op \in Quiet /\ q[14].op \in Quiet /\ q[15].op \in Quiet
    BY <2>1 DEF Serves, Note, Quiet
  <2>3. \A k \in (12 + 1)..(16 - 1) : k = 13 \/ k = 14 \/ k = 15
    OBVIOUS
  <2>4. \A k \in (12 + 1)..(16 - 1) : q[k].op \in Quiet
    BY <2>2, <2>3
  <2>5. QED  BY <2>1, <2>4 DEF PausedAt, q
<1>6. QED  BY <1>2, <1>3, <1>4, <1>5

\* A spec that runs, with a broken promise to tell and what it leaves behind.
Standing ==
  /\ AsWritten /\ IInv /\ MadeInv /\ Telling /\ fault \in Broken(scenario)
  /\ verdict = "running" /\ pc = DeadEnd(scenario, fault) /\ Trace

LEMMA Last ==
  ASSUME Standing
  PROVE  /\ scenario \in Specs /\ Spot = Ends(fault) /\ pc \in 1..Len(Script(scenario))
         /\ pc > First(scenario) /\ 1 \in 1..Len(dep) /\ Len(proc) = Len(dep) + 1
         /\ 1 \in 1..Len(proc) /\ 2 \in 1..Len(proc)
<1>1. scenario \in Specs /\ IInv /\ pc = DeadEnd(scenario, fault)
      /\ fault \in Broken(scenario) /\ AsWritten
  BY Known DEF Standing
<1>2. Spot = Ends(fault) /\ pc \in 1..Len(Script(scenario)) /\ pc > First(scenario)
  BY <1>1, AtTheEnd DEF Spot
<1>3. Len(dep) > 0 /\ Len(dep) \in Nat /\ Len(proc) = Len(dep) + 1
  <2>1. pc \in Nat /\ First(scenario) \in 1..3 /\ Len(dep) \in 0..2
        /\ Len(proc) = Len(dep) + 1
    BY <1>1, Known DEF First
  <2>2. ~(pc <= First(scenario))
    BY <1>2, <2>1
  <2>3. Len(dep) = 1 \/ Len(dep) = 2
    BY <1>1, <2>2, Zenon DEF IInv, DepInv
  <2>4. QED  BY <2>1, <2>3
<1>4. QED  BY <1>1, <1>2, <1>3

LEMMA WithheldUnseen ==
  ASSUME Standing, fault \in {"neverPauses", "neverSupersedes", "neverDeploys"}
  PROVE  Spot.op = "status" /\ ~Seen
<1>1. Spot = Status(1, Withheld)
  BY Last DEF Ends, Withheld
<1>2. dep[1].status # Withheld
  BY Last DEF Standing, Trace, WithheldTrace
<1>3. Spot.op = "status" /\ Spot.d = 1 /\ Spot.s = Withheld
  BY <1>1 DEF Status
<1>4. QED  BY <1>2, <1>3 DEF Seen

LEMMA LosesUnseen ==
  ASSUME Standing, fault = "losesOriginal" PROVE Spot.op = "serves" /\ ~Seen
<1>1. Spot.op = "serves" /\ Spot.v = "dora" /\ pc = First(scenario) + 4
  BY Last DEF Standing, Ends, Serves, DeadEnd
<1>2. scenario \in {"continue", "cancel", "steps"}
  BY Last, TestedBy DEF Standing
<1>3. PausedAt(scenario, pc)
  BY <1>1, <1>2, PausedThere DEF Standing, First
<1>4. Len(dep) = 1 /\ dep[1].status = "PAUSED"
  BY <1>1, <1>3 DEF Standing, IInv, PausedInv
<1>5. proc[1].running = 0 /\ Len(proc) = 2
  BY <1>4, Last DEF Standing, Trace, LosesTrace
<1>6. proc[2].droplet = "static"
  BY <1>2, <1>4, Last, FirstMade DEF Standing, MadeInv
<1>7. "dora" \notin Serving
  <2>1. ASSUME NEW q \in Live, proc[q].running > 0 PROVE proc[q].droplet # "dora"
    <3>1. q \in 1..2
      BY <1>5 DEF Live
    <3>2. q = 2
      BY <1>5, <2>1, <3>1
    <3>3. QED  BY <1>6, <3>2
  <2>2. QED  BY <2>1 DEF Serving
<1>8. QED  BY <1>1, <1>7 DEF Seen

LEMMA OriginalUnseen ==
  ASSUME Standing, fault = "keepsOriginal"
  PROVE  Spot.op = "only" /\ ~Sure
<1>1. Spot.op = "only" /\ Spot.v = "static"
  BY Last DEF Ends, Only
<1>2. proc[1].live /\ proc[1].running > 0 /\ proc[1].droplet = "dora"
  BY DEF Standing, Trace, OriginalTrace, MadeInv
<1>3. "dora" \in Serving
  <2>1. 1 \in {q \in Live : proc[q].running > 0}
    BY <1>2, Last DEF Live
  <2>2. QED  BY <1>2, <2>1 DEF Serving
<1>4. Serving # {"static"}
  BY <1>3
<1>5. QED  BY <1>1, <1>4 DEF Sure

LEMMA CanaryUnseen ==
  ASSUME Standing, fault = "keepsCanary" PROVE Spot.op = "never" /\ ~Sure
<1>1. Spot.op = "never" /\ Spot.v = "static"
  BY Last DEF Ends, Never
<1>2. /\ scenario \in {"cancel", "supersede"} /\ IInv /\ MadeInv /\ CanaryTrace
      /\ scenario \in Specs
  BY Last, TestedBy DEF Standing, Trace
<1>3. pc = 12
  <2>1. Len(Script(scenario)) = 13
    BY <1>2, CancelScriptSteps, SupersedeScriptSteps
  <2>2. QED  BY <2>1 DEF Standing, DeadEnd
<1>4. dep[1].status # "DEPLOYING"
  <2>1. CASE scenario = "cancel"
    <3>1. CanceledAt(scenario, pc)
      <4>1. Script("cancel")[9].op = "cancel"
        BY CancelScriptSteps DEF Cancel
      <4>2. 9 \in 1..(pc - 1)
        BY <1>3
      <4>3. QED  BY <2>1, <4>1, <4>2 DEF CanceledAt
    <3>2. QED  BY <1>2, <3>1 DEF IInv, CancelInv
  <2>2. CASE scenario = "supersede"
    <3>1. Len(dep) = 2
      BY <1>2, <1>3, <2>2 DEF IInv, DepInv, First
    <3>2. QED  BY <1>2, <3>1 DEF IInv, DepInv
  <2>3. QED  BY <1>2, <2>1, <2>2
<1>5. Len(dep) > 0
  BY Last
<1>6. proc[2].live /\ proc[2].running = 1
  BY <1>2, <1>4, <1>5 DEF Standing, CanaryTrace
<1>7. proc[2].droplet = "static"
  BY <1>2, <1>5, OneStep
<1>8. "static" \in Serving
  <2>1. 2 \in {q \in Live : proc[q].running > 0}
    BY <1>6, Last DEF Live
  <2>2. QED  BY <1>7, <2>1 DEF Serving
<1>9. QED  BY <1>1, <1>8 DEF Sure

LEMMA WorkerUnseen ==
  ASSUME Standing, fault = "noWorkerRestart" PROVE Spot.op = "workerStarted" /\ ~Seen
<1>1. Spot.op = "workerStarted"
  BY Last DEF Ends, WorkerStarted
<1>2. started = {}
  <2>1. pc > First(scenario) /\ pc \in Nat /\ First(scenario) \in Nat /\ WorkerTrace
    BY Last, Known DEF Standing, Trace, First
  <2>2. QED  BY <2>1 DEF Standing, WorkerTrace
<1>3. QED  BY <1>1, <1>2 DEF Seen

LEMMA StepsUnseen ==
  ASSUME Standing, fault \in {"skipsSteps", "oneCanary"}
  PROVE  Spot.op \in {"status", "running"} /\ ~Seen
<1>1. scenario = "steps" /\ IInv
  BY Last, TestedBy DEF Standing
<1>2. CASE fault = "skipsSteps"
  <2>1. Spot.op = "status" /\ Spot.d = 1 /\ Spot.s = "PAUSED" /\ pc = 12
    BY <1>2, Last DEF Standing, Ends, Status, DeadEnd
  <2>2. dep[1].status # "PAUSED"
    BY <1>2, <2>1, Last DEF Standing, Trace, SkipTrace
  <2>3. QED  BY <2>1, <2>2 DEF Seen
<1>3. CASE fault = "oneCanary"
  <2>1. Spot.op = "running" /\ Spot.who = "canary" /\ Spot.n = 2 /\ pc = 16
    BY <1>3, Last DEF Standing, Ends, Running, DeadEnd
  <2>2. dep[1].status = "PAUSED"
    BY <1>1, <2>1, PausedThere DEF Standing, IInv, PausedInv
  <2>3. noted.canary = 2 /\ proc[2].running = 1
    BY <1>3, <2>1, <2>2 DEF Standing, Trace, OneCanaryTrace
  <2>4. QED  BY <2>1, <2>3 DEF Seen
<1>4. QED  BY <1>2, <1>3

LEMMA RampUnseen ==
  ASSUME Standing, fault = "oneInFlight" PROVE Spot.op = "wants" /\ ~Seen
<1>1. Spot.op = "wants" /\ Spot.n = MaxInFlight
  BY Last DEF Ends, Wants
<1>2. MaxInFlight \in Nat /\ MaxInFlight > 3
  BY DeploymentsAssumption DEF Standing, AsWritten
<1>3. noted.canary = 2 /\ proc[2].want <= 3
  <2>1. CASE scenario = "inFlight"
    <3>1. pc = 5
      BY <2>1 DEF Standing, DeadEnd
    <3>2. QED  BY <2>1, <3>1, Last DEF Standing, Trace, RampTrace
  <2>2. CASE scenario = "inFlightCanary"
    <3>1. pc = 8
      BY <2>2 DEF Standing, DeadEnd
    <3>2. QED  BY <2>2, <3>1, Last DEF Standing, Trace, CanaryRampTrace
  <2>3. QED  BY <2>1, <2>2, Last, TestedBy DEF Standing
<1>4. proc[2].want \in Nat
  <2>1. proc[2] \in Procs /\ Instances \in Nat
    BY Last, Known DEF Standing
  <2>2. QED  BY <2>1 DEF Procs
<1>5. QED  BY <1>1, <1>2, <1>3, <1>4 DEF Seen

LEMMA BlindUnseen ==
  ASSUME Standing, fault \in {"deploysBlindly", "healthyBlindly"}
  PROVE  Spot.op = "is" /\ ~Seen
<1>1. /\ Spot.op = "is" /\ Spot.d = 1 /\ Spot.s = "DEPLOYING"
      /\ fault = "deploysBlindly" => pc = 3
  BY Last DEF Standing, Ends, Is, DeadEnd
<1>2. CASE fault = "deploysBlindly"
  <2>1. dep[1].status # "DEPLOYING"
    BY <1>1, <1>2 DEF Standing, Trace, BlindTrace
  <2>2. QED  BY <1>1, <2>1 DEF Seen
<1>3. CASE fault = "healthyBlindly"
  BY <1>1, <1>3 DEF Seen, Healthy
<1>4. QED  BY <1>2, <1>3

\* Without luck no look shows it, and the luck would be counted.
LEMMA Blocked ==
  ASSUME Standing
  PROVE  /\ Spot.op \in Awaited \cup Asserted /\ Spot.op # "wantsNot"
         /\ ~Seen \/ (fault \in {"keepsOriginal", "keepsCanary"} /\ ~Sure
                       /\ Spot.op \in {"only", "never"})
<1>1. fault \in {"neverPauses", "losesOriginal", "keepsOriginal", "keepsCanary",
                 "noWorkerRestart", "neverSupersedes", "skipsSteps", "oneCanary",
                 "neverDeploys", "oneInFlight", "deploysBlindly", "healthyBlindly"}
  BY Last DEF Standing, Broken, Specs
<1>2. CASE fault \in {"keepsOriginal", "keepsCanary"}
  BY <1>2, OriginalUnseen, CanaryUnseen DEF Awaited, Asserted
<1>3. CASE fault \notin {"keepsOriginal", "keepsCanary"}
  BY <1>1, <1>3, WithheldUnseen, LosesUnseen, WorkerUnseen, StepsUnseen, RampUnseen,
     BlindUnseen DEF Awaited, Asserted
<1>4. QED  BY <1>2, <1>3

-----------------------------------------------------------------------------
(* No fault passes. *)

Held ==
  IInv /\ MadeInv /\ fault \in {"none"} \cup Broken(scenario) /\ HeldInv

LEMMA InitHeld == ASSUME AsWritten, Init PROVE Held
<1>1. IInv
  BY InitHolds
<1>2. /\ pc = 1 /\ verdict = "running" /\ Len(dep) = 0 /\ proc[1].droplet = "dora"
      /\ proc[1].live /\ proc[1].want = Instances /\ proc[1].running = Instances
      /\ started = {} /\ fault \in {"none"} \cup Broken(scenario)
  BY DEF Init
<1>3. MadeInv
  BY <1>2 DEF MadeInv
<1>4. ASSUME Telling PROVE pc <= DeadEnd(scenario, fault)
  <2>1. scenario \in Specs /\ fault \in Broken(scenario)
    BY <1>1, <1>2, <1>4, Known DEF Telling
  <2>2. DeadEnd(scenario, fault) \in 1..Len(Script(scenario))
    BY <2>1, AtTheEnd
  <2>3. Len(Script(scenario)) \in Nat
    BY <1>1, Known DEF Order
  <2>4. QED  BY <1>2, <2>2, <2>3
<1>5. Instances \in Nat \ {0} /\ \A d \in 1..Len(dep) : FALSE
  BY <1>2, DeploymentsAssumption
<1>6. WithheldTrace /\ WorkerTrace /\ LosesTrace /\ OriginalTrace /\ CanaryTrace
  BY <1>2, <1>5 DEF WithheldTrace, WorkerTrace, LosesTrace, OriginalTrace, CanaryTrace
<1>7. SkipTrace /\ OneCanaryTrace /\ RampTrace /\ CanaryRampTrace /\ BlindTrace
  BY <1>2 DEF SkipTrace, OneCanaryTrace, RampTrace, CanaryRampTrace, BlindTrace
<1>8. QED  BY <1>1, <1>2, <1>3, <1>4, <1>6, <1>7 DEF Held, HeldInv, Trace

\* What a step of the driver leaves of the position, the luck and the starts.
LEMMA OneStepOn ==
  ASSUME [Next]_vars, verdict' # "failed"
  PROVE  /\ UNCHANGED <<pc, verdict>> \/ Advance
         /\ lucky => lucky'
         /\ started \subseteq started' \/ (NoteWorkerStart /\ Advance)
<1>1. CASE Platform \/ Neighbour \/ UNCHANGED vars
  <2>1. ASSUME NEW p \in 1..Len(proc), Diego(p) PROVE UNCHANGED <<driver, started>>
    BY <2>1 DEF Diego
  <2>2. ASSUME NEW d \in 1..Len(dep), Update(d)
        PROVE  UNCHANGED driver /\ started \subseteq started'
    BY <2>2 DEF Update, Pause, RollOn, Finish, FinishCancel
  <2>3. CASE Neighbour \/ UNCHANGED vars
    BY <2>3 DEF Neighbour, vars, driver
  <2>4. QED  BY <1>1, <2>1, <2>2, <2>3 DEF Platform, driver
<1>2. CASE ScaleApp \/ PostDeployment
  BY <1>2 DEF ScaleApp, PostDeployment, GoOn
<1>3. CASE ContinueDeployment \/ CancelDeployment
  BY <1>3 DEF ContinueDeployment, CancelDeployment, GoOn, Fail
<1>4. CASE NoteWorkerStart
  BY <1>4, NoteWorkerEffect
<1>5. CASE LooksOnly
  <2>1. started' = started
    BY <1>5, LooksEffect
  <2>2. CASE SetHealthCheckTimeoutOnProcess \/ SleepOver \/ Misread
    BY <2>1, <2>2 DEF SetHealthCheckTimeoutOnProcess, SleepOver, Misread, GoOn
  <2>3. CASE NoteProcesses
    BY <2>1, <2>3 DEF NoteProcesses, Fail
  <2> DEFINE On == (UNCHANGED <<pc, verdict>> \/ Advance) /\ (lucky => lucky')
  <2>4. CASE Poll \/ Check
    <3>1. Fail \/ Show \/ UNCHANGED driver
      BY <2>4 DEF Poll, Check
    <3>2. ASSUME Show PROVE On
      <4>1. Advance /\ lucky' = (lucky \/ (Spot.op \in {"only", "never"} /\ ~Sure))
        BY <3>2 DEF Show
      <4>2. lucky => lucky'
        BY <4>1, Zenon
      <4>3. QED  BY <4>1, <4>2
    <3>3. ASSUME UNCHANGED driver PROVE On
      BY <3>3 DEF driver
    <3>4. ~Fail
      BY DEF Fail
    <3>5. QED  BY <2>1, <3>1, <3>2, <3>3, <3>4
  <2>5. CASE Timeout \/ Hiccup
    BY <2>5 DEF Timeout, Hiccup, Fail
  <2>6. QED  BY <1>5, <2>2, <2>3, <2>4, <2>5 DEF LooksOnly
<1>6. QED  BY <1>1, <1>2, <1>3, <1>4, <1>5 DEF Next, Driver, LooksOnly

\* What can be told after a step could be told before it.
LEMMA ToldBefore ==
  ASSUME AsWritten, IInv, fault \in {"none"} \cup Broken(scenario), [Next]_vars,
         verdict' # "failed", Telling'
  PROVE  Telling
<1>1. /\ scenario \in Specs /\ fault' = fault /\ scenario' = scenario /\ pace' = pace
      /\ fault # "none" /\ fault \in Broken(scenario)
      /\ fault = "oneInFlight" => pace = "prompt"
      /\ fault \in {"keepsOriginal", "keepsCanary"} => ~lucky
  <2>1. scenario \in Specs /\ fault' = fault /\ scenario' = scenario /\ pace' = pace
    BY Known, ChosenOnce DEF chosen
  <2>2. /\ fault' # "none"
        /\ fault' = "oneInFlight" => pace' = "prompt"
        /\ fault' \in {"keepsOriginal", "keepsCanary"} => ~lucky'
    BY Zenon DEF Telling
  <2>3. lucky => lucky'
    BY OneStepOn
  <2>4. fault # "none" /\ (fault = "oneInFlight" => pace = "prompt")
    BY <2>1, <2>2
  <2>5. ASSUME fault \in {"keepsOriginal", "keepsCanary"} PROVE ~lucky
    <3>1. fault' \in {"keepsOriginal", "keepsCanary"}
      BY <2>1, <2>5
    <3>2. QED  BY <2>2, <2>3, <3>1
  <2>6. QED  BY <2>1, <2>4, <2>5
<1>2. ASSUME fault = "noWorkerRestart", ~(pc < First(scenario))
      PROVE  started \cap {"other", "old"} = {}
  <2>1. First(scenario) = 3 /\ pc \in Nat /\ scenario \in {"continue", "steps"}
    BY <1>1, <1>2, TestedBy, Known DEF First
  <2>2. ~NoteWorkerStart
    <3>1. ASSUME NoteWorkerStart PROVE FALSE
      <4>1. verdict = "running" /\ Spot.op = "noteWorker"
        BY <3>1, NoteWorkerEffect
      <4>2. pc = 2
        BY <2>1, <4>1, NotedBefore
      <4>3. QED  BY <1>2, <2>1, <4>2
    <3>2. QED  BY <3>1
  <2>3. started \subseteq started' /\ (pc' = pc \/ pc' = pc + 1)
    BY <2>2, OneStepOn DEF Advance
  <2>4. ~(pc' < First(scenario))
    BY <1>2, <2>1, <2>3
  <2>5. started' \cap {"other", "old"} = {}
    <3>1. fault' = "noWorkerRestart" /\ ~(pc' < First(scenario'))
      BY <1>1, <1>2, <2>4
    <3>2. QED  BY <3>1 DEF Telling
  <2>6. QED  BY <2>3, <2>5
<1>3. QED  BY <1>1, <1>2 DEF Telling

\* A spec that goes on has not come to its dead end.
LEMMA GoesOnBefore ==
  ASSUME Standing, [Next]_vars, verdict' # "failed", Telling'
  PROVE  pc' = pc /\ verdict' = verdict
<1>1. /\ IInv /\ verdict = "running"
      /\ Spot.op \in Awaited \cup Asserted /\ Spot.op # "wantsNot"
      /\ ~Seen \/ (fault \in {"keepsOriginal", "keepsCanary"} /\ ~Sure
                    /\ Spot.op \in {"only", "never"})
  BY Blocked DEF Standing
<1>2. Spot.op \notin {"create", "continue", "cancel", "note", "sleep", "scale",
                      "healthTimeout", "noteWorker", "wantsNot"}
  BY <1>1 DEF Awaited, Asserted
<1>3. /\ ~PostDeployment /\ ~ContinueDeployment /\ ~CancelDeployment /\ ~ScaleApp
      /\ ~NoteProcesses /\ ~SleepOver /\ ~SetHealthCheckTimeoutOnProcess
      /\ ~NoteWorkerStart /\ ~Misread
  BY <1>2 DEF PostDeployment, ContinueDeployment, CancelDeployment, ScaleApp, NoteProcesses,
              SleepOver, SetHealthCheckTimeoutOnProcess, NoteWorkerStart, Misread, AtStep
<1>4. ~Show
  <2>1. ASSUME Show PROVE FALSE
    <3>1. Seen /\ lucky' = (lucky \/ (Spot.op \in {"only", "never"} /\ ~Sure))
      BY <2>1 DEF Show
    <3>2. fault \in {"keepsOriginal", "keepsCanary"} /\ lucky'
      BY <1>1, <3>1
    <3>3. fault' = fault
      BY ChosenOnce DEF chosen
    <3>4. QED  BY <3>2, <3>3 DEF Telling
  <2>2. QED  BY <2>1
<1>5. CASE Platform \/ Neighbour \/ UNCHANGED vars
  BY <1>5 DEF Platform, Diego, Update, Neighbour, vars, driver
<1>6. CASE Poll \/ Check
  <2>1. Fail \/ UNCHANGED driver
    BY <1>4, <1>6 DEF Poll, Check
  <2>2. QED  BY <2>1 DEF Fail, driver
<1>7. CASE Timeout \/ Hiccup
  BY <1>7 DEF Timeout, Hiccup, Fail
<1>8. QED  BY <1>3, <1>5, <1>6, <1>7 DEF Next, Driver

LEMMA HeldSteps == ASSUME AsWritten, Held, [Next]_vars PROVE Held'
<1>1. /\ IInv /\ IInv' /\ MadeInv /\ MadeInv' /\ UNCHANGED chosen
      /\ fault' = fault /\ scenario' = scenario /\ pace' = pace
      /\ fault \in {"none"} \cup Broken(scenario)
      /\ (fault \in {"none"} \cup Broken(scenario))'
  <2>1. IInv /\ MadeInv /\ fault \in {"none"} \cup Broken(scenario)
    BY DEF Held
  <2>2. UNCHANGED chosen /\ fault' = fault /\ scenario' = scenario /\ pace' = pace
    BY ChosenOnce DEF chosen
  <2>3. IInv' /\ MadeInv'
    BY <2>1, Steps, MadeSteps
  <2>4. QED  BY <2>1, <2>2, <2>3
<1>2. SUFFICES ASSUME Telling', verdict' # "failed"
      PROVE  /\ verdict' = "running" /\ pc' <= DeadEnd(scenario', fault') /\ Trace'
  <2>1. CASE Telling' /\ verdict' # "failed"
    BY <1>1, <2>1 DEF Held, HeldInv
  <2>2. CASE ~(Telling' /\ verdict' # "failed")
    BY <1>1, <2>2 DEF Held, HeldInv
  <2>3. QED  BY <2>1, <2>2
<1>3. Telling
  BY <1>1, <1>2, ToldBefore
<1>4. /\ fault \in Broken(scenario) /\ scenario \in Specs
      /\ pc \in Nat /\ Len(Script(scenario)) \in Nat
      /\ DeadEnd(scenario, fault) \in 1..Len(Script(scenario))
  <2>1. fault \in Broken(scenario) /\ scenario \in Specs
    BY <1>1, <1>3, Known DEF Telling
  <2>2. QED  BY <1>1, <2>1, AtTheEnd, Known DEF Order
<1>5. verdict = "running" /\ pc <= DeadEnd(scenario, fault) /\ Trace
  <2>1. verdict = "running"
    <3>1. ASSUME verdict # "running" PROVE FALSE
      <4>1. verdict' = verdict
        BY <3>1, Ended
      <4>2. verdict = "passed"
        BY <1>1, <1>2, <3>1, <4>1 DEF IInv, TypeOK
      <4>3. QED  BY <1>3, <4>2 DEF Held, HeldInv
    <3>2. QED  BY <3>1
  <2>2. QED  BY <1>3, <2>1 DEF Held, HeldInv
<1>6. verdict' = "running" /\ pc' <= DeadEnd(scenario, fault)
  <2>1. CASE UNCHANGED <<pc, verdict>>
    BY <1>5, <2>1
  <2>2. CASE Advance /\ pc = DeadEnd(scenario, fault)
    <3>1. Standing
      BY <1>1, <1>3, <1>4, <1>5, <2>2 DEF Standing
    <3>2. pc' = pc
      BY <1>2, <3>1, GoesOnBefore
    <3>3. QED  BY <1>4, <2>2, <3>2 DEF Advance
  <2>3. CASE Advance /\ pc # DeadEnd(scenario, fault)
    <3>1. pc' = pc + 1 /\ pc < DeadEnd(scenario, fault) /\ pc # Len(Script(scenario))
      BY <1>4, <1>5, <2>3 DEF Advance
    <3>2. QED  BY <1>4, <2>3, <3>1 DEF Advance
  <2>4. QED  BY <1>2, <2>1, <2>2, <2>3, OneStepOn
<1>7. Trace'
  <2>1. Going
    BY <1>1, <1>2, <1>3, <1>4, <1>5, <1>6 DEF Going
  <2>2. QED  BY <2>1, TraceStep
<1>8. QED  BY <1>1, <1>6, <1>7

LEMMA HeldTells == ASSUME Held PROVE NoFaultPasses
<1>1. SUFFICES ASSUME verdict = "passed", pace = "prompt" \/ scenario \notin Ramps
      PROVE  fault \in {"none"} \cup Hidden
  BY DEF NoFaultPasses
<1>2. ~Telling
  BY <1>1 DEF Held, HeldInv
<1>3. CASE fault = "none"
  BY <1>3
<1>4. CASE fault = "noWorkerRestart" /\ started \cap {"other", "old"} # {}
  BY <1>4 DEF Hidden
<1>5. CASE fault \in {"keepsOriginal", "keepsCanary"} /\ lucky
  BY <1>5 DEF Hidden
<1>6. CASE fault = "oneInFlight" /\ pace # "prompt"
  <2>1. scenario \in Specs /\ fault \in Broken(scenario)
    BY <1>6, Known DEF Held
  <2>2. scenario \in Ramps
    BY <1>6, <2>1, TestedBy DEF Ramps
  <2>3. QED  BY <1>1, <1>6, <2>2
<1>7. QED  BY <1>2, <1>3, <1>4, <1>5, <1>6 DEF Telling

\* With the four canary steps and the four instances in flight of deployments.go no
\* spec passes on a platform that breaks a promise the spec is about, whatever the
\* order of polls, updates and starts of instances and whichever requests fail
\* (deployments.go:77-440), but for what its looks cannot tell: the start of another
\* worker, an instance that a curl has missed, and a ramp it came too late for.
THEOREM NoFaultGoesThrough == ASSUME AsWritten PROVE Spec => []NoFaultPasses
<1>1. Init => Held
  BY InitHeld
<1>2. Held /\ [Next]_vars => Held'
  BY HeldSteps
<1>3. Held => NoFaultPasses
  BY HeldTells
<1>4. QED  BY <1>1, <1>2, <1>3, PTL DEF Spec

=============================================================================
