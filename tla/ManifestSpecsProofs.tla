------------------------ MODULE ManifestSpecsProofs ------------------------
(***************************************************************************)
(* What the manifest specs leave behind, for any choice of specs, faults   *)
(* and failing requests: a registered broker has its app, and the cleanup  *)
(* finds everything.  The broker is made in the middle of one spec; the    *)
(* proof knows at which positions of its script, and that no other script  *)
(* has such a step.  And what they tell: that no spec passes on a platform *)
(* with a fault that is not in Unseen, because some step of its script     *)
(* blocks on it and a passing spec has been through them all.              *)
(***************************************************************************)
EXTENDS ManifestSpecs, SequenceTheorems, TLAPS

BrokerOps == {"newBroker", "pushBroker", "createBroker", "createService"}

PlainOps == {"apply", "complete", "failed", "restage", "unmap", "mapPorts", "restart",
             "addSidecar", "assignDroplet", "delete", "configureBroker", "publicizePlans",
             "errors"}

StepFeatures == {"env", "route", "instances", "health", "labels", "memory", "randomRoute", "left",
                 "right", "command", "process", "buildpacks", "droplet", "bound", "offering",
                 "public"}

\* The steps that do nothing to a broker.
Plain ==
  {Make(a) : a \in Apps \ {"broker"}} \cup {Does(op, a) : op \in PlainOps, a \in Apps}
    \cup {Has(a, f) : a \in Apps, f \in StepFeatures}
    \cup {HasNot(a, f) : a \in Apps, f \in StepFeatures}
    \cup {Shows(a, f) : a \in Apps, f \in StepFeatures}

\* Every step of a script.
Steps == Plain \cup {Does(op, "broker") : op \in BrokerOps}

-----------------------------------------------------------------------------
(* The scripts. *)

LEMMA PlainSteps ==
  /\ \A a \in Apps \ {"broker"} : Make(a) \in Plain
  /\ \A op \in PlainOps, a \in Apps : Does(op, a) \in Plain
  /\ \A a \in Apps, f \in StepFeatures :
       Has(a, f) \in Plain /\ HasNot(a, f) \in Plain /\ Shows(a, f) \in Plain
BY DEF Plain

LEMMA PlainOp == \A st \in Plain : st.op \notin BrokerOps
BY DEF Plain, PlainOps, BrokerOps, Make, Does, Has, HasNot, Shows

LEMMA PlainParts ==
  /\ One \in Seq(Plain) /\ Two \in Seq(Plain) /\ Applied \in Seq(Plain)
<1>1. Make("a1") \in Plain /\ Make("a2") \in Plain
  BY PlainSteps DEF Apps
<1>2. Does("apply", "a1") \in Plain /\ Does("complete", "a1") \in Plain
  BY PlainSteps DEF Apps, PlainOps
<1>3. One \in Seq(Plain)
  BY <1>1 DEF One
<1>4. <<Make("a2")>> \in Seq(Plain)
  BY <1>1
<1>5. Two \in Seq(Plain)
  BY <1>3, <1>4 DEF Two
<1>6. Applied \in Seq(Plain)
  BY <1>2 DEF Applied
<1> QED BY <1>3, <1>5, <1>6

LEMMA PlainInSteps == \A q \in Seq(Plain) : q \in Seq(Steps)
BY DEF Steps

LEMMA PlainMultiSpec == MultiSpec \in Seq(Plain) /\ Len(MultiSpec) > 0
<1>1. Has("a1", "env") \in Plain /\ Has("a2", "env") \in Plain /\ Shows("a1", "route") \in Plain
      /\ Shows("a2", "route") \in Plain
  BY PlainSteps DEF Apps, PlainOps, StepFeatures
<1> QED BY <1>1, PlainParts DEF MultiSpec

LEMMA PlainSingleSpec == SingleSpec \in Seq(Plain) /\ Len(SingleSpec) > 0
<1>1. Does("restage", "a1") \in Plain /\ Has("a1", "route") \in Plain /\ Has("a1", "instances") \in Plain
      /\ Has("a1", "env") \in Plain /\ Has("a1", "health") \in Plain /\ Has("a1", "labels") \in Plain
      /\ Has("a1", "memory") \in Plain
  BY PlainSteps DEF Apps, PlainOps, StepFeatures
<1> QED BY <1>1, PlainParts DEF SingleSpec

LEMMA PlainNoRouteSpec == NoRouteSpec \in Seq(Plain) /\ Len(NoRouteSpec) > 0
<1>1. HasNot("a1", "route") \in Plain
  BY PlainSteps DEF Apps, PlainOps, StepFeatures
<1> QED BY <1>1, PlainParts DEF NoRouteSpec

LEMMA PlainRandomRouteSpec == RandomRouteSpec \in Seq(Plain) /\ Len(RandomRouteSpec) > 0
<1>1. Does("unmap", "a1") \in Plain
  BY PlainSteps DEF Apps, PlainOps, StepFeatures
<1>2. Has("a1", "randomRoute") \in Plain
  BY PlainSteps DEF Apps, PlainOps, StepFeatures
<1> QED BY <1>1, <1>2, PlainParts DEF RandomRouteSpec

LEMMA PlainSidecarsSpec == SidecarsSpec \in Seq(Plain) /\ Len(SidecarsSpec) > 0
<1>1. Does("mapPorts", "a1") \in Plain /\ Does("restart", "a1") \in Plain /\ Shows("a1", "left") \in Plain
      /\ Shows("a1", "right") \in Plain
  BY PlainSteps DEF Apps, PlainOps, StepFeatures
<1> QED BY <1>1, PlainParts DEF SidecarsSpec

LEMMA PlainProcessSpec == ProcessSpec \in Seq(Plain) /\ Len(ProcessSpec) > 0
<1>1. Has("a1", "instances") \in Plain /\ Has("a1", "command") \in Plain /\ Has("a1", "health") \in Plain
  BY PlainSteps DEF Apps, PlainOps, StepFeatures
<1> QED BY <1>1, PlainParts DEF ProcessSpec, ProcessRead

LEMMA PlainTooSmallSpec == TooSmallSpec \in Seq(Plain) /\ Len(TooSmallSpec) > 0
<1>1. Does("addSidecar", "a1") \in Plain /\ Does("apply", "a1") \in Plain /\ Does("failed", "a1") \in Plain
      /\ Does("errors", "a1") \in Plain
  BY PlainSteps DEF Apps, PlainOps, StepFeatures
<1> QED BY <1>1, PlainParts DEF TooSmallSpec

LEMMA PlainPotatoSpec == PotatoSpec \in Seq(Plain) /\ Len(PotatoSpec) > 0
<1>1. Has("a1", "process") \in Plain /\ Has("a1", "instances") \in Plain /\ Has("a1", "command") \in Plain
      /\ Has("a1", "health") \in Plain
  BY PlainSteps DEF Apps, PlainOps, StepFeatures
<1> QED BY <1>1, PlainParts DEF PotatoSpec

LEMMA PlainBeanSpec == BeanSpec \in Seq(Plain) /\ Len(BeanSpec) > 0
<1>1. Has("a1", "process") \in Plain /\ Has("a1", "instances") \in Plain /\ Does("assignDroplet", "a1") \in Plain
      /\ Has("a1", "command") \in Plain
  BY PlainSteps DEF Apps, PlainOps, StepFeatures
<1> QED BY <1>1, PlainParts DEF BeanSpec

LEMMA PlainBuildpacksSpec == BuildpacksSpec \in Seq(Plain) /\ Len(BuildpacksSpec) > 0
<1>1. Has("a1", "buildpacks") \in Plain
  BY PlainSteps DEF Apps, PlainOps, StepFeatures
<1> QED BY <1>1, PlainParts DEF BuildpacksSpec

LEMMA PlainAutodetectSpec == AutodetectSpec \in Seq(Plain) /\ Len(AutodetectSpec) > 0
<1>1. Has("a1", "droplet") \in Plain
  BY PlainSteps DEF Apps, PlainOps, StepFeatures
<1> QED BY <1>1, PlainParts DEF AutodetectSpec

LEMMA PlainCustomSpec == CustomSpec \in Seq(Plain) /\ Len(CustomSpec) > 0
<1>1. Make("own") \in Plain
  BY PlainSteps DEF Apps, PlainOps, StepFeatures
<1>2. Does("restart", "own") \in Plain /\ Shows("own", "instances") \in Plain /\ Has("own", "process") \in Plain
      /\ Does("delete", "own") \in Plain
  BY PlainSteps DEF Apps, PlainOps, StepFeatures
<1> QED BY <1>1, <1>2, PlainParts DEF CustomSpec

LEMMA PlainScripts ==
  \A s \in Specs \ {"services"} : Script(s) \in Seq(Plain) /\ Len(Script(s)) > 0
<1> SUFFICES ASSUME NEW s \in Specs \ {"services"}
             PROVE  Script(s) \in Seq(Plain) /\ Len(Script(s)) > 0
  OBVIOUS
<1>1. CASE s = "multi"
  BY <1>1, PlainMultiSpec DEF Script
<1>2. CASE s = "single"
  BY <1>2, PlainSingleSpec DEF Script
<1>3. CASE s = "noRoute"
  BY <1>3, PlainNoRouteSpec DEF Script
<1>4. CASE s = "randomRoute"
  BY <1>4, PlainRandomRouteSpec DEF Script
<1>5. CASE s = "sidecars"
  BY <1>5, PlainSidecarsSpec DEF Script
<1>6. CASE s = "process"
  BY <1>6, PlainProcessSpec DEF Script
<1>7. CASE s = "tooSmall"
  BY <1>7, PlainTooSmallSpec DEF Script
<1>8. CASE s = "potato"
  BY <1>8, PlainPotatoSpec DEF Script
<1>9. CASE s = "bean"
  BY <1>9, PlainBeanSpec DEF Script
<1>10. CASE s = "buildpacks"
  BY <1>10, PlainBuildpacksSpec DEF Script
<1>11. CASE s = "autodetect"
  BY <1>11, PlainAutodetectSpec DEF Script
<1>12. CASE s = "custom"
  BY <1>12, PlainCustomSpec DEF Script
<1> QED BY <1>1, <1>2, <1>3, <1>4, <1>5, <1>6, <1>7, <1>8, <1>9, <1>10, <1>11, <1>12 DEF Specs

\* q goes on as t after its first n elements.
Continues(q, n, t) == \A i \in 1..Len(t) : q[n + i] = t[i]

\* A concatenation, part by part.
LEMMA ConcatLen ==
  \A S : \A s, t \in Seq(S) : s \o t \in Seq(S) /\ Len(s \o t) = Len(s) + Len(t)
BY ConcatProperties

LEMMA ConcatLeft == \A S : \A s, t \in Seq(S) : \A i \in 1..Len(s) : (s \o t)[i] = s[i]
<1> SUFFICES ASSUME NEW S, NEW s \in Seq(S), NEW t \in Seq(S), NEW i \in 1..Len(s)
             PROVE  (s \o t)[i] = s[i]
  OBVIOUS
<1>1. Len(s) \in Nat /\ Len(t) \in Nat
  OBVIOUS
<1> QED BY <1>1, ConcatProperties

LEMMA ConcatRight == \A S : \A s, t \in Seq(S) : Continues(s \o t, Len(s), t)
<1> SUFFICES ASSUME NEW S, NEW s \in Seq(S), NEW t \in Seq(S), NEW i \in 1..Len(t)
             PROVE  (s \o t)[Len(s) + i] = t[i]
  BY DEF Continues
<1>1. \A k \in 1..(Len(s) + Len(t)) : (s \o t)[k] = IF k <= Len(s) THEN s[k] ELSE t[k - Len(s)]
  BY ConcatProperties
<1>2. Len(s) \in Nat /\ Len(t) \in Nat
  OBVIOUS
<1>3. /\ Len(s) + i \in 1..(Len(s) + Len(t)) /\ ~(Len(s) + i <= Len(s))
      /\ (Len(s) + i) - Len(s) = i
  BY <1>2
<1> QED BY <1>1, <1>3

\* Where the services spec makes its broker: pushed at 4, created at 6.
LEMMA ServicesScript ==
  /\ Script("services") \in Seq(Steps) /\ Len(Script("services")) = 14
  /\ Script("services")[3].op = "newBroker" /\ Script("services")[4].op = "pushBroker"
  /\ \A i \in 1..14 :
       /\ Script("services")[i].op \in {"newBroker", "pushBroker"} => i \in {3, 4}
       /\ Script("services")[i].op = "createBroker" => i = 6
       /\ Script("services")[i].op = "createService" => i = 10
<1> DEFINE front == <<Does("newBroker", "broker"), Does("pushBroker", "broker"),
                      Does("configureBroker", "broker"), Does("createBroker", "broker"),
                      Has("broker", "offering"), Does("publicizePlans", "broker"),
                      Has("broker", "public"), Does("createService", "broker")>>
           back == <<Does("restage", "a1"), Has("a1", "bound")>>
<1> DEFINE made1 == Two \o front
           made2 == made1 \o Applied
           script == made2 \o back
<1>1. Plain \subseteq Steps /\ \A op \in BrokerOps : Does(op, "broker") \in Steps
  BY DEF Steps
<1>2. Two \in Seq(Steps) /\ Len(Two) = 2 /\ \A i \in 1..2 : Two[i] \in Plain
  <2>1. Make("a1") \in Plain /\ Make("a2") \in Plain
    BY PlainSteps DEF Apps
  <2>2. One \in Seq(Plain) /\ Len(One) = 1 /\ One[1] = Make("a1")
    BY <2>1 DEF One
  <2>3. <<Make("a2")>> \in Seq(Plain)
    BY <2>1
  <2>4. Two \in Seq(Plain) /\ Len(Two) = 2
    BY <2>2, <2>3 DEF Two
  <2>5. \A i \in 1..2 : Two[i] \in Plain
    BY <2>4
  <2> QED BY <2>4, <2>5, PlainInSteps
<1>3. front \in Seq(Steps) /\ Len(front) = 8
  <2>1. /\ Does("configureBroker", "broker") \in Plain /\ Does("publicizePlans", "broker") \in Plain
        /\ Has("broker", "offering") \in Plain /\ Has("broker", "public") \in Plain
    BY PlainSteps DEF Apps, PlainOps, StepFeatures
  <2> QED BY <2>1, <1>1 DEF BrokerOps
<1>4. Applied \in Seq(Steps) /\ Len(Applied) = 2 /\ \A i \in 1..2 : Applied[i] \in Plain
  BY PlainParts, <1>1 DEF Applied
<1>5. back \in Seq(Steps) /\ Len(back) = 2 /\ \A i \in 1..2 : back[i] \in Plain
  <2>1. Does("restage", "a1") \in Plain /\ Has("a1", "bound") \in Plain
    BY PlainSteps DEF Apps, PlainOps, StepFeatures
  <2> QED BY <2>1, <1>1
<1>6. /\ front[1] = Does("newBroker", "broker") /\ front[2] = Does("pushBroker", "broker")
      /\ front[3] = Does("configureBroker", "broker") /\ front[4] = Does("createBroker", "broker")
      /\ front[5] = Has("broker", "offering") /\ front[6] = Does("publicizePlans", "broker")
      /\ front[7] = Has("broker", "public") /\ front[8] = Does("createService", "broker")
  OBVIOUS
<1> HIDE DEF front, back
<1>7. /\ made1 \in Seq(Steps) /\ Len(made1) = 10
      /\ \A i \in 1..2 : made1[i] = Two[i]
      /\ \A i \in 1..8 : made1[2 + i] = front[i]
  <2>1. Two \in Seq(Steps) /\ front \in Seq(Steps) /\ Len(Two) = 2 /\ Len(front) = 8
    BY <1>2, <1>3
  <2>2. Two \o front \in Seq(Steps) /\ Len(Two \o front) = Len(Two) + Len(front)
    BY <2>1, ConcatLen, Zenon
  <2>3. \A i \in 1..Len(Two) : (Two \o front)[i] = Two[i]
    BY <2>1, ConcatLeft, Zenon
  <2>4. Continues(Two \o front, Len(Two), front)
    BY <2>1, ConcatRight, Zenon
  <2>5. made1 = Two \o front
    BY DEF made1
  <2> QED BY <2>1, <2>2, <2>3, <2>4, <2>5, SMTT(60) DEF Continues
<1> HIDE DEF made1
<1>8. /\ made2 \in Seq(Steps) /\ Len(made2) = 12
      /\ \A i \in 1..10 : made2[i] = made1[i]
      /\ \A i \in 1..2 : made2[10 + i] = Applied[i]
  <2>1. made1 \in Seq(Steps) /\ Applied \in Seq(Steps) /\ Len(made1) = 10 /\ Len(Applied) = 2
    BY <1>7, <1>4
  <2>2. made1 \o Applied \in Seq(Steps) /\ Len(made1 \o Applied) = Len(made1) + Len(Applied)
    BY <2>1, ConcatLen, Zenon
  <2>3. \A i \in 1..Len(made1) : (made1 \o Applied)[i] = made1[i]
    BY <2>1, ConcatLeft, Zenon
  <2>4. Continues(made1 \o Applied, Len(made1), Applied)
    BY <2>1, ConcatRight, Zenon
  <2>5. made2 = made1 \o Applied
    BY DEF made2
  <2> QED BY <2>1, <2>2, <2>3, <2>4, <2>5 DEF Continues
<1> HIDE DEF made2
<1>9. /\ script \in Seq(Steps) /\ Len(script) = 14
      /\ \A i \in 1..12 : script[i] = made2[i]
      /\ \A i \in 1..2 : script[12 + i] = back[i]
  <2>1. made2 \in Seq(Steps) /\ back \in Seq(Steps) /\ Len(made2) = 12 /\ Len(back) = 2
    BY <1>8, <1>5
  <2>2. made2 \o back \in Seq(Steps) /\ Len(made2 \o back) = Len(made2) + Len(back)
    BY <2>1, ConcatLen, Zenon
  <2>3. \A i \in 1..Len(made2) : (made2 \o back)[i] = made2[i]
    BY <2>1, ConcatLeft, Zenon
  <2>4. Continues(made2 \o back, Len(made2), back)
    BY <2>1, ConcatRight, Zenon
  <2>5. script = made2 \o back
    BY DEF script
  <2> QED BY <2>1, <2>2, <2>3, <2>4, <2>5, SMTT(30) DEF Continues
<1> HIDE DEF script
<1>10. Script("services") = script
  BY DEF Script, ServicesSpec, script, made2, made1, front, back
<1>11. \A i \in 1..2 : script[i].op \notin BrokerOps
  BY <1>2, <1>7, <1>8, <1>9, PlainOp
<1>12. script[11].op \notin BrokerOps /\ script[12].op \notin BrokerOps
  <2>1. script[11] = Applied[1] /\ script[12] = Applied[2]
    BY <1>8, <1>9
  <2> QED BY <2>1, <1>4, PlainOp
<1>13. script[13].op \notin BrokerOps /\ script[14].op \notin BrokerOps
  <2>1. script[13] = back[1] /\ script[14] = back[2]
    BY <1>9
  <2> QED BY <2>1, <1>5, PlainOp
<1>14. /\ script[3] = front[1] /\ script[4] = front[2] /\ script[5] = front[3]
       /\ script[6] = front[4] /\ script[7] = front[5] /\ script[8] = front[6]
       /\ script[9] = front[7] /\ script[10] = front[8]
  BY <1>7, <1>8, <1>9
<1>15. /\ script[3].op = "newBroker" /\ script[4].op = "pushBroker"
       /\ script[5].op = "configureBroker" /\ script[6].op = "createBroker"
       /\ script[7].op = "has" /\ script[8].op = "publicizePlans"
       /\ script[9].op = "has" /\ script[10].op = "createService"
  BY <1>14, <1>6 DEF Does, Has
<1> QED BY <1>9, <1>10, <1>11, <1>12, <1>13, <1>15 DEF BrokerOps

LEMMA BrokerPositions ==
  \A s \in Specs :
    /\ Len(Script(s)) \in Nat /\ Len(Script(s)) > 0
    /\ \A i \in 1..Len(Script(s)) : Script(s)[i].op \in BrokerOps => s = "services"
<1> SUFFICES ASSUME NEW s \in Specs
             PROVE  /\ Len(Script(s)) \in Nat /\ Len(Script(s)) > 0
                    /\ \A i \in 1..Len(Script(s)) :
                         Script(s)[i].op \in BrokerOps => s = "services"
  OBVIOUS
<1>1. CASE s = "services"
  BY <1>1, ServicesScript, SMTT(30)
<1>2. CASE s # "services"
  <2>1. Script(s) \in Seq(Plain) /\ Len(Script(s)) > 0
    BY <1>2, PlainScripts
  <2>2. \A i \in 1..Len(Script(s)) : Script(s)[i] \in Plain
    BY <2>1
  <2> QED BY <2>1, <2>2, PlainOp
<1> QED BY <1>1, <1>2

-----------------------------------------------------------------------------
(* What a script contains. *)

Contains(q, st) == \E i \in 1..Len(q) : q[i] = st

LEMMA ContainsConcat ==
  ASSUME NEW S, NEW p \in Seq(S), NEW q \in Seq(S), NEW st, Contains(p, st) \/ Contains(q, st)
  PROVE  Contains(p \o q, st)
<1>1. Len(p) \in Nat /\ Len(q) \in Nat
  OBVIOUS
<1>2. Len(p \o q) = Len(p) + Len(q)
  BY ConcatLen, Zenon
<1>3. CASE Contains(p, st)
  <2>1. PICK i \in 1..Len(p) : p[i] = st
    BY <1>3 DEF Contains
  <2>2. (p \o q)[i] = st
    BY <2>1, ConcatLeft, Zenon
  <2>3. i \in 1..Len(p \o q)
    BY <1>1, <1>2
  <2>4. QED  BY <2>2, <2>3 DEF Contains
<1>4. CASE Contains(q, st)
  <2>1. PICK i \in 1..Len(q) : q[i] = st
    BY <1>4 DEF Contains
  <2>2. (p \o q)[Len(p) + i] = st
    BY <2>1, ConcatRight, Zenon DEF Continues
  <2>3. Len(p) + i \in 1..Len(p \o q)
    BY <1>1, <1>2
  <2>4. QED  BY <2>2, <2>3 DEF Contains
<1>5. QED  BY <1>3, <1>4

\* Every spec but tooSmall waits for the job of its manifest and then looks.
LEMMA AroundApplied ==
  ASSUME NEW front \in Seq(Steps), NEW tail \in Seq(Steps)
  PROVE  /\ Contains(front \o Applied \o tail, Does("complete", "a1"))
         /\ \A i \in 1..Len(tail) : Contains(front \o Applied \o tail, tail[i])
<1>1. Applied \in Seq(Steps)
  BY PlainParts DEF Steps
<1>2. Applied[2] = Does("complete", "a1") /\ Len(Applied) = 2
  BY DEF Applied
<1>3. Contains(Applied, Does("complete", "a1"))
  BY <1>2 DEF Contains
<1>4. Contains(front \o Applied, Does("complete", "a1"))
  BY <1>1, <1>3, ContainsConcat
<1>5. front \o Applied \in Seq(Steps)
  BY <1>1, ConcatLen, Zenon
<1>6. Contains((front \o Applied) \o tail, Does("complete", "a1"))
  BY <1>4, <1>5, ContainsConcat
<1>7. ASSUME NEW i \in 1..Len(tail) PROVE Contains((front \o Applied) \o tail, tail[i])
  <2>1. Contains(tail, tail[i])
    BY DEF Contains
  <2>2. QED  BY <2>1, <1>5, ContainsConcat
<1>8. QED  BY <1>6, <1>7

\* The steps that can tell a fault, and the one that waits for the job.

LEMMA MultiSpecLooks ==
  /\ Contains(MultiSpec, Does("complete", "a1"))
  /\ Contains(MultiSpec, Has("a1", "env"))
  /\ Contains(MultiSpec, Has("a2", "env"))
  /\ Contains(MultiSpec, Shows("a1", "route"))
  /\ Contains(MultiSpec, Shows("a2", "route"))
<1> DEFINE tail == <<Has("a1", "env"), Has("a2", "env"), Shows("a1", "route"),
                     Shows("a2", "route")>>
<1>1. Two \in Seq(Steps)
  BY PlainParts, PlainInSteps
<1>2. tail \in Seq(Steps) /\ Len(tail) = 4
  <2>1. /\ Has("a1", "env") \in Plain
        /\ Has("a2", "env") \in Plain
        /\ Shows("a1", "route") \in Plain
        /\ Shows("a2", "route") \in Plain
    BY PlainSteps DEF Apps, PlainOps, StepFeatures
  <2>2. tail \in Seq(Plain) /\ Len(tail) = 4
    BY <2>1
  <2>3. QED  BY <2>2, PlainInSteps
<1>3. /\ tail[1] = Has("a1", "env")
      /\ tail[2] = Has("a2", "env")
      /\ tail[3] = Shows("a1", "route")
      /\ tail[4] = Shows("a2", "route")
  OBVIOUS
<1>4. MultiSpec = Two \o Applied \o tail
  BY DEF MultiSpec
<1> HIDE DEF tail
<1>5. /\ Contains(MultiSpec, Does("complete", "a1"))
      /\ \A i \in 1..4 : Contains(MultiSpec, tail[i])
  BY <1>1, <1>2, <1>4, AroundApplied
<1>6. QED  BY <1>3, <1>5

LEMMA SingleSpecLooks ==
  /\ Contains(SingleSpec, Does("complete", "a1"))
  /\ Contains(SingleSpec, Has("a1", "route"))
  /\ Contains(SingleSpec, Has("a1", "instances"))
  /\ Contains(SingleSpec, Has("a1", "env"))
  /\ Contains(SingleSpec, Has("a1", "health"))
  /\ Contains(SingleSpec, Has("a1", "labels"))
  /\ Contains(SingleSpec, Has("a1", "memory"))
<1> DEFINE tail == <<Does("restage", "a1"), Has("a1", "route"), Has("a1", "instances"), Has("a1", "env"),
                     Has("a1", "health"), Has("a1", "labels"), Has("a1", "memory")>>
<1>1. One \in Seq(Steps)
  BY PlainParts, PlainInSteps
<1>2. tail \in Seq(Steps) /\ Len(tail) = 7
  <2>1. /\ Does("restage", "a1") \in Plain
        /\ Has("a1", "route") \in Plain
        /\ Has("a1", "instances") \in Plain
        /\ Has("a1", "env") \in Plain
        /\ Has("a1", "health") \in Plain
        /\ Has("a1", "labels") \in Plain
        /\ Has("a1", "memory") \in Plain
    BY PlainSteps DEF Apps, PlainOps, StepFeatures
  <2>2. tail \in Seq(Plain) /\ Len(tail) = 7
    BY <2>1
  <2>3. QED  BY <2>2, PlainInSteps
<1>3. /\ tail[1] = Does("restage", "a1")
      /\ tail[2] = Has("a1", "route")
      /\ tail[3] = Has("a1", "instances")
      /\ tail[4] = Has("a1", "env")
      /\ tail[5] = Has("a1", "health")
      /\ tail[6] = Has("a1", "labels")
      /\ tail[7] = Has("a1", "memory")
  OBVIOUS
<1>4. SingleSpec = One \o Applied \o tail
  BY DEF SingleSpec
<1> HIDE DEF tail
<1>5. /\ Contains(SingleSpec, Does("complete", "a1"))
      /\ \A i \in 1..7 : Contains(SingleSpec, tail[i])
  BY <1>1, <1>2, <1>4, AroundApplied
<1>6. QED  BY <1>3, <1>5

LEMMA NoRouteSpecLooks ==
  /\ Contains(NoRouteSpec, Does("complete", "a1"))
<1> DEFINE tail == <<HasNot("a1", "route")>>
<1>1. One \in Seq(Steps)
  BY PlainParts, PlainInSteps
<1>2. tail \in Seq(Steps) /\ Len(tail) = 1
  <2>1. /\ HasNot("a1", "route") \in Plain
    BY PlainSteps DEF Apps, PlainOps, StepFeatures
  <2>2. tail \in Seq(Plain) /\ Len(tail) = 1
    BY <2>1
  <2>3. QED  BY <2>2, PlainInSteps
<1>3. tail[1] = HasNot("a1", "route")
  OBVIOUS
<1>4. NoRouteSpec = One \o Applied \o tail
  BY DEF NoRouteSpec
<1> HIDE DEF tail
<1>5. /\ Contains(NoRouteSpec, Does("complete", "a1"))
      /\ \A i \in 1..1 : Contains(NoRouteSpec, tail[i])
  BY <1>1, <1>2, <1>4, AroundApplied
<1>6. QED  BY <1>3, <1>5

LEMMA RandomRouteSpecLooks ==
  /\ Contains(RandomRouteSpec, Does("complete", "a1"))
  /\ Contains(RandomRouteSpec, Has("a1", "randomRoute"))
<1> DEFINE tail == <<Has("a1", "randomRoute")>>
<1>1. One \o <<Does("unmap", "a1")>> \in Seq(Steps)
  <2>1. Does("unmap", "a1") \in Plain
    BY PlainSteps DEF Apps, PlainOps
  <2>2. <<Does("unmap", "a1")>> \in Seq(Plain)
    BY <2>1
  <2>3. One \o <<Does("unmap", "a1")>> \in Seq(Plain)
    BY <2>2, PlainParts, ConcatLen, Zenon
  <2>4. QED  BY <2>3, PlainInSteps
<1>2. tail \in Seq(Steps) /\ Len(tail) = 1
  <2>1. /\ Has("a1", "randomRoute") \in Plain
    BY PlainSteps DEF Apps, PlainOps, StepFeatures
  <2>2. tail \in Seq(Plain) /\ Len(tail) = 1
    BY <2>1
  <2>3. QED  BY <2>2, PlainInSteps
<1>3. tail[1] = Has("a1", "randomRoute")
  OBVIOUS
<1>4. RandomRouteSpec = (One \o <<Does("unmap", "a1")>>) \o Applied \o tail
  BY DEF RandomRouteSpec
<1> HIDE DEF tail
<1>5. /\ Contains(RandomRouteSpec, Does("complete", "a1"))
      /\ \A i \in 1..1 : Contains(RandomRouteSpec, tail[i])
  BY <1>1, <1>2, <1>4, AroundApplied
<1>6. QED  BY <1>3, <1>5

LEMMA SidecarsSpecLooks ==
  /\ Contains(SidecarsSpec, Does("complete", "a1"))
  /\ Contains(SidecarsSpec, Shows("a1", "left"))
  /\ Contains(SidecarsSpec, Shows("a1", "right"))
<1> DEFINE tail == <<Does("mapPorts", "a1"), Does("restart", "a1"), Shows("a1", "left"),
                     Shows("a1", "right")>>
<1>1. One \in Seq(Steps)
  BY PlainParts, PlainInSteps
<1>2. tail \in Seq(Steps) /\ Len(tail) = 4
  <2>1. /\ Does("mapPorts", "a1") \in Plain
        /\ Does("restart", "a1") \in Plain
        /\ Shows("a1", "left") \in Plain
        /\ Shows("a1", "right") \in Plain
    BY PlainSteps DEF Apps, PlainOps, StepFeatures
  <2>2. tail \in Seq(Plain) /\ Len(tail) = 4
    BY <2>1
  <2>3. QED  BY <2>2, PlainInSteps
<1>3. /\ tail[1] = Does("mapPorts", "a1")
      /\ tail[2] = Does("restart", "a1")
      /\ tail[3] = Shows("a1", "left")
      /\ tail[4] = Shows("a1", "right")
  OBVIOUS
<1>4. SidecarsSpec = One \o Applied \o tail
  BY DEF SidecarsSpec
<1> HIDE DEF tail
<1>5. /\ Contains(SidecarsSpec, Does("complete", "a1"))
      /\ \A i \in 1..4 : Contains(SidecarsSpec, tail[i])
  BY <1>1, <1>2, <1>4, AroundApplied
<1>6. QED  BY <1>3, <1>5

LEMMA ProcessSpecLooks ==
  /\ Contains(ProcessSpec, Does("complete", "a1"))
  /\ Contains(ProcessSpec, Has("a1", "instances"))
  /\ Contains(ProcessSpec, Has("a1", "command"))
  /\ Contains(ProcessSpec, Has("a1", "health"))
<1> DEFINE tail == <<Has("a1", "instances"), Has("a1", "command"), Has("a1", "health")>>
<1>1. One \in Seq(Steps)
  BY PlainParts, PlainInSteps
<1>2. tail \in Seq(Steps) /\ Len(tail) = 3
  <2>1. /\ Has("a1", "instances") \in Plain
        /\ Has("a1", "command") \in Plain
        /\ Has("a1", "health") \in Plain
    BY PlainSteps DEF Apps, PlainOps, StepFeatures
  <2>2. tail \in Seq(Plain) /\ Len(tail) = 3
    BY <2>1
  <2>3. QED  BY <2>2, PlainInSteps
<1>3. /\ tail[1] = Has("a1", "instances")
      /\ tail[2] = Has("a1", "command")
      /\ tail[3] = Has("a1", "health")
  OBVIOUS
<1>4. ProcessSpec = One \o Applied \o tail
  BY DEF ProcessSpec, ProcessRead
<1> HIDE DEF tail
<1>5. /\ Contains(ProcessSpec, Does("complete", "a1"))
      /\ \A i \in 1..3 : Contains(ProcessSpec, tail[i])
  BY <1>1, <1>2, <1>4, AroundApplied
<1>6. QED  BY <1>3, <1>5

LEMMA PotatoSpecLooks ==
  /\ Contains(PotatoSpec, Does("complete", "a1"))
  /\ Contains(PotatoSpec, Has("a1", "process"))
  /\ Contains(PotatoSpec, Has("a1", "instances"))
  /\ Contains(PotatoSpec, Has("a1", "command"))
  /\ Contains(PotatoSpec, Has("a1", "health"))
<1> DEFINE tail == <<Has("a1", "process"), Has("a1", "instances"), Has("a1", "command"),
                     Has("a1", "health")>>
<1>1. One \in Seq(Steps)
  BY PlainParts, PlainInSteps
<1>2. tail \in Seq(Steps) /\ Len(tail) = 4
  <2>1. /\ Has("a1", "process") \in Plain
        /\ Has("a1", "instances") \in Plain
        /\ Has("a1", "command") \in Plain
        /\ Has("a1", "health") \in Plain
    BY PlainSteps DEF Apps, PlainOps, StepFeatures
  <2>2. tail \in Seq(Plain) /\ Len(tail) = 4
    BY <2>1
  <2>3. QED  BY <2>2, PlainInSteps
<1>3. /\ tail[1] = Has("a1", "process")
      /\ tail[2] = Has("a1", "instances")
      /\ tail[3] = Has("a1", "command")
      /\ tail[4] = Has("a1", "health")
  OBVIOUS
<1>4. PotatoSpec = One \o Applied \o tail
  BY DEF PotatoSpec
<1> HIDE DEF tail
<1>5. /\ Contains(PotatoSpec, Does("complete", "a1"))
      /\ \A i \in 1..4 : Contains(PotatoSpec, tail[i])
  BY <1>1, <1>2, <1>4, AroundApplied
<1>6. QED  BY <1>3, <1>5

LEMMA BeanSpecLooks ==
  /\ Contains(BeanSpec, Does("complete", "a1"))
  /\ Contains(BeanSpec, Has("a1", "process"))
  /\ Contains(BeanSpec, Has("a1", "instances"))
  /\ Contains(BeanSpec, Has("a1", "command"))
<1> DEFINE tail == <<Has("a1", "process"), Has("a1", "instances"), Does("assignDroplet", "a1"),
                     Has("a1", "command")>>
<1>1. One \in Seq(Steps)
  BY PlainParts, PlainInSteps
<1>2. tail \in Seq(Steps) /\ Len(tail) = 4
  <2>1. /\ Has("a1", "process") \in Plain
        /\ Has("a1", "instances") \in Plain
        /\ Does("assignDroplet", "a1") \in Plain
        /\ Has("a1", "command") \in Plain
    BY PlainSteps DEF Apps, PlainOps, StepFeatures
  <2>2. tail \in Seq(Plain) /\ Len(tail) = 4
    BY <2>1
  <2>3. QED  BY <2>2, PlainInSteps
<1>3. /\ tail[1] = Has("a1", "process")
      /\ tail[2] = Has("a1", "instances")
      /\ tail[3] = Does("assignDroplet", "a1")
      /\ tail[4] = Has("a1", "command")
  OBVIOUS
<1>4. BeanSpec = One \o Applied \o tail
  BY DEF BeanSpec
<1> HIDE DEF tail
<1>5. /\ Contains(BeanSpec, Does("complete", "a1"))
      /\ \A i \in 1..4 : Contains(BeanSpec, tail[i])
  BY <1>1, <1>2, <1>4, AroundApplied
<1>6. QED  BY <1>3, <1>5

LEMMA BuildpacksSpecLooks ==
  /\ Contains(BuildpacksSpec, Does("complete", "a1"))
  /\ Contains(BuildpacksSpec, Has("a1", "buildpacks"))
<1> DEFINE tail == <<Has("a1", "buildpacks")>>
<1>1. One \in Seq(Steps)
  BY PlainParts, PlainInSteps
<1>2. tail \in Seq(Steps) /\ Len(tail) = 1
  <2>1. /\ Has("a1", "buildpacks") \in Plain
    BY PlainSteps DEF Apps, PlainOps, StepFeatures
  <2>2. tail \in Seq(Plain) /\ Len(tail) = 1
    BY <2>1
  <2>3. QED  BY <2>2, PlainInSteps
<1>3. tail[1] = Has("a1", "buildpacks")
  OBVIOUS
<1>4. BuildpacksSpec = One \o Applied \o tail
  BY DEF BuildpacksSpec
<1> HIDE DEF tail
<1>5. /\ Contains(BuildpacksSpec, Does("complete", "a1"))
      /\ \A i \in 1..1 : Contains(BuildpacksSpec, tail[i])
  BY <1>1, <1>2, <1>4, AroundApplied
<1>6. QED  BY <1>3, <1>5

LEMMA AutodetectSpecLooks ==
  /\ Contains(AutodetectSpec, Does("complete", "a1"))
  /\ Contains(AutodetectSpec, Has("a1", "droplet"))
<1> DEFINE tail == <<Has("a1", "droplet")>>
<1>1. One \in Seq(Steps)
  BY PlainParts, PlainInSteps
<1>2. tail \in Seq(Steps) /\ Len(tail) = 1
  <2>1. /\ Has("a1", "droplet") \in Plain
    BY PlainSteps DEF Apps, PlainOps, StepFeatures
  <2>2. tail \in Seq(Plain) /\ Len(tail) = 1
    BY <2>1
  <2>3. QED  BY <2>2, PlainInSteps
<1>3. tail[1] = Has("a1", "droplet")
  OBVIOUS
<1>4. AutodetectSpec = One \o Applied \o tail
  BY DEF AutodetectSpec
<1> HIDE DEF tail
<1>5. /\ Contains(AutodetectSpec, Does("complete", "a1"))
      /\ \A i \in 1..1 : Contains(AutodetectSpec, tail[i])
  BY <1>1, <1>2, <1>4, AroundApplied
<1>6. QED  BY <1>3, <1>5

LEMMA CustomSpecLooks ==
  /\ Contains(CustomSpec, Does("complete", "a1"))
  /\ Contains(CustomSpec, Shows("own", "instances"))
  /\ Contains(CustomSpec, Has("own", "process"))
<1> DEFINE tail == <<Does("restart", "own"), Shows("own", "instances"), Has("own", "process"),
                     Does("delete", "own")>>
<1>1. One \o <<Make("own")>> \in Seq(Steps)
  <2>1. Make("own") \in Plain
    BY PlainSteps DEF Apps, PlainOps
  <2>2. <<Make("own")>> \in Seq(Plain)
    BY <2>1
  <2>3. One \o <<Make("own")>> \in Seq(Plain)
    BY <2>2, PlainParts, ConcatLen, Zenon
  <2>4. QED  BY <2>3, PlainInSteps
<1>2. tail \in Seq(Steps) /\ Len(tail) = 4
  <2>1. /\ Does("restart", "own") \in Plain
        /\ Shows("own", "instances") \in Plain
        /\ Has("own", "process") \in Plain
        /\ Does("delete", "own") \in Plain
    BY PlainSteps DEF Apps, PlainOps, StepFeatures
  <2>2. tail \in Seq(Plain) /\ Len(tail) = 4
    BY <2>1
  <2>3. QED  BY <2>2, PlainInSteps
<1>3. /\ tail[1] = Does("restart", "own")
      /\ tail[2] = Shows("own", "instances")
      /\ tail[3] = Has("own", "process")
      /\ tail[4] = Does("delete", "own")
  OBVIOUS
<1>4. CustomSpec = (One \o <<Make("own")>>) \o Applied \o tail
  BY DEF CustomSpec
<1> HIDE DEF tail
<1>5. /\ Contains(CustomSpec, Does("complete", "a1"))
      /\ \A i \in 1..4 : Contains(CustomSpec, tail[i])
  BY <1>1, <1>2, <1>4, AroundApplied
<1>6. QED  BY <1>3, <1>5

LEMMA TooSmallSpecLooks == Contains(TooSmallSpec, Does("failed", "a1"))
<1> DEFINE tail == <<Does("addSidecar", "a1"), Does("apply", "a1"), Does("failed", "a1"),
                     Does("errors", "a1")>>
<1>1. tail \in Seq(Plain) /\ Len(tail) = 4 /\ tail[3] = Does("failed", "a1")
  <2>1. /\ Does("addSidecar", "a1") \in Plain
        /\ Does("apply", "a1") \in Plain
        /\ Does("failed", "a1") \in Plain /\ Does("errors", "a1") \in Plain
    BY PlainSteps DEF Apps, PlainOps
  <2>2. QED  BY <2>1
<1>2. Contains(tail, Does("failed", "a1"))
  BY <1>1 DEF Contains
<1>3. One \in Seq(Plain) /\ TooSmallSpec = One \o tail
  BY PlainParts DEF TooSmallSpec
<1> HIDE DEF tail
<1>4. QED  BY <1>1, <1>2, <1>3, ContainsConcat

LEMMA ServicesSpecLooks ==
  /\ Contains(ServicesSpec, Does("complete", "a1"))
  /\ Contains(ServicesSpec, Has("a1", "bound"))
<1> DEFINE front == <<Does("newBroker", "broker"), Does("pushBroker", "broker"),
                      Does("configureBroker", "broker"), Does("createBroker", "broker"),
                      Has("broker", "offering"), Does("publicizePlans", "broker"),
                      Has("broker", "public"), Does("createService", "broker")>>
           tail == <<Does("restage", "a1"), Has("a1", "bound")>>
<1>1. front \in Seq(Steps)
  <2>1. /\ Does("configureBroker", "broker") \in Plain /\ Does("publicizePlans", "broker") \in Plain
        /\ Has("broker", "offering") \in Plain /\ Has("broker", "public") \in Plain
    BY PlainSteps DEF Apps, PlainOps, StepFeatures
  <2>2. QED  BY <2>1 DEF Steps, BrokerOps
<1>2. tail \in Seq(Steps) /\ Len(tail) = 2 /\ tail[2] = Has("a1", "bound")
  <2>1. Does("restage", "a1") \in Plain /\ Has("a1", "bound") \in Plain
    BY PlainSteps DEF Apps, PlainOps, StepFeatures
  <2>2. QED  BY <2>1 DEF Steps
<1>3. ServicesSpec = (Two \o front) \o Applied \o tail
  BY DEF ServicesSpec
<1> HIDE DEF front, tail
<1>4. Two \o front \in Seq(Steps)
  BY <1>1, PlainParts, PlainInSteps, ConcatLen, Zenon
<1>5. /\ Contains(ServicesSpec, Does("complete", "a1"))
      /\ \A i \in 1..2 : Contains(ServicesSpec, tail[i])
  BY <1>2, <1>3, <1>4, AroundApplied
<1>6. QED  BY <1>2, <1>5

-----------------------------------------------------------------------------
(* The invariant. *)

\* Where a spec is.
PlaceInv ==
  /\ scenario \in Specs /\ pc \in Nat
  /\ phase \in {"spec", "purge", "unregister", "unpush", "delete", "teardown", "done"}
  /\ phase = "spec" <=> verdict = "running"
  /\ phase = "spec" => pc \in 1..Len(Script(scenario))
  /\ broker \in [registered : BOOLEAN, instance : BOOLEAN]
  /\ known \in BOOLEAN /\ trouble \in BOOLEAN

\* The broker in the services spec: assigned, then pushed, then registered.
SpecInv ==
  /\ scenario # "services" => ~broker.registered /\ ~broker.instance
  /\ broker.registered \/ broker.instance => known
  /\ phase = "spec" /\ scenario = "services" =>
       /\ pc > 3 => known
       /\ pc > 4 => "broker" \in made

\* The broker and its app during the cleanup.
CleanupInv ==
  /\ broker.registered /\ phase \in {"spec", "purge", "unregister"} => "broker" \in made
  /\ ~trouble =>
       /\ phase = "unregister" => ~broker.instance
       /\ phase \in {"unpush", "delete", "teardown", "done"} =>
            ~broker.registered /\ ~broker.instance
       /\ phase = "done" => made = {}

IInv == PlaceInv /\ SpecInv /\ CleanupInv

LEMMA InitIInv == Init => IInv
<1> SUFFICES ASSUME Init PROVE IInv
  OBVIOUS
<1>1. scenario \in Specs
  BY ManifestAssumption DEF Init
<1>2. Len(Script(scenario)) \in Nat /\ Len(Script(scenario)) > 0
  BY <1>1, BrokerPositions
<1>3. PlaceInv
  <2>1. pc \in Nat /\ pc \in 1..Len(Script(scenario))
    BY <1>2 DEF Init
  <2>2. broker \in [registered : BOOLEAN, instance : BOOLEAN]
    BY DEF Init
  <2>3. known \in BOOLEAN /\ trouble \in BOOLEAN
    BY DEF Init
  <2>4. phase = "spec" /\ verdict = "running"
    BY DEF Init
  <2> QED BY <1>1, <2>1, <2>2, <2>3, <2>4 DEF PlaceInv
<1>4. SpecInv /\ CleanupInv
  BY DEF Init, SpecInv, CleanupInv
<1> QED BY <1>3, <1>4 DEF IInv

\* What a request of a spec does to the broker and its app.
LEMMA EffectOnBroker ==
  ASSUME IInv, Effect
  PROVE  /\ broker' \in [registered : BOOLEAN, instance : BOOLEAN]
         /\ "broker" \in made \/ Spot.op = "pushBroker" => "broker" \in made'
         /\ broker'.registered => broker.registered \/ Spot.op = "createBroker"
         /\ broker'.instance => broker.instance \/ Spot.op = "createService"
<1> USE DEF IInv, PlaceInv
<1>1. CASE MakeApp
  BY <1>1 DEF MakeApp
<1>2. CASE ApplyManifest
  BY <1>2 DEF ApplyManifest
<1>3. CASE Restart
  BY <1>3 DEF Restart
<1>4. CASE CreateSidecar
  BY <1>4 DEF CreateSidecar
<1>5. CASE AssignDropletToApp
  BY <1>5 DEF AssignDropletToApp
<1>6. CASE PushBroker
  BY <1>6 DEF PushBroker
<1>7. CASE CreateBroker
  BY <1>7 DEF CreateBroker
<1>8. CASE CreateService
  BY <1>8 DEF CreateService
<1>9. CASE DeleteOwn
  BY <1>9 DEF DeleteOwn
<1>10. CASE Other
  BY <1>10 DEF Other, platform
<1>11. CASE Publish
  BY <1>11 DEF Publish, Apps
<1> QED BY <1>1, <1>2, <1>3, <1>4, <1>5, <1>6, <1>7, <1>8, <1>9, <1>10, <1>11 DEF Effect

\* Where the spec stands when it makes its broker.
LEMMA SpotOfBroker ==
  ASSUME IInv, phase = "spec"
  PROVE  /\ Spot.op \in BrokerOps => scenario = "services"
         /\ scenario = "services" =>
              /\ pc = 3 <=> Spot.op = "newBroker"
              /\ pc = 4 <=> Spot.op = "pushBroker"
              /\ Spot.op = "createBroker" => pc = 6
              /\ Spot.op = "createService" => pc = 10
<1>1. scenario \in Specs /\ pc \in 1..Len(Script(scenario)) /\ Spot = Script(scenario)[pc]
  BY DEF IInv, PlaceInv, Spot
<1>2. Spot.op \in BrokerOps => scenario = "services"
  BY <1>1, BrokerPositions
<1>3. CASE scenario = "services"
  BY <1>1, <1>2, <1>3, ServicesScript
<1> QED BY <1>2, <1>3

\* The end of a step of a spec: on to the next one, or to the cleanup.
LEMMA AdvanceOrFail ==
  ASSUME IInv, InSpec, Advance \/ Fail, UNCHANGED chosen
  PROVE  /\ scenario' = scenario /\ scenario \in Specs /\ pc' \in Nat
         /\ phase' \in {"spec", "purge", "delete"}
         /\ phase' = "spec" <=> verdict' = "running"
         /\ phase' = "spec" => pc' \in 1..Len(Script(scenario)) /\ pc' = pc + 1 /\ Advance
         /\ phase' = "purge" <=> phase' # "spec" /\ scenario = "services"
<1>1. /\ scenario \in Specs /\ pc \in 1..Len(Script(scenario))
      /\ Len(Script(scenario)) \in Nat
  BY BrokerPositions DEF IInv, PlaceInv, InSpec
<1>2. CASE Advance
  BY <1>1, <1>2 DEF Advance, Leave, InSpec, chosen
<1>3. CASE Fail
  BY <1>1, <1>3 DEF Fail, Leave, InSpec, chosen
<1> QED BY <1>2, <1>3

LEMMA RequestIInv == IInv /\ Request => IInv'
<1> SUFFICES ASSUME IInv, Request PROVE IInv'
  OBVIOUS
<1>1. InSpec /\ Effect /\ Advance /\ UNCHANGED <<chosen, trouble>>
  BY DEF Request
<1>2. /\ scenario' = scenario /\ scenario \in Specs /\ pc' \in Nat
      /\ phase' \in {"spec", "purge", "delete"}
      /\ phase' = "spec" <=> verdict' = "running"
      /\ phase' = "spec" => pc' \in 1..Len(Script(scenario)) /\ pc' = pc + 1
      /\ phase' = "purge" <=> phase' # "spec" /\ scenario = "services"
  BY <1>1, AdvanceOrFail
<1>3. /\ broker' \in [registered : BOOLEAN, instance : BOOLEAN]
      /\ "broker" \in made \/ Spot.op = "pushBroker" => "broker" \in made'
      /\ broker'.registered => broker.registered \/ Spot.op = "createBroker"
      /\ broker'.instance => broker.instance \/ Spot.op = "createService"
  BY <1>1, EffectOnBroker
<1>4. /\ Spot.op \in BrokerOps => scenario = "services"
      /\ scenario = "services" =>
           /\ pc = 3 <=> Spot.op = "newBroker"
           /\ pc = 4 <=> Spot.op = "pushBroker"
           /\ Spot.op = "createBroker" => pc = 6
           /\ Spot.op = "createService" => pc = 10
  BY <1>1, SpotOfBroker DEF InSpec
<1>5. /\ known' \in BOOLEAN /\ trouble' \in BOOLEAN
      /\ known \/ Spot.op = "newBroker" => known'
      /\ trouble => trouble'
  BY DEF Request, IInv, PlaceInv
<1>6. pc \in Nat /\ phase = "spec"
  BY <1>1 DEF InSpec, IInv, PlaceInv
<1>7. PlaceInv'
  BY <1>2, <1>3, <1>5 DEF PlaceInv
\* On from 3 and 4, and beyond them.
<1>8. /\ phase' = "spec" /\ pc' > 3 => pc > 3 \/ pc = 3
      /\ phase' = "spec" /\ pc' > 4 => pc > 4 \/ pc = 4
      /\ pc = 6 \/ pc = 10 => pc > 3 /\ pc > 4
  BY <1>2, <1>6
<1>9. Spot.op = "createBroker" \/ Spot.op = "createService" =>
        scenario = "services" /\ known /\ "broker" \in made
  BY <1>4, <1>6, <1>8 DEF IInv, SpecInv, BrokerOps
<1>10. scenario # "services" => ~broker'.registered /\ ~broker'.instance
  BY <1>3, <1>9 DEF IInv, SpecInv
<1>11. broker'.registered \/ broker'.instance => known'
  BY <1>3, <1>5, <1>9 DEF IInv, SpecInv
<1>12. phase' = "spec" /\ scenario = "services" =>
         (pc' > 3 => known') /\ (pc' > 4 => "broker" \in made')
  BY <1>3, <1>4, <1>5, <1>6, <1>8 DEF IInv, SpecInv
<1>13. SpecInv'
  BY <1>2, <1>10, <1>11, <1>12 DEF SpecInv
<1>14. broker'.registered => "broker" \in made'
  BY <1>3, <1>6, <1>9 DEF IInv, CleanupInv
<1>15. phase' = "delete" => ~broker'.registered /\ ~broker'.instance
  BY <1>2, <1>10
<1>16. CleanupInv'
  BY <1>2, <1>14, <1>15 DEF CleanupInv
<1> QED BY <1>7, <1>13, <1>16 DEF IInv

LEMMA RefusedIInv == IInv /\ Refused => IInv'
<1> SUFFICES ASSUME IInv, Refused PROVE IInv'
  OBVIOUS
<1>1. InSpec /\ (Advance \/ Fail) /\ UNCHANGED <<chosen, trouble, known>>
  BY DEF Refused
<1>2. /\ scenario' = scenario /\ scenario \in Specs /\ pc' \in Nat
      /\ phase' \in {"spec", "purge", "delete"}
      /\ phase' = "spec" <=> verdict' = "running"
      /\ phase' = "spec" => pc' \in 1..Len(Script(scenario)) /\ pc' = pc + 1 /\ Advance
      /\ phase' = "purge" <=> phase' # "spec" /\ scenario = "services"
  BY <1>1, AdvanceOrFail
<1>3. /\ broker' \in [registered : BOOLEAN, instance : BOOLEAN]
      /\ "broker" \in made => "broker" \in made'
      /\ broker'.registered => broker.registered \/ Spot.op = "createBroker"
      /\ broker'.instance => broker.instance \/ Spot.op = "createService"
  <2>1. CASE Effect
    BY <2>1, EffectOnBroker
  <2>2. CASE UNCHANGED platform
    BY <2>2 DEF platform, IInv, PlaceInv
  <2> QED BY <2>1, <2>2 DEF Refused
<1>4. /\ Spot.op \in BrokerOps => scenario = "services"
      /\ scenario = "services" =>
           /\ pc = 3 <=> Spot.op = "newBroker"
           /\ pc = 4 <=> Spot.op = "pushBroker"
           /\ Spot.op = "createBroker" => pc = 6
           /\ Spot.op = "createService" => pc = 10
  BY <1>1, SpotOfBroker DEF InSpec
<1>5. pc \in Nat /\ phase = "spec"
  BY <1>1 DEF InSpec, IInv, PlaceInv
\* The spec goes on only if it does not notice.
<1>6. phase' = "spec" => Spot.op \in Unnoticed
  BY <1>5 DEF Refused, Fail, Leave
<1>7. known' \in BOOLEAN /\ trouble' \in BOOLEAN /\ (known => known')
  BY <1>1 DEF IInv, PlaceInv
<1>8. PlaceInv'
  BY <1>2, <1>3, <1>7 DEF PlaceInv
<1>9. pc = 6 \/ pc = 10 => pc > 3 /\ pc > 4
  OBVIOUS
<1>10. Spot.op = "createBroker" \/ Spot.op = "createService" =>
        scenario = "services" /\ known /\ "broker" \in made
  BY <1>4, <1>5, <1>9 DEF IInv, SpecInv, BrokerOps
<1>11. scenario # "services" => ~broker'.registered /\ ~broker'.instance
  BY <1>3, <1>10 DEF IInv, SpecInv
<1>12. broker'.registered \/ broker'.instance => known'
  BY <1>3, <1>7, <1>10 DEF IInv, SpecInv
\* Neither the third step nor the fourth goes unnoticed.
<1>13. phase' = "spec" /\ scenario = "services" =>
         (pc' > 3 => pc > 3) /\ (pc' > 4 => pc > 4)
  BY <1>2, <1>4, <1>5, <1>6 DEF Unnoticed
<1>14. phase' = "spec" /\ scenario = "services" =>
         (pc' > 3 => known') /\ (pc' > 4 => "broker" \in made')
  BY <1>3, <1>5, <1>7, <1>13 DEF IInv, SpecInv
<1>15. SpecInv'
  BY <1>2, <1>11, <1>12, <1>14 DEF SpecInv
<1>16. broker'.registered => "broker" \in made'
  BY <1>3, <1>5, <1>10 DEF IInv, CleanupInv
<1>17. phase' = "delete" => ~broker'.registered /\ ~broker'.instance
  BY <1>2, <1>11
<1>18. CleanupInv'
  BY <1>2, <1>16, <1>17 DEF CleanupInv
<1> QED BY <1>8, <1>15, <1>18 DEF IInv

\* Polls and looks: the spec moves, the platform does not.
LEMMA WatchIInv == IInv /\ (Poll \/ Timeout \/ Look) => IInv'
<1> SUFFICES ASSUME IInv, Poll \/ Timeout \/ Look PROVE IInv'
  OBVIOUS
<1>1. InSpec /\ (Advance \/ Fail) /\ UNCHANGED <<chosen, known, trouble, platform>>
  BY DEF Poll, Timeout, Look, At
<1>2. /\ scenario' = scenario /\ scenario \in Specs /\ pc' \in Nat
      /\ phase' \in {"spec", "purge", "delete"}
      /\ phase' = "spec" <=> verdict' = "running"
      /\ phase' = "spec" => pc' \in 1..Len(Script(scenario)) /\ pc' = pc + 1
      /\ phase' = "purge" <=> phase' # "spec" /\ scenario = "services"
  BY <1>1, AdvanceOrFail
<1>3. broker' = broker /\ made' = made /\ known' = known /\ trouble' = trouble
  BY <1>1 DEF platform
<1>4. pc \in Nat /\ phase = "spec"
  BY <1>1 DEF InSpec, IInv, PlaceInv
<1>5. PlaceInv'
  BY <1>2, <1>3 DEF IInv, PlaceInv
\* A step that waits or looks is none of the broker's.
<1>6. phase' = "spec" => Spot.op \in Waits \cup Looks
  BY <1>4 DEF Poll, Timeout, Look, At, Fail, Leave
<1>7. Spot.op \in Waits \cup Looks => Spot.op \notin BrokerOps
  BY DEF Waits, Looks, BrokerOps
<1>8. scenario = "services" => /\ pc = 3 <=> Spot.op = "newBroker"
                               /\ pc = 4 <=> Spot.op = "pushBroker"
  BY <1>4, SpotOfBroker
<1>9. phase' = "spec" /\ scenario = "services" => (pc' > 3 => pc > 3) /\ (pc' > 4 => pc > 4)
  BY <1>2, <1>4, <1>6, <1>7, <1>8 DEF BrokerOps
<1>10. SpecInv'
  BY <1>2, <1>3, <1>4, <1>9 DEF IInv, SpecInv
<1>11. CleanupInv'
  BY <1>2, <1>3, <1>4 DEF IInv, SpecInv, CleanupInv
<1> QED BY <1>5, <1>10, <1>11 DEF IInv

LEMMA CleanupStepIInv == IInv /\ CleanupStep => IInv'
<1> SUFFICES ASSUME IInv, CleanupStep PROVE IInv'
  OBVIOUS
<1>1. /\ scenario' = scenario /\ verdict' = verdict /\ pc' = pc
      /\ known' = known /\ trouble' = trouble
  BY DEF CleanupStep, chosen, driver
<1>2. phase \in {"purge", "unregister", "unpush", "delete", "teardown"} /\ phase' = Ahead(phase)
  BY DEF CleanupStep, Cleaning
<1>3. phase' \in {"unregister", "unpush", "delete", "teardown", "done"}
  BY <1>2 DEF Ahead
<1>4. broker' \in [registered : BOOLEAN, instance : BOOLEAN]
  BY DEF CleanupStep, Cleans, IInv, PlaceInv
<1>5. PlaceInv'
  BY <1>1, <1>2, <1>3, <1>4 DEF IInv, PlaceInv
<1>6. CASE phase = "purge"
  <2>1. made' = made /\ broker'.registered = broker.registered /\ broker'.instance = FALSE
    BY <1>6 DEF CleanupStep, Cleans, IInv, PlaceInv
  <2>2. phase' = "unregister"
    BY <1>2, <1>6 DEF Ahead
  <2> QED BY <1>1, <1>5, <1>6, <2>1, <2>2 DEF IInv, SpecInv, CleanupInv
<1>7. CASE phase = "unregister"
  <2>1. /\ made' = made /\ broker'.registered = broker.instance
        /\ broker'.instance = broker.instance
    BY <1>7 DEF CleanupStep, Cleans, IInv, PlaceInv
  <2>2. phase' = "unpush"
    BY <1>2, <1>7 DEF Ahead
  <2> QED BY <1>1, <1>5, <1>7, <2>1, <2>2 DEF IInv, SpecInv, CleanupInv
<1>8. CASE phase \in {"unpush", "delete"}
  <2>1. broker' = broker /\ phase' \in {"delete", "teardown"}
    BY <1>2, <1>8 DEF CleanupStep, Cleans, Ahead
  <2> QED BY <1>1, <1>5, <1>8, <2>1 DEF IInv, SpecInv, CleanupInv
<1>9. CASE phase = "teardown"
  <2>1. broker' = broker /\ made' = {} /\ phase' = "done"
    BY <1>2, <1>9 DEF CleanupStep, Cleans, Ahead
  <2> QED BY <1>1, <1>5, <1>9, <2>1 DEF IInv, SpecInv, CleanupInv
<1> QED BY <1>2, <1>6, <1>7, <1>8, <1>9

LEMMA CleanupPanicsIInv == IInv /\ CleanupPanics => IInv'
<1> SUFFICES ASSUME IInv, CleanupPanics PROVE IInv'
  OBVIOUS
<1>1. /\ scenario' = scenario /\ verdict' = verdict /\ pc' = pc /\ broker' = broker
      /\ made' = made /\ known' = known /\ trouble' = trouble
  BY DEF CleanupPanics, chosen, driver, platform
<1>2. CASE phase = "purge" /\ ~known
  <2>1. phase' = "delete"
    BY <1>2 DEF CleanupPanics, Skipped
  <2> QED BY <1>1, <1>2, <2>1 DEF IInv, PlaceInv, SpecInv, CleanupInv
<1>3. CASE phase = "delete"
  <2>1. phase' = "teardown"
    BY <1>3 DEF CleanupPanics, Skipped, Ahead
  <2> QED BY <1>1, <1>3, <2>1 DEF IInv, PlaceInv, SpecInv, CleanupInv
<1> QED BY <1>2, <1>3 DEF CleanupPanics, Panics

LEMMA CleanupFailsIInv == IInv /\ CleanupFails => IInv'
<1> SUFFICES ASSUME IInv, CleanupFails PROVE IInv'
  OBVIOUS
<1>1. /\ scenario' = scenario /\ verdict' = verdict /\ pc' = pc
      /\ known' = known /\ trouble' = TRUE
  BY DEF CleanupFails, chosen
<1>2. phase \in {"purge", "unregister", "unpush", "delete", "teardown"}
      /\ phase' \in {"delete", "teardown", "done"}
  BY DEF CleanupFails, Cleaning, Skipped, Ahead
<1>3. /\ broker' \in [registered : BOOLEAN, instance : BOOLEAN]
      /\ broker'.instance => broker.instance
      /\ broker'.registered => broker.registered \/ broker.instance
  BY DEF CleanupFails, Cleans, IInv, PlaceInv
<1>4. PlaceInv'
  BY <1>1, <1>2, <1>3 DEF IInv, PlaceInv
<1>5. SpecInv'
  BY <1>1, <1>2, <1>3 DEF IInv, SpecInv
<1>6. CleanupInv'
  BY <1>1, <1>2 DEF CleanupInv
<1> QED BY <1>4, <1>5, <1>6 DEF IInv

LEMMA PlatformIInv == IInv /\ Platform => IInv'
BY DEF IInv, PlaceInv, SpecInv, CleanupInv, Platform, JobEnds, RouteServes, chosen, driver, cleanup

LEMMA StutterIInv == IInv /\ UNCHANGED vars => IInv'
BY DEF IInv, PlaceInv, SpecInv, CleanupInv, vars, chosen, driver, cleanup, platform

LEMMA NextIInv == IInv /\ [Next]_vars => IInv'
BY PlatformIInv, RequestIInv, WatchIInv, CleanupStepIInv, CleanupPanicsIInv, RefusedIInv,
   CleanupFailsIInv, StutterIInv DEF Next, Driver

\* The invariant of every behaviour.
THEOREM Invariant == Spec => []IInv
BY InitIInv, NextIInv, PTL DEF Spec

\* A registered broker has its app, wherever the spec is or fails (Push before Create,
\* Delete before cf delete; broker.go:124-180).
THEOREM BrokerHasApp == Spec => []RegisteredHasApp
<1>1. IInv => RegisteredHasApp
  BY DEF IInv, PlaceInv, CleanupInv, RegisteredHasApp
<1> QED BY <1>1, Invariant, PTL

\* A cleanup whose requests are answered leaves no app, broker or instance
\* (manifest.go:97-102, :691-693).
THEOREM CleanupIsComplete == Spec => []NothingLeft
<1>1. IInv => NothingLeft
  BY DEF IInv, CleanupInv, NothingLeft
<1> QED BY <1>1, Invariant, PTL

-----------------------------------------------------------------------------
(* Types. *)

LEMMA ScriptSteps == \A s \in Specs : Script(s) \in Seq(Steps)
<1> SUFFICES ASSUME NEW s \in Specs PROVE Script(s) \in Seq(Steps)
  OBVIOUS
<1>1. CASE s = "services"
  BY <1>1, ServicesScript
<1>2. CASE s # "services"
  BY <1>2, PlainScripts, PlainInSteps
<1>3. QED  BY <1>1, <1>2

\* A spec makes its own apps: the one of a broker is pushed.
LEMMA StepShape ==
  \A st \in Steps : st.app \in Apps /\ (st.op = "make" => st.app \in Apps \ {"broker"})
BY DEF Steps, Plain, PlainOps, BrokerOps, Make, Does, Has, HasNot, Shows, Apps

LEMMA SpotShape ==
  ASSUME IInv, phase = "spec"
  PROVE  /\ Spot \in Steps /\ Spot.app \in Apps
         /\ Spot.op = "make" => Spot.app \in {"a1", "a2", "own"}
<1>1. Spot \in Steps
  BY ScriptSteps DEF IInv, PlaceInv, Spot
<1>2. QED  BY <1>1, StepShape DEF Apps

LEMMA SomeFeatures == {"droplet", "sidecar", "memory", "offering", "public"} \subseteq Features
<1>1. <<"a1", "memory">> \in Adds("single") /\ "single" \in Specs
  BY DEF Adds, Specs
<1>2. <<"a1", "memory">>[2] = "memory"
  OBVIOUS
<1>3. QED  BY <1>1, <1>2 DEF Features

LEMMA InitTypeOK == Init => TypeOK
<1> SUFFICES ASSUME Init PROVE TypeOK
  OBVIOUS
<1>1. Len(Script(scenario)) \in Nat
  BY ManifestAssumption, BrokerPositions DEF Init
<1>2. pc \in 1..(Len(Script(scenario)) + 1)
  BY <1>1 DEF Init
<1>3. errs \in 0..MaxErrors
  BY ManifestAssumption DEF Init
<1>4. QED  BY <1>2, <1>3 DEF Init, TypeOK

\* What an app has and shows, after a request.
LEMMA EffectTypes ==
  ASSUME IInv, TypeOK, phase = "spec", Effect
  PROVE  /\ made' \subseteq Apps
         /\ has' \in [Apps -> SUBSET Features] /\ runs' \in [Apps -> SUBSET Features]
         /\ job' \in {"none", "processing", "COMPLETE", "FAILED"}
<1> USE SomeFeatures, SpotShape DEF TypeOK
<1>1. CASE MakeApp
  BY <1>1 DEF MakeApp
<1>2. CASE ApplyManifest
  BY <1>2 DEF ApplyManifest
<1>3. CASE Restart
  BY <1>3 DEF Restart
<1>4. CASE CreateSidecar
  BY <1>4 DEF CreateSidecar
<1>5. CASE AssignDropletToApp
  BY <1>5 DEF AssignDropletToApp
<1>6. CASE PushBroker
  BY <1>6 DEF PushBroker, Apps
<1>7. CASE CreateBroker
  BY <1>7 DEF CreateBroker
<1>8. CASE CreateService
  BY <1>8 DEF CreateService
<1>9. CASE DeleteOwn
  BY <1>9 DEF DeleteOwn
<1>10. CASE Other
  BY <1>10 DEF Other, platform
<1>11. CASE Publish
  BY <1>11 DEF Publish, Apps
<1> QED BY <1>1, <1>2, <1>3, <1>4, <1>5, <1>6, <1>7, <1>8, <1>9, <1>10, <1>11 DEF Effect

\* Where the spec is, after a step of it.
LEMMA AdvanceTypes ==
  ASSUME IInv, TypeOK, InSpec, Advance \/ Fail, UNCHANGED chosen
  PROVE  /\ scenario' \in Scenarios /\ fault' \in {Sound} \cup Broken(scenario')
         /\ pc' \in 1..(Len(Script(scenario')) + 1)
         /\ verdict' \in {"running", "passed", "failed"}
         /\ phase' \in {"spec", "purge", "unregister", "unpush", "delete", "teardown", "done"}
<1>1. scenario' = scenario /\ fault' = fault /\ scenario \in Scenarios
      /\ fault \in {Sound} \cup Broken(scenario)
  BY DEF chosen, TypeOK
<1>2. /\ phase = "spec" /\ verdict = "running"
      /\ Len(Script(scenario)) \in Nat /\ pc \in 1..Len(Script(scenario))
  BY BrokerPositions DEF IInv, PlaceInv, InSpec
<1>3. CASE Advance
  <2>1. pc' = pc + 1 /\ (Leave("passed") \/ UNCHANGED <<verdict, phase>>)
    BY <1>3 DEF Advance
  <2>2. pc' \in 1..(Len(Script(scenario)) + 1)
    BY <1>2, <2>1
  <2>3. QED  BY <1>1, <1>2, <2>1, <2>2 DEF Leave
<1>4. CASE Fail
  BY <1>1, <1>2, <1>4 DEF Fail, Leave
<1>5. QED  BY <1>3, <1>4

LEMMA TypeStep ==
  ASSUME IInv, TypeOK, [Next]_vars
  PROVE  TypeOK'
<1>m. MaxErrors \in Nat
  BY ManifestAssumption
\* A step of the spec itself.
<1>s. ASSUME InSpec, Advance \/ Fail, UNCHANGED <<chosen, trouble>>, errs' \in 0..MaxErrors,
             listed' \subseteq {"a1", "a2"}, known' \in BOOLEAN, Effect \/ UNCHANGED platform
      PROVE  TypeOK'
  <2>1. /\ scenario' \in Scenarios /\ fault' \in {Sound} \cup Broken(scenario')
        /\ pc' \in 1..(Len(Script(scenario')) + 1)
        /\ verdict' \in {"running", "passed", "failed"}
        /\ phase' \in {"spec", "purge", "unregister", "unpush", "delete", "teardown", "done"}
    BY <1>s, AdvanceTypes
  <2>2. /\ made' \subseteq Apps
        /\ has' \in [Apps -> SUBSET Features] /\ runs' \in [Apps -> SUBSET Features]
        /\ job' \in {"none", "processing", "COMPLETE", "FAILED"}
        /\ broker' \in [registered : BOOLEAN, instance : BOOLEAN]
    <3>1. CASE Effect
      BY <3>1, <1>s, EffectTypes, EffectOnBroker DEF InSpec
    <3>2. CASE UNCHANGED platform
      BY <3>2 DEF platform, TypeOK
    <3>3. QED  BY <1>s, <3>1, <3>2
  <2>3. trouble' \in BOOLEAN
    BY <1>s DEF TypeOK
  <2>4. QED  BY <2>1, <2>2, <2>3, <1>s DEF TypeOK
<1>1. CASE Request
  <2>1. listed' \subseteq {"a1", "a2"}
    BY <1>1, SpotShape DEF Request, InSpec, TypeOK
  <2>2. known' \in BOOLEAN
    BY <1>1 DEF Request, TypeOK
  <2>3. errs' \in 0..MaxErrors
    BY <1>1 DEF Request, TypeOK
  <2>4. QED  BY <1>1, <1>s, <2>1, <2>2, <2>3 DEF Request
<1>2. CASE Poll \/ Timeout \/ Look
  BY <1>2, <1>s DEF Poll, Timeout, Look, At, TypeOK
<1>3. CASE Refused
  <2>1. errs' \in 0..MaxErrors
    BY <1>3, <1>m DEF Refused, TypeOK
  <2>2. QED  BY <1>3, <1>s, <2>1 DEF Refused, TypeOK
<1>4. CASE Platform
  <2>1. UNCHANGED <<chosen, driver, cleanup, broker>>
    BY <1>4 DEF Platform, JobEnds, RouteServes
  <2>2. /\ made' \subseteq Apps
        /\ has' \in [Apps -> SUBSET Features] /\ runs' \in [Apps -> SUBSET Features]
        /\ job' \in {"none", "processing", "COMPLETE", "FAILED"}
    <3>1. CASE JobEnds
      <4>1. \A a \in Apps : Carried(a) \subseteq Features
        BY DEF Carried, TypeOK
      <4>2. has' \in [Apps -> SUBSET Features]
        BY <3>1, <4>1, SomeFeatures DEF JobEnds, TypeOK
      <4>3. QED  BY <3>1, <4>2 DEF JobEnds, TypeOK
    <3>2. CASE \E a \in Apps : RouteServes(a)
      BY <3>2 DEF RouteServes, TypeOK
    <3>3. QED  BY <1>4, <3>1, <3>2 DEF Platform
  <2>3. QED  BY <2>1, <2>2 DEF TypeOK, chosen, driver, cleanup
\* A step of the cleanup.
<1>c. ASSUME UNCHANGED <<chosen, pc, verdict, listed, known, has, runs, job>>,
             errs' \in 0..MaxErrors, trouble' \in BOOLEAN, made' \subseteq made,
             broker' \in [registered : BOOLEAN, instance : BOOLEAN],
             phase' \in {"unregister", "unpush", "delete", "teardown", "done"}
      PROVE  TypeOK'
  BY <1>c DEF TypeOK, chosen
<1>5. CASE CleanupStep \/ CleanupFails
  <2>1. made' \subseteq made /\ broker' \in [registered : BOOLEAN, instance : BOOLEAN]
    BY <1>5 DEF CleanupStep, CleanupFails, Cleans, TypeOK
  <2>2. trouble' \in BOOLEAN
    BY <1>5 DEF CleanupStep, CleanupFails, TypeOK
  <2>e. errs' \in 0..MaxErrors
    <3>1. errs' = errs \/ (errs < MaxErrors /\ errs' = errs + 1)
      BY <1>5 DEF CleanupStep, CleanupFails, driver
    <3>2. QED  BY <3>1, <1>m DEF TypeOK
  <2>3. phase' \in {"unregister", "unpush", "delete", "teardown", "done"}
    BY <1>5 DEF CleanupStep, CleanupFails, Cleaning, Ahead, Skipped
  <2>4. UNCHANGED <<chosen, pc, verdict, listed, known, has, runs, job>>
    BY <1>5 DEF CleanupStep, CleanupFails, driver
  <2>5. QED  BY <1>c, <2>1, <2>2, <2>e, <2>3, <2>4
<1>6. CASE CleanupPanics
  <2>1. phase' \in {"unregister", "unpush", "delete", "teardown", "done"}
    BY <1>6 DEF CleanupPanics, Cleaning, Ahead, Skipped
  <2>2. QED  BY <1>6, <1>c, <2>1 DEF CleanupPanics, driver, platform, TypeOK
<1>7. CASE UNCHANGED vars
  BY <1>7 DEF vars, chosen, driver, cleanup, platform, TypeOK
<1>8. QED  BY <1>1, <1>2, <1>3, <1>4, <1>5, <1>6, <1>7 DEF Next, Driver

\* TypeOK: whatever fails, a spec stays within its script and lists no app but its own.
THEOREM ManifestTypeCorrect == Spec => []TypeOK
<1>1. IInv /\ TypeOK /\ [Next]_vars => TypeOK'
  BY TypeStep
<1>2. QED  BY <1>1, InitTypeOK, Invariant, PTL DEF Spec

-----------------------------------------------------------------------------
(* Faults: which step of a script cannot be passed under a fault, and that  *)
(* a passing spec has been through all its steps.                           *)

\* The step st of the spec s does not pass on a platform with the fault f.
Blocks(s, f, st) ==
  \/ f.kind = "stuck" /\ st.op \in {"complete", "failed"}
  \/ f.kind = "accepts" /\ st.op = "failed"
  \/ /\ f.kind = "ignores" /\ f.at \in Adds(s)
     /\ st.op \in {"has", "shows"} /\ f.at = <<st.app, st.f>>
  \/ f.kind = "removes" /\ st.op = "has" /\ st.f = "command"

Told(s, f) == \E i \in 1..Len(Script(s)) : Blocks(s, f, Script(s)[i])

LEMMA StuckTold ==
  ASSUME NEW s, NEW at, Contains(Script(s), Does("complete", "a1"))
  PROVE  Told(s, Fault("stuck", at))
<1>1. Blocks(s, Fault("stuck", at), Does("complete", "a1"))
  BY DEF Blocks, Fault, Does
<1>2. QED  BY <1>1 DEF Told, Contains

LEMMA FailureTold ==
  ASSUME NEW s, NEW at, Contains(Script(s), Does("failed", "a1"))
  PROVE  Told(s, Fault("stuck", at)) /\ Told(s, Fault("accepts", at))
<1>1. /\ Blocks(s, Fault("stuck", at), Does("failed", "a1"))
      /\ Blocks(s, Fault("accepts", at), Does("failed", "a1"))
  BY DEF Blocks, Fault, Does
<1>2. QED  BY <1>1 DEF Told, Contains

LEMMA IgnoredTold ==
  ASSUME NEW s, NEW a, NEW f, <<a, f>> \in Adds(s),
         Contains(Script(s), Has(a, f)) \/ Contains(Script(s), Shows(a, f))
  PROVE  Told(s, Fault("ignores", <<a, f>>))
<1>1. /\ Blocks(s, Fault("ignores", <<a, f>>), Has(a, f))
      /\ Blocks(s, Fault("ignores", <<a, f>>), Shows(a, f))
  BY DEF Blocks, Fault, Has, Shows
<1>2. QED  BY <1>1 DEF Told, Contains

LEMMA RemovedTold ==
  ASSUME NEW s, NEW at, Contains(Script(s), Has("a1", "command"))
  PROVE  Told(s, Fault("removes", at))
<1>1. Blocks(s, Fault("removes", at), Has("a1", "command"))
  BY DEF Blocks, Fault, Has
<1>2. QED  BY <1>1 DEF Told, Contains

LEMMA MultiSpecTells == \A f \in Broken("multi") \ Unseen("multi") : Told("multi", f)
<1>1. Script("multi") = MultiSpec
  BY DEF Script
<1> SUFFICES ASSUME NEW f \in Broken("multi") \ Unseen("multi") PROVE Told("multi", f)
  OBVIOUS
<1>2. \/ f = Fault("stuck", <<"a1", "env">>)
      \/ \E at \in {<<"a1", "env">>, <<"a1", "route">>,
                      <<"a2", "env">>, <<"a2", "route">>} :
               f = Fault("ignores", at)
  BY DEF Broken, Unseen, Adds, Drops
<1>3. Told("multi", Fault("stuck", <<"a1", "env">>))
  BY <1>1, MultiSpecLooks, StuckTold
<1>4. /\ <<"a1", "env">> \in Adds("multi")
      /\ <<"a1", "route">> \in Adds("multi")
      /\ <<"a2", "env">> \in Adds("multi")
      /\ <<"a2", "route">> \in Adds("multi")
  BY DEF Adds
<1>5. /\ Told("multi", Fault("ignores", <<"a1", "env">>))
      /\ Told("multi", Fault("ignores", <<"a1", "route">>))
      /\ Told("multi", Fault("ignores", <<"a2", "env">>))
      /\ Told("multi", Fault("ignores", <<"a2", "route">>))
  BY <1>1, <1>4, MultiSpecLooks, IgnoredTold
<1>6. QED  BY <1>2, <1>3, <1>5

LEMMA SingleSpecTells == \A f \in Broken("single") \ Unseen("single") : Told("single", f)
<1>1. Script("single") = SingleSpec
  BY DEF Script
<1> SUFFICES ASSUME NEW f \in Broken("single") \ Unseen("single") PROVE Told("single", f)
  OBVIOUS
<1>2. \/ f = Fault("stuck", <<"a1", "env">>)
      \/ \E at \in {<<"a1", "route">>, <<"a1", "instances">>, <<"a1", "memory">>,
                      <<"a1", "health">>, <<"a1", "env">>, <<"a1", "labels">>} :
               f = Fault("ignores", at)
  BY DEF Broken, Unseen, Adds, Drops
<1>3. Told("single", Fault("stuck", <<"a1", "env">>))
  BY <1>1, SingleSpecLooks, StuckTold
<1>4. /\ <<"a1", "route">> \in Adds("single")
      /\ <<"a1", "instances">> \in Adds("single")
      /\ <<"a1", "memory">> \in Adds("single")
      /\ <<"a1", "health">> \in Adds("single")
      /\ <<"a1", "env">> \in Adds("single")
      /\ <<"a1", "labels">> \in Adds("single")
  BY DEF Adds
<1>5. /\ Told("single", Fault("ignores", <<"a1", "route">>))
      /\ Told("single", Fault("ignores", <<"a1", "instances">>))
      /\ Told("single", Fault("ignores", <<"a1", "memory">>))
      /\ Told("single", Fault("ignores", <<"a1", "health">>))
      /\ Told("single", Fault("ignores", <<"a1", "env">>))
      /\ Told("single", Fault("ignores", <<"a1", "labels">>))
  BY <1>1, <1>4, SingleSpecLooks, IgnoredTold
<1>6. QED  BY <1>2, <1>3, <1>5

LEMMA NoRouteSpecTells == \A f \in Broken("noRoute") \ Unseen("noRoute") : Told("noRoute", f)
<1>1. Script("noRoute") = NoRouteSpec
  BY DEF Script
<1> SUFFICES ASSUME NEW f \in Broken("noRoute") \ Unseen("noRoute") PROVE Told("noRoute", f)
  OBVIOUS
<1>2. f = Fault("stuck", <<"a1", "env">>)
  BY DEF Broken, Unseen, Adds, Drops
<1>3. Told("noRoute", Fault("stuck", <<"a1", "env">>))
  BY <1>1, NoRouteSpecLooks, StuckTold
<1>4. QED  BY <1>2, <1>3

LEMMA RandomRouteSpecTells == \A f \in Broken("randomRoute") \ Unseen("randomRoute") : Told("randomRoute", f)
<1>1. Script("randomRoute") = RandomRouteSpec
  BY DEF Script
<1> SUFFICES ASSUME NEW f \in Broken("randomRoute") \ Unseen("randomRoute") PROVE Told("randomRoute", f)
  OBVIOUS
<1>2. \/ f = Fault("stuck", <<"a1", "env">>)
      \/ \E at \in {<<"a1", "randomRoute">>} :
               f = Fault("ignores", at)
  BY DEF Broken, Unseen, Adds, Drops
<1>3. Told("randomRoute", Fault("stuck", <<"a1", "env">>))
  BY <1>1, RandomRouteSpecLooks, StuckTold
<1>4. <<"a1", "randomRoute">> \in Adds("randomRoute")
  BY DEF Adds
<1>5. Told("randomRoute", Fault("ignores", <<"a1", "randomRoute">>))
  BY <1>1, <1>4, RandomRouteSpecLooks, IgnoredTold
<1>6. QED  BY <1>2, <1>3, <1>5

LEMMA SidecarsSpecTells == \A f \in Broken("sidecars") \ Unseen("sidecars") : Told("sidecars", f)
<1>1. Script("sidecars") = SidecarsSpec
  BY DEF Script
<1> SUFFICES ASSUME NEW f \in Broken("sidecars") \ Unseen("sidecars") PROVE Told("sidecars", f)
  OBVIOUS
<1>2. \/ f = Fault("stuck", <<"a1", "env">>)
      \/ \E at \in {<<"a1", "left">>, <<"a1", "right">>} :
               f = Fault("ignores", at)
  BY DEF Broken, Unseen, Adds, Drops
<1>3. Told("sidecars", Fault("stuck", <<"a1", "env">>))
  BY <1>1, SidecarsSpecLooks, StuckTold
<1>4. /\ <<"a1", "left">> \in Adds("sidecars")
      /\ <<"a1", "right">> \in Adds("sidecars")
  BY DEF Adds
<1>5. /\ Told("sidecars", Fault("ignores", <<"a1", "left">>))
      /\ Told("sidecars", Fault("ignores", <<"a1", "right">>))
  BY <1>1, <1>4, SidecarsSpecLooks, IgnoredTold
<1>6. QED  BY <1>2, <1>3, <1>5

LEMMA ProcessSpecTells == \A f \in Broken("process") \ Unseen("process") : Told("process", f)
<1>1. Script("process") = ProcessSpec
  BY DEF Script
<1> SUFFICES ASSUME NEW f \in Broken("process") \ Unseen("process") PROVE Told("process", f)
  OBVIOUS
<1>2. \/ f = Fault("stuck", <<"a1", "env">>)
      \/ \E at \in {<<"a1", "instances">>, <<"a1", "command">>,
                      <<"a1", "health">>} :
               f = Fault("ignores", at)
  BY DEF Broken, Unseen, Adds, Drops
<1>3. Told("process", Fault("stuck", <<"a1", "env">>))
  BY <1>1, ProcessSpecLooks, StuckTold
<1>4. /\ <<"a1", "instances">> \in Adds("process")
      /\ <<"a1", "command">> \in Adds("process")
      /\ <<"a1", "health">> \in Adds("process")
  BY DEF Adds
<1>5. /\ Told("process", Fault("ignores", <<"a1", "instances">>))
      /\ Told("process", Fault("ignores", <<"a1", "command">>))
      /\ Told("process", Fault("ignores", <<"a1", "health">>))
  BY <1>1, <1>4, ProcessSpecLooks, IgnoredTold
<1>6. QED  BY <1>2, <1>3, <1>5

LEMMA TooSmallSpecTells == \A f \in Broken("tooSmall") \ Unseen("tooSmall") : Told("tooSmall", f)
<1>1. Script("tooSmall") = TooSmallSpec
  BY DEF Script
<1> SUFFICES ASSUME NEW f \in Broken("tooSmall") \ Unseen("tooSmall") PROVE Told("tooSmall", f)
  OBVIOUS
<1>2. \/ f = Fault("stuck", <<"a1", "env">>)
      \/ f = Fault("accepts", <<"a1", "memory">>)
  BY DEF Broken, Unseen, Adds, Drops
<1>3. QED  BY <1>1, <1>2, TooSmallSpecLooks, FailureTold

LEMMA PotatoSpecTells == \A f \in Broken("potato") \ Unseen("potato") : Told("potato", f)
<1>1. Script("potato") = PotatoSpec
  BY DEF Script
<1> SUFFICES ASSUME NEW f \in Broken("potato") \ Unseen("potato") PROVE Told("potato", f)
  OBVIOUS
<1>2. \/ f = Fault("stuck", <<"a1", "env">>)
      \/ \E at \in {<<"a1", "process">>, <<"a1", "instances">>,
                      <<"a1", "command">>, <<"a1", "health">>} :
               f = Fault("ignores", at)
  BY DEF Broken, Unseen, Adds, Drops
<1>3. Told("potato", Fault("stuck", <<"a1", "env">>))
  BY <1>1, PotatoSpecLooks, StuckTold
<1>4. /\ <<"a1", "process">> \in Adds("potato")
      /\ <<"a1", "instances">> \in Adds("potato")
      /\ <<"a1", "command">> \in Adds("potato")
      /\ <<"a1", "health">> \in Adds("potato")
  BY DEF Adds
<1>5. /\ Told("potato", Fault("ignores", <<"a1", "process">>))
      /\ Told("potato", Fault("ignores", <<"a1", "instances">>))
      /\ Told("potato", Fault("ignores", <<"a1", "command">>))
      /\ Told("potato", Fault("ignores", <<"a1", "health">>))
  BY <1>1, <1>4, PotatoSpecLooks, IgnoredTold
<1>6. QED  BY <1>2, <1>3, <1>5

LEMMA BeanSpecTells == \A f \in Broken("bean") \ Unseen("bean") : Told("bean", f)
<1>1. Script("bean") = BeanSpec
  BY DEF Script
<1> SUFFICES ASSUME NEW f \in Broken("bean") \ Unseen("bean") PROVE Told("bean", f)
  OBVIOUS
<1>2. \/ f = Fault("stuck", <<"a1", "env">>)
      \/ f = Fault("removes", <<"a1", "command">>)
      \/ \E at \in {<<"a1", "process">>, <<"a1", "instances">>,
                      <<"a1", "command">>} :
               f = Fault("ignores", at)
  BY DEF Broken, Unseen, Adds, Drops
<1>3. Told("bean", Fault("stuck", <<"a1", "env">>))
  BY <1>1, BeanSpecLooks, StuckTold
<1>4. Told("bean", Fault("removes", <<"a1", "command">>))
  BY <1>1, BeanSpecLooks, RemovedTold
<1>5. /\ <<"a1", "process">> \in Adds("bean")
      /\ <<"a1", "instances">> \in Adds("bean")
      /\ <<"a1", "command">> \in Adds("bean")
  BY DEF Adds
<1>6. /\ Told("bean", Fault("ignores", <<"a1", "process">>))
      /\ Told("bean", Fault("ignores", <<"a1", "instances">>))
      /\ Told("bean", Fault("ignores", <<"a1", "command">>))
  BY <1>1, <1>5, BeanSpecLooks, IgnoredTold
<1>7. QED  BY <1>2, <1>3, <1>4, <1>6

LEMMA BuildpacksSpecTells == \A f \in Broken("buildpacks") \ Unseen("buildpacks") : Told("buildpacks", f)
<1>1. Script("buildpacks") = BuildpacksSpec
  BY DEF Script
<1> SUFFICES ASSUME NEW f \in Broken("buildpacks") \ Unseen("buildpacks") PROVE Told("buildpacks", f)
  OBVIOUS
<1>2. \/ f = Fault("stuck", <<"a1", "env">>)
      \/ \E at \in {<<"a1", "buildpacks">>} :
               f = Fault("ignores", at)
  BY DEF Broken, Unseen, Adds, Drops
<1>3. Told("buildpacks", Fault("stuck", <<"a1", "env">>))
  BY <1>1, BuildpacksSpecLooks, StuckTold
<1>4. <<"a1", "buildpacks">> \in Adds("buildpacks")
  BY DEF Adds
<1>5. Told("buildpacks", Fault("ignores", <<"a1", "buildpacks">>))
  BY <1>1, <1>4, BuildpacksSpecLooks, IgnoredTold
<1>6. QED  BY <1>2, <1>3, <1>5

LEMMA AutodetectSpecTells == \A f \in Broken("autodetect") \ Unseen("autodetect") : Told("autodetect", f)
<1>1. Script("autodetect") = AutodetectSpec
  BY DEF Script
<1> SUFFICES ASSUME NEW f \in Broken("autodetect") \ Unseen("autodetect") PROVE Told("autodetect", f)
  OBVIOUS
<1>2. f = Fault("stuck", <<"a1", "env">>)
  BY DEF Broken, Unseen, Adds, Drops
<1>3. Told("autodetect", Fault("stuck", <<"a1", "env">>))
  BY <1>1, AutodetectSpecLooks, StuckTold
<1>4. QED  BY <1>2, <1>3

LEMMA ServicesSpecTells == \A f \in Broken("services") \ Unseen("services") : Told("services", f)
<1>1. Script("services") = ServicesSpec
  BY DEF Script
<1> SUFFICES ASSUME NEW f \in Broken("services") \ Unseen("services") PROVE Told("services", f)
  OBVIOUS
<1>2. \/ f = Fault("stuck", <<"a1", "env">>)
      \/ \E at \in {<<"a1", "bound">>} :
               f = Fault("ignores", at)
  BY DEF Broken, Unseen, Adds, Drops
<1>3. Told("services", Fault("stuck", <<"a1", "env">>))
  BY <1>1, ServicesSpecLooks, StuckTold
<1>4. <<"a1", "bound">> \in Adds("services")
  BY DEF Adds
<1>5. Told("services", Fault("ignores", <<"a1", "bound">>))
  BY <1>1, <1>4, ServicesSpecLooks, IgnoredTold
<1>6. QED  BY <1>2, <1>3, <1>5

LEMMA CustomSpecTells == \A f \in Broken("custom") \ Unseen("custom") : Told("custom", f)
<1>1. Script("custom") = CustomSpec
  BY DEF Script
<1> SUFFICES ASSUME NEW f \in Broken("custom") \ Unseen("custom") PROVE Told("custom", f)
  OBVIOUS
<1>2. \/ f = Fault("stuck", <<"a1", "env">>)
      \/ \E at \in {<<"own", "process">>, <<"own", "instances">>} :
               f = Fault("ignores", at)
  BY DEF Broken, Unseen, Adds, Drops
<1>3. Told("custom", Fault("stuck", <<"a1", "env">>))
  BY <1>1, CustomSpecLooks, StuckTold
<1>4. /\ <<"own", "process">> \in Adds("custom")
      /\ <<"own", "instances">> \in Adds("custom")
  BY DEF Adds
<1>5. /\ Told("custom", Fault("ignores", <<"own", "process">>))
      /\ Told("custom", Fault("ignores", <<"own", "instances">>))
  BY <1>1, <1>4, CustomSpecLooks, IgnoredTold
<1>6. QED  BY <1>2, <1>3, <1>5

\* Every fault that is not in Unseen makes a step of the script impossible to pass.
LEMMA EveryFaultIsTold == \A s \in Specs : \A f \in Broken(s) \ Unseen(s) : Told(s, f)
BY MultiSpecTells, SingleSpecTells, NoRouteSpecTells, RandomRouteSpecTells,
   SidecarsSpecTells, ProcessSpecTells, TooSmallSpecTells, PotatoSpecTells,
   BeanSpecTells, BuildpacksSpecTells, AutodetectSpecTells, ServicesSpecTells,
   CustomSpecTells DEF Specs
\* What a manifest adds is something else than what an app has without it.
LEMMA AddsShape ==
  \A s \in Specs : \A at \in Adds(s) :
    /\ at[1] \in Apps /\ at[2] \notin {"droplet", "sidecar", "offering", "public"}
    /\ at = <<at[1], at[2]>>
<1> SUFFICES ASSUME NEW s \in Specs, NEW at \in Adds(s)
             PROVE  /\ at[1] \in Apps /\ at[2] \notin {"droplet", "sidecar", "offering", "public"}
                    /\ at = <<at[1], at[2]>>
  OBVIOUS
<1>1. at \in {"a1", "a2", "own"} \X (StepFeatures \ {"droplet", "offering", "public"})
  BY DEF Adds, StepFeatures, Specs
<1>2. QED  BY <1>1 DEF Apps, StepFeatures

\* The bean's spec posts its manifest at 2, has its job at 3 and a new droplet at 6.
LEMMA BeanScript ==
  LET q == Script("bean") IN
  /\ Len(q) = 7
  /\ q[3] = Does("complete", "a1") /\ q[6] = Does("assignDroplet", "a1")
  /\ q[7] = Has("a1", "command")
  /\ q[4] = Has("a1", "process") /\ q[5] = Has("a1", "instances")
  /\ q[1] = Make("a1") /\ q[2] = Does("apply", "a1")
<1> DEFINE tail == <<Has("a1", "process"), Has("a1", "instances"),
                     Does("assignDroplet", "a1"), Has("a1", "command")>>
           head == One \o Applied
           script == head \o tail
<1>1. Script("bean") = script
  BY DEF Script, BeanSpec
<1>2. tail \in Seq(Plain) /\ Len(tail) = 4
  <2>1. /\ Has("a1", "process") \in Plain /\ Has("a1", "instances") \in Plain
        /\ Does("assignDroplet", "a1") \in Plain /\ Has("a1", "command") \in Plain
    BY PlainSteps DEF Apps, PlainOps, StepFeatures
  <2>2. QED  BY <2>1
<1>3. /\ tail[1] = Has("a1", "process") /\ tail[2] = Has("a1", "instances")
      /\ tail[3] = Does("assignDroplet", "a1") /\ tail[4] = Has("a1", "command")
  OBVIOUS
<1> HIDE DEF tail
<1>4. /\ One \in Seq(Plain) /\ Len(One) = 1 /\ One[1] = Make("a1")
      /\ Applied \in Seq(Plain) /\ Len(Applied) = 2
      /\ Applied[1] = Does("apply", "a1") /\ Applied[2] = Does("complete", "a1")
  BY PlainParts DEF One, Applied
<1>5. /\ head \in Seq(Plain) /\ Len(head) = Len(One) + Len(Applied)
      /\ \A i \in 1..Len(One) : head[i] = One[i]
      /\ Continues(head, Len(One), Applied)
  BY <1>4, ConcatLen, ConcatLeft, ConcatRight, Zenon
<1>6. Len(head) = 3 /\ head[1] = One[1] /\ head[2] = Applied[1] /\ head[3] = Applied[2]
  BY <1>4, <1>5 DEF Continues
<1> HIDE DEF head
<1>7. /\ Len(script) = Len(head) + Len(tail)
      /\ \A i \in 1..Len(head) : script[i] = head[i]
      /\ Continues(script, Len(head), tail)
  BY <1>2, <1>5, ConcatLen, ConcatLeft, ConcatRight, Zenon DEF script
<1> HIDE DEF script
<1>8. /\ script[4] = tail[1] /\ script[5] = tail[2]
      /\ script[6] = tail[3] /\ script[7] = tail[4]
  BY <1>2, <1>6, <1>7 DEF Continues
<1>9. Len(script) = 7 /\ script[1] = head[1] /\ script[2] = head[2] /\ script[3] = head[3]
  BY <1>2, <1>6, <1>7
<1>10. QED  BY <1>1, <1>3, <1>4, <1>6, <1>8, <1>9

\* A job that is stuck does not end, one the platform accepts does not fail.
JobInv ==
  /\ fault.kind = "stuck" => job \in {"none", "processing"}
  /\ fault.kind = "accepts" => job # "FAILED"

\* What the platform ignores no app ever has, nor shows.
IgnoredInv ==
  fault.kind = "ignores" /\ fault.at \in Adds(scenario) =>
    fault.at[2] \notin has[fault.at[1]] \cup runs[fault.at[1]]

\* No job is left to give the bean its command back once the droplet took it.
BeanInv ==
  phase = "spec" /\ scenario = "bean" =>
    /\ pc > 3 => job = "COMPLETE"
    /\ pc > 6 /\ fault.kind = "removes" => "command" \notin has["a1"]

\* The spec has been through no step that the fault blocks.
BehindInv ==
  /\ verdict # "failed" =>
       \A i \in 1..(pc - 1) : ~Blocks(scenario, fault, Script(scenario)[i])
  /\ verdict = "passed" => pc = Len(Script(scenario)) + 1

FaultInv == IInv /\ TypeOK /\ JobInv /\ IgnoredInv /\ BeanInv /\ BehindInv

\* Where the bean's spec stands.
LEMMA SpotOfBean ==
  ASSUME IInv, phase = "spec", scenario = "bean"
  PROVE  /\ pc \in 1..7 /\ Len(Script(scenario)) = 7
         /\ pc = 3 => Spot.op = "complete"
         /\ pc = 6 => Spot.op = "assignDroplet"
         /\ pc > 3 => Spot.op \in {"has", "assignDroplet"}
         /\ Spot.op = "has" /\ Spot.f = "command" => pc = 7 /\ Spot.app = "a1"
<1>1. Len(Script(scenario)) = 7 /\ pc \in 1..7 /\ Spot = Script("bean")[pc]
  BY BeanScript DEF IInv, PlaceInv, Spot
<1>2. /\ pc = 1 => Spot.op = "make"
      /\ pc = 2 => Spot.op = "apply"
      /\ pc = 3 => Spot.op = "complete"
      /\ pc = 4 => Spot.op = "has" /\ Spot.f = "process"
      /\ pc = 5 => Spot.op = "has" /\ Spot.f = "instances"
      /\ pc = 6 => Spot.op = "assignDroplet"
      /\ pc = 7 => Spot.op = "has" /\ Spot.f = "command" /\ Spot.app = "a1"
  BY <1>1, BeanScript DEF Make, Does, Has
<1>3. QED  BY <1>1, <1>2

\* Only the bean's droplet removes something.
LEMMA OnlyBeanRemoves == TypeOK /\ fault.kind = "removes" => scenario = "bean"
BY DEF TypeOK, Broken, Fault, Sound

\* A step that the spec passes is not one that the fault blocks.
LEMMA SeenNotBlocked ==
  ASSUME FaultInv, InSpec, Seen
  PROVE  ~Blocks(scenario, fault, Spot)
<1> USE DEF FaultInv, InSpec
<1>1. CASE fault.kind = "stuck"
  BY <1>1 DEF Blocks, Seen, JobInv
<1>2. CASE fault.kind = "accepts"
  BY <1>2 DEF Blocks, Seen, JobInv
<1>3. CASE fault.kind = "ignores"
  <2> SUFFICES ASSUME fault.at \in Adds(scenario), Spot.op \in {"has", "shows"},
                      fault.at = <<Spot.app, Spot.f>>
               PROVE  FALSE
    BY <1>3 DEF Blocks
  <2>1. fault.at[1] = Spot.app /\ fault.at[2] = Spot.f
    OBVIOUS
  <2>2. Spot.f \notin has[Spot.app] \cup runs[Spot.app]
    BY <1>3, <2>1 DEF IgnoredInv
  <2>3. QED  BY <2>2 DEF Seen
<1>4. CASE fault.kind = "removes"
  <2> SUFFICES ASSUME Spot.op = "has", Spot.f = "command" PROVE FALSE
    BY <1>4 DEF Blocks
  <2>1. scenario = "bean"
    BY <1>4, OnlyBeanRemoves
  <2>2. pc = 7 /\ Spot.app = "a1"
    BY <2>1, SpotOfBean
  <2>3. "command" \notin has["a1"]
    BY <1>4, <2>1, <2>2 DEF BeanInv
  <2>4. QED  BY <2>2, <2>3 DEF Seen
<1>5. QED  BY <1>1, <1>2, <1>3, <1>4 DEF Blocks

LEMMA RequestNotBlocked == Spot.op \notin Waits \cup Looks => ~Blocks(scenario, fault, Spot)
BY DEF Blocks, Waits, Looks

\* A request gives no app what its manifest adds.
LEMMA EffectOnFault ==
  ASSUME FaultInv, phase = "spec", Effect, UNCHANGED chosen
  PROVE  /\ JobInv' /\ IgnoredInv'
         /\ Spot.op # "apply" => job' = job
         /\ Spot.op = "assignDroplet" /\ fault.kind = "removes" => "command" \notin has'["a1"]
<1>c. fault' = fault /\ scenario' = scenario /\ scenario \in Specs
  BY DEF chosen, FaultInv, IInv, PlaceInv
<1>1. job' = job \/ (Spot.op = "apply" /\ job' = "processing")
  BY DEF Effect, MakeApp, ApplyManifest, Restart, CreateSidecar, AssignDropletToApp,
     PushBroker, Publish, CreateBroker, CreateService, DeleteOwn, Other, platform
<1>2. JobInv'
  BY <1>1, <1>c DEF FaultInv, JobInv
<1>3. Spot.op = "assignDroplet" /\ fault.kind = "removes" => "command" \notin has'["a1"]
  BY DEF Effect, MakeApp, ApplyManifest, Restart, CreateSidecar, AssignDropletToApp,
     PushBroker, Publish, CreateBroker, CreateService, DeleteOwn, Other, FaultInv, TypeOK, Apps
<1>4. IgnoredInv'
  <2> SUFFICES ASSUME fault.kind = "ignores", fault.at \in Adds(scenario)
               PROVE  fault.at[2] \notin has'[fault.at[1]] \cup runs'[fault.at[1]]
    BY <1>c DEF IgnoredInv
  <2> DEFINE a == fault.at[1]
             f == fault.at[2]
  <2>1. a \in Apps /\ f \notin {"droplet", "sidecar", "offering", "public"}
    BY <1>c, AddsShape
  <2>2. f \notin has[a] /\ f \notin runs[a]
    BY DEF FaultInv, IgnoredInv
  <2>3. has \in [Apps -> SUBSET Features] /\ runs \in [Apps -> SUBSET Features]
    BY DEF FaultInv, TypeOK
  <2> HIDE DEF a, f
  <2>4. f \notin has'[a]
    <3>1. CASE MakeApp
      BY <3>1, <2>1, <2>2, <2>3 DEF MakeApp
    <3>2. CASE CreateSidecar
      BY <3>2, <2>1, <2>2, <2>3 DEF CreateSidecar
    <3>3. CASE AssignDropletToApp
      BY <3>3, <2>1, <2>2, <2>3 DEF AssignDropletToApp
    <3>4. CASE Publish
      BY <3>4, <2>1, <2>2, <2>3 DEF Publish
    <3>5. CASE ~(MakeApp \/ CreateSidecar \/ AssignDropletToApp \/ Publish)
      BY <3>5, <2>2 DEF Effect, ApplyManifest, Restart, PushBroker, CreateBroker, CreateService,
         DeleteOwn, Other, platform
    <3>6. QED  BY <3>1, <3>2, <3>3, <3>4, <3>5
  <2>5. f \notin runs'[a]
    <3>1. CASE Restart
      BY <3>1, <2>1, <2>2, <2>3, SpotShape DEF Restart, FaultInv
    <3>2. CASE ~Restart
      BY <3>2, <2>2 DEF Effect, MakeApp, ApplyManifest, CreateSidecar, AssignDropletToApp,
         PushBroker, Publish, CreateBroker, CreateService, DeleteOwn, Other, platform
    <3>3. QED  BY <3>1, <3>2
  <2>6. QED  BY <2>4, <2>5 DEF a, f
<1>5. QED  BY <1>1, <1>2, <1>3, <1>4

\* A step the spec goes on from, or fails in.
LEMMA BehindStep ==
  ASSUME FaultInv, InSpec, UNCHANGED chosen,
         (Advance /\ ~Blocks(scenario, fault, Spot)) \/ Fail
  PROVE  BehindInv'
<1>1. fault' = fault /\ scenario' = scenario
  BY DEF chosen
<1>2. /\ phase = "spec" /\ pc \in 1..Len(Script(scenario)) /\ verdict = "running"
      /\ Len(Script(scenario)) \in Nat
  BY BrokerPositions DEF FaultInv, IInv, PlaceInv, InSpec
<1>3. CASE Fail
  BY <1>3 DEF Fail, Leave, BehindInv
<1>4. CASE Advance /\ ~Blocks(scenario, fault, Spot)
  <2>1. pc' = pc + 1 /\ (verdict' = "passed" => pc = Len(Script(scenario)))
    BY <1>4, <1>2 DEF Advance, Leave
  <2>2. \A i \in 1..(pc' - 1) : i \in 1..(pc - 1) \/ i = pc
    BY <1>2, <2>1
  <2>3. \A i \in 1..(pc' - 1) : ~Blocks(scenario, fault, Script(scenario)[i])
    BY <1>2, <1>4, <2>2 DEF FaultInv, BehindInv, Spot
  <2>4. QED  BY <1>1, <2>1, <2>3 DEF BehindInv
<1>5. QED  BY <1>3, <1>4

LEMMA RequestFault ==
  ASSUME FaultInv, Request
  PROVE  JobInv' /\ IgnoredInv' /\ BeanInv' /\ BehindInv'
<1>1. InSpec /\ Effect /\ Advance /\ UNCHANGED chosen /\ Spot.op \notin Waits \cup Looks
      /\ phase = "spec"
  BY DEF Request, InSpec
<1>2. JobInv' /\ IgnoredInv'
  BY <1>1, EffectOnFault
<1>3. BehindInv'
  BY <1>1, RequestNotBlocked, BehindStep
<1>4. BeanInv'
  <2> SUFFICES ASSUME phase' = "spec", scenario = "bean"
               PROVE  /\ pc' > 3 => job' = "COMPLETE"
                      /\ pc' > 6 /\ fault.kind = "removes" => "command" \notin has'["a1"]
    BY <1>1 DEF BeanInv, chosen
  <2>1. /\ pc \in 1..7 /\ Len(Script(scenario)) = 7 /\ pc' = pc + 1
        /\ (pc = 3 => Spot.op = "complete") /\ (pc = 6 => Spot.op = "assignDroplet")
        /\ (pc > 3 => Spot.op \in {"has", "assignDroplet"})
    BY <1>1, SpotOfBean DEF FaultInv, Advance
  <2>2. pc # 7 /\ pc # 3
    BY <1>1, <2>1 DEF Advance, Leave, Waits
  <2>3. pc' > 3 => pc > 3 /\ Spot.op # "apply"
    BY <2>1, <2>2
  <2>4. pc' > 6 => pc = 6
    BY <2>1, <2>2
  <2>5. Spot.op # "apply" => job' = job
    BY <1>1, EffectOnFault
  <2>6. Spot.op = "assignDroplet" /\ fault.kind = "removes" => "command" \notin has'["a1"]
    BY <1>1, EffectOnFault
  <2>7. pc > 3 => job = "COMPLETE"
    BY <1>1 DEF FaultInv, BeanInv
  <2>8. QED  BY <2>1, <2>3, <2>4, <2>5, <2>6, <2>7
<1>5. QED  BY <1>2, <1>3, <1>4

LEMMA RefusedFault ==
  ASSUME FaultInv, Refused
  PROVE  JobInv' /\ IgnoredInv' /\ BeanInv' /\ BehindInv'
<1>1. InSpec /\ UNCHANGED chosen /\ phase = "spec"
  BY DEF Refused, InSpec
<1>2. JobInv' /\ IgnoredInv'
  <2>1. CASE Effect
    BY <1>1, <2>1, EffectOnFault
  <2>2. CASE UNCHANGED platform
    BY <1>1, <2>2 DEF FaultInv, JobInv, IgnoredInv, chosen, platform
  <2>3. QED  BY <2>1, <2>2 DEF Refused
<1>3. \/ Spot.op \in Unnoticed /\ Advance
      \/ Fail
  BY DEF Refused
<1>4. BehindInv'
  <2>1. Spot.op \in Unnoticed => ~Blocks(scenario, fault, Spot)
    BY RequestNotBlocked DEF Waits, Looks, Unnoticed
  <2>2. QED  BY <1>1, <1>3, <2>1, BehindStep
<1>5. BeanInv'
  <2>1. CASE Fail
    BY <2>1 DEF Fail, Leave, BeanInv
  <2>2. CASE Spot.op \in Unnoticed /\ Advance
    <3> SUFFICES ASSUME scenario = "bean"
                 PROVE  ~(pc' > 3)
      <4>1. scenario' = scenario /\ pc' \in Nat
        BY <1>1, <2>2, BrokerPositions DEF chosen, Advance, FaultInv, IInv, PlaceInv
      <4>2. pc' > 6 => pc' > 3
        BY <4>1
      <4>3. QED  BY <4>1, <4>2 DEF BeanInv
    <3>1. /\ pc \in 1..7 /\ pc' = pc + 1 /\ (pc = 3 => Spot.op = "complete")
          /\ (pc > 3 => Spot.op \in {"has", "assignDroplet"})
      BY <1>1, <2>2, SpotOfBean DEF FaultInv, Advance
    <3>2. QED  BY <2>2, <3>1 DEF Unnoticed
  <2>3. QED  BY <1>3, <2>1, <2>2
<1>6. QED  BY <1>2, <1>4, <1>5

LEMMA WatchFault ==
  ASSUME FaultInv, Poll \/ Timeout \/ Look
  PROVE  JobInv' /\ IgnoredInv' /\ BeanInv' /\ BehindInv'
<1>1. /\ InSpec /\ UNCHANGED <<chosen, platform>> /\ phase = "spec"
      /\ Spot.op \in Waits \cup Looks
  BY DEF Poll, Timeout, Look, At, InSpec
<1>2. JobInv' /\ IgnoredInv'
  BY <1>1 DEF FaultInv, JobInv, IgnoredInv, chosen, platform
<1>3. (Advance /\ Seen) \/ Fail
  BY DEF Poll, Timeout, Look
<1>4. BehindInv'
  BY <1>1, <1>3, SeenNotBlocked, BehindStep
<1>5. BeanInv'
  <2>1. CASE Fail
    BY <2>1 DEF Fail, Leave, BeanInv
  <2>2. CASE Advance /\ Seen
    <3> SUFFICES ASSUME phase' = "spec", scenario = "bean"
                 PROVE  /\ pc' > 3 => job' = "COMPLETE"
                        /\ pc' > 6 /\ fault.kind = "removes" => "command" \notin has'["a1"]
      BY <1>1 DEF BeanInv, chosen
    <3>1. /\ pc \in 1..7 /\ Len(Script(scenario)) = 7 /\ pc' = pc + 1
          /\ (pc = 3 => Spot.op = "complete") /\ (pc = 6 => Spot.op = "assignDroplet")
      BY <1>1, <2>2, SpotOfBean DEF FaultInv, Advance
    <3>2. pc # 7 /\ pc # 6
      BY <1>1, <2>2, <3>1 DEF Advance, Leave, Waits, Looks
    <3>3. pc = 3 => job = "COMPLETE"
      BY <2>2, <3>1 DEF Seen
    <3>4. pc > 3 => job = "COMPLETE"
      BY <1>1 DEF FaultInv, BeanInv
    <3>5. job' = job
      BY <1>1 DEF platform
    <3>6. (pc' > 3 => pc = 3 \/ pc > 3) /\ ~(pc' > 6)
      BY <3>1, <3>2
    <3>7. QED  BY <3>3, <3>4, <3>5, <3>6
  <2>3. QED  BY <1>3, <2>1, <2>2
<1>6. QED  BY <1>2, <1>4, <1>5

\* The platform carries out no line that it ignores.
LEMMA PlatformFault ==
  ASSUME FaultInv, Platform
  PROVE  JobInv' /\ IgnoredInv' /\ BeanInv' /\ BehindInv'
<1>1. UNCHANGED <<chosen, driver, cleanup>>
  BY DEF Platform
<1>2. BehindInv'
  BY <1>1 DEF FaultInv, BehindInv, chosen, driver
<1>p. pc \in Nat
  BY DEF FaultInv, IInv, PlaceInv
<1>3. CASE JobEnds
  <2>1. JobInv'
    BY <1>1, <1>3 DEF JobEnds, JobInv, chosen
  <2>2. BeanInv'
    <3>1. phase = "spec" /\ scenario = "bean" => ~(pc > 3)
      BY <1>3 DEF JobEnds, FaultInv, BeanInv
    <3>2. pc > 6 => pc > 3
      BY <1>p
    <3>3. QED  BY <1>1, <3>1, <3>2 DEF BeanInv, chosen, driver, cleanup
  <2>3. IgnoredInv'
    <3> SUFFICES ASSUME fault.kind = "ignores", fault.at \in Adds(scenario)
                 PROVE  fault.at[2] \notin has'[fault.at[1]] \cup runs'[fault.at[1]]
      BY <1>1 DEF IgnoredInv, chosen
    <3> DEFINE a == fault.at[1]
               f == fault.at[2]
    <3>1. a \in Apps /\ fault.at = <<a, f>>
      BY AddsShape DEF FaultInv, IInv, PlaceInv
    <3>2. f \notin has[a] /\ f \notin runs[a]
      BY DEF FaultInv, IgnoredInv
    <3> HIDE DEF a, f
    <3>3. scenario # "tooSmall"
      BY DEF Adds
    <3>4. f \notin Carried(a)
      BY <3>1, <3>2 DEF Carried, Handled
    <3>5. has'[a] \in {Carried(a), has[a]} /\ runs' = runs
      BY <1>3, <3>1, <3>3 DEF JobEnds
    <3>6. QED  BY <3>2, <3>4, <3>5 DEF a, f
  <2>4. QED  BY <1>2, <2>1, <2>2, <2>3
<1>4. CASE \E b \in Apps : RouteServes(b)
  <2>1. job' = job /\ has' = has
    BY <1>4 DEF RouteServes
  <2>2. JobInv' /\ BeanInv'
    BY <1>1, <2>1 DEF FaultInv, JobInv, BeanInv, chosen, driver, cleanup
  <2>3. IgnoredInv'
    BY <1>1, <1>4 DEF RouteServes, FaultInv, TypeOK, IgnoredInv, chosen
  <2>4. QED  BY <1>2, <2>2, <2>3
<1>5. QED  BY <1>3, <1>4 DEF Platform

LEMMA CleanupFault ==
  ASSUME FaultInv, CleanupStep \/ CleanupPanics \/ CleanupFails \/ UNCHANGED vars
  PROVE  JobInv' /\ IgnoredInv' /\ BeanInv' /\ BehindInv'
<1>1. UNCHANGED <<chosen, pc, verdict, has, runs, job>>
  BY DEF CleanupStep, CleanupPanics, CleanupFails, vars, driver, platform
<1>2. phase' = "spec" => phase = "spec"
  BY DEF CleanupStep, CleanupPanics, CleanupFails, Cleaning, Ahead, Skipped, vars, cleanup
<1>3. QED  BY <1>1, <1>2 DEF FaultInv, JobInv, IgnoredInv, BeanInv, BehindInv, chosen

LEMMA FaultStep == FaultInv /\ [Next]_vars => FaultInv'
<1> SUFFICES ASSUME FaultInv, [Next]_vars PROVE FaultInv'
  OBVIOUS
<1>1. IInv' /\ TypeOK'
  BY NextIInv, TypeStep DEF FaultInv
<1>2. JobInv' /\ IgnoredInv' /\ BeanInv' /\ BehindInv'
  BY RequestFault, RefusedFault, WatchFault, PlatformFault, CleanupFault DEF Next, Driver
<1>3. QED  BY <1>1, <1>2 DEF FaultInv

\* NoFaultPasses: a spec that passes has looked at every line of its manifest it can
\* tell, and the platform handled it, whichever requests failed on the way
\* (manifest.go:106-769).
THEOREM NoFaultGoesUnseen == Spec => []NoFaultPasses
<1>1. Init => FaultInv
  <2> SUFFICES ASSUME Init PROVE FaultInv
    OBVIOUS
  <2>1. JobInv /\ BeanInv /\ BehindInv
    BY DEF Init, JobInv, BeanInv, BehindInv
  <2>2. IgnoredInv
    <3>1. scenario \in Specs
      BY ManifestAssumption DEF Init
    <3>2. \A a \in Apps : has[a] = {} /\ runs[a] = {}
      BY DEF Init
    <3>3. QED  BY <3>1, <3>2, AddsShape DEF IgnoredInv
  <2>3. QED  BY <2>1, <2>2, InitIInv, InitTypeOK DEF FaultInv
<1>2. FaultInv => NoFaultPasses
  <2> SUFFICES ASSUME FaultInv, verdict = "passed", fault \notin {Sound} \cup Unseen(scenario)
               PROVE  FALSE
    BY DEF NoFaultPasses
  <2>1. scenario \in Specs /\ fault \in Broken(scenario) \ Unseen(scenario)
    BY DEF FaultInv, IInv, PlaceInv, TypeOK
  <2>2. PICK i \in 1..Len(Script(scenario)) : Blocks(scenario, fault, Script(scenario)[i])
    BY <2>1, EveryFaultIsTold DEF Told
  <2>3. pc = Len(Script(scenario)) + 1 /\ Len(Script(scenario)) \in Nat
    BY <2>1, BrokerPositions DEF FaultInv, BehindInv
  <2>4. i \in 1..(pc - 1)
    BY <2>3
  <2>5. QED  BY <2>2, <2>4 DEF FaultInv, BehindInv
<1>3. QED  BY <1>1, <1>2, FaultStep, PTL DEF Spec
=============================================================================
