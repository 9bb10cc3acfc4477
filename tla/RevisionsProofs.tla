-------------------------- MODULE RevisionsProofs --------------------------
(***************************************************************************)
(* The revisions specs and their platform are well typed; the specs that   *)
(* stop and start an app wait until no instance of before is left; and a   *)
(* spec that passes has noticed every broken promise it has a check for.   *)
(*                                                                         *)
(* All of it rests on what the scripts look like: where they start the app *)
(* (Base, Deed), what comes before and what is checked after (Places,      *)
(* SpecChecks).  For the last theorem the invariant says what the platform *)
(* holds before the start the spec is about (StageInv), what the promise   *)
(* broken leaves behind (Aftermath), and that no spec goes past a check    *)
(* which that refutes (StuckInv).                                          *)
(***************************************************************************)
EXTENDS Revisions, SequenceTheorems, TLAPS

CalmOps == {"allUp", "deployed", "same", "kept", "commandKept", "isNew", "linked",
            "originalEnv", "droplet", "command", "env", "sidecar"}

\* The steps that neither start nor stop nor note anything.
Calm ==
  {Does(op) : op \in CalmOps} \cup {Longer(n) : n \in Nat}
    \cup {Records(a, new) : a \in Aspects, new \in BOOLEAN}
    \cup {Serves(a, new) : a \in Aspects, new \in BOOLEAN}

Steps ==
  Calm \cup {Does("start"), Does("stop"), Does("stopped"), Does("restart"), Does("deploy"),
             Does("rollback"), Does("noteRevisions"), Does("noteProcess")}

\* Nothing is started but at first and after a wait for a stop.
Orderly(q) ==
  \A i \in 1..Len(q) :
    /\ q[i].op \notin {"restart", "deploy", "rollback"}
    /\ q[i].op = "start" /\ i > 1 => q[i - 1].op = "stopped"
    /\ q[i].op = "stopped" => i > 1 /\ q[i - 1].op = "stop"

-----------------------------------------------------------------------------
(* The scripts. *)

\* A concatenation, part by part.
LEMMA ConcatLen ==
  \A S : \A s, t \in Seq(S) : s \o t \in Seq(S) /\ Len(s \o t) = Len(s) + Len(t)
BY ConcatProperties

LEMMA ConcatLeft == \A S : \A s, t \in Seq(S) : \A i \in 1..Len(s) : (s \o t)[i] = s[i]
<1> SUFFICES ASSUME NEW S, NEW s \in Seq(S), NEW t \in Seq(S), NEW i \in 1..Len(s)
             PROVE  (s \o t)[i] = s[i]
  OBVIOUS
<1>1. Len(s) \in Nat /\ Len(t) \in Nat
  OBVIOUS
<1> QED BY <1>1, ConcatProperties

LEMMA ConcatRight ==
  \A S : \A s, t \in Seq(S) : \A i \in 1..(Len(s) + Len(t)) :
    i > Len(s) => i - Len(s) \in 1..Len(t) /\ (s \o t)[i] = t[i - Len(s)]
<1> SUFFICES ASSUME NEW S, NEW s \in Seq(S), NEW t \in Seq(S),
                    NEW i \in 1..(Len(s) + Len(t)), i > Len(s)
             PROVE  i - Len(s) \in 1..Len(t) /\ (s \o t)[i] = t[i - Len(s)]
  OBVIOUS
<1>1. \A k \in 1..(Len(s) + Len(t)) : (s \o t)[k] = IF k <= Len(s) THEN s[k] ELSE t[k - Len(s)]
  BY ConcatProperties
<1>2. Len(s) \in Nat /\ Len(t) \in Nat
  OBVIOUS
<1>3. i - Len(s) \in 1..Len(t) /\ ~(i <= Len(s))
  BY <1>2
<1> QED BY <1>1, <1>3

LEMMA CalmOp == \A st \in Calm : st.op \notin {"start", "stop", "stopped", "restart", "deploy",
                                               "rollback", "noteRevisions", "noteProcess"}
BY DEF Calm, CalmOps, Does, Longer, Records, Serves

LEMMA OrderlyCalm ==
  ASSUME NEW q \in Seq(Steps), NEW r \in Seq(Calm), Orderly(q)
  PROVE  q \o r \in Seq(Steps) /\ Orderly(q \o r) /\ Len(q \o r) = Len(q) + Len(r)
<1>1. r \in Seq(Steps) /\ \A i \in 1..Len(r) : r[i] \in Calm
  BY DEF Steps
<1>2. q \o r \in Seq(Steps) /\ Len(q \o r) = Len(q) + Len(r)
  BY <1>1, ConcatLen, Zenon
<1>3. \A i \in 1..Len(q) : (q \o r)[i] = q[i]
  BY <1>1, ConcatLeft, Zenon
<1>4. \A i \in 1..(Len(q) + Len(r)) :
        i > Len(q) => i - Len(q) \in 1..Len(r) /\ (q \o r)[i] = r[i - Len(q)]
  BY <1>1, ConcatRight, Zenon
<1>5. Len(q) \in Nat /\ Len(r) \in Nat
  OBVIOUS
<1>6. ASSUME NEW i \in 1..Len(q \o r)
      PROVE  /\ (q \o r)[i].op \notin {"restart", "deploy", "rollback"}
             /\ (q \o r)[i].op = "start" /\ i > 1 => (q \o r)[i - 1].op = "stopped"
             /\ (q \o r)[i].op = "stopped" => i > 1 /\ (q \o r)[i - 1].op = "stop"
  <2>1. CASE i <= Len(q)
    <3>1. (q \o r)[i] = q[i] /\ (i > 1 => (q \o r)[i - 1] = q[i - 1])
      BY <1>3, <1>5, <2>1
    <3> QED BY <1>5, <2>1, <3>1 DEF Orderly
  <2>2. CASE i > Len(q)
    <3>1. (q \o r)[i] \in Calm
      BY <1>1, <1>2, <1>4, <2>2
    <3> QED BY <3>1, CalmOp
  <2> QED BY <1>5, <2>1, <2>2
<1> QED BY <1>2, <1>6 DEF Orderly

LEMMA OrderlyStopping ==
  ASSUME NEW q \in Seq(Steps), Orderly(q)
  PROVE  q \o Stopping \in Seq(Steps) /\ Orderly(q \o Stopping)
<1>1. /\ Stopping \in Seq(Steps) /\ Len(Stopping) = 3
      /\ Stopping[1] = Does("stop") /\ Stopping[2] = Does("stopped")
      /\ Stopping[3] = Does("start")
  BY DEF Stopping, Steps
<1>2. q \o Stopping \in Seq(Steps) /\ Len(q \o Stopping) = Len(q) + Len(Stopping)
  BY <1>1, ConcatLen, Zenon
<1>3. \A i \in 1..Len(q) : (q \o Stopping)[i] = q[i]
  BY <1>1, ConcatLeft, Zenon
<1>4. \A i \in 1..(Len(q) + Len(Stopping)) :
        i > Len(q) => i - Len(q) \in 1..Len(Stopping) /\ (q \o Stopping)[i] = Stopping[i - Len(q)]
  BY <1>1, ConcatRight, Zenon
<1>5. Len(q) \in Nat
  OBVIOUS
<1>6. /\ (q \o Stopping)[Len(q) + 1].op = "stop" /\ (q \o Stopping)[Len(q) + 2].op = "stopped"
      /\ (q \o Stopping)[Len(q) + 3].op = "start"
  <2>1. 3 \in Nat /\ Len(Stopping) = 3
    BY <1>1
  <2>2. (q \o Stopping)[Len(q) + 1] = Stopping[1]
    <3>1. Len(q) + 1 \in 1..(Len(q) + Len(Stopping)) /\ Len(q) + 1 > Len(q)
      BY <1>5, <2>1
    <3>2. Len(q) + 1 - Len(q) = 1
      BY <1>5
    <3>3. (q \o Stopping)[Len(q) + 1] = Stopping[Len(q) + 1 - Len(q)]
      BY <1>4, <3>1
    <3> QED BY <3>2, <3>3, Zenon
  <2>3. (q \o Stopping)[Len(q) + 2] = Stopping[2]
    <3>1. Len(q) + 2 \in 1..(Len(q) + Len(Stopping)) /\ Len(q) + 2 > Len(q)
      BY <1>5, <2>1
    <3>2. Len(q) + 2 - Len(q) = 2
      BY <1>5
    <3>3. (q \o Stopping)[Len(q) + 2] = Stopping[Len(q) + 2 - Len(q)]
      BY <1>4, <3>1
    <3> QED BY <3>2, <3>3, Zenon
  <2>4. (q \o Stopping)[Len(q) + 3] = Stopping[3]
    <3>1. Len(q) + 3 \in 1..(Len(q) + Len(Stopping)) /\ Len(q) + 3 > Len(q)
      BY <1>5, <2>1
    <3>2. Len(q) + 3 - Len(q) = 3
      BY <1>5
    <3>3. (q \o Stopping)[Len(q) + 3] = Stopping[Len(q) + 3 - Len(q)]
      BY <1>4, <3>1
    <3> QED BY <3>2, <3>3, Zenon
  <2> QED BY <1>1, <2>2, <2>3, <2>4 DEF Does
<1>7. ASSUME NEW i \in 1..Len(q \o Stopping)
      PROVE  /\ (q \o Stopping)[i].op \notin {"restart", "deploy", "rollback"}
             /\ (q \o Stopping)[i].op = "start" /\ i > 1 => (q \o Stopping)[i - 1].op = "stopped"
             /\ (q \o Stopping)[i].op = "stopped" => i > 1 /\ (q \o Stopping)[i - 1].op = "stop"
  <2>1. CASE i <= Len(q)
    <3>1. (q \o Stopping)[i] = q[i] /\ (i > 1 => (q \o Stopping)[i - 1] = q[i - 1])
      BY <1>3, <1>5, <2>1
    <3> QED BY <1>5, <2>1, <3>1 DEF Orderly
  <2>2. CASE i = Len(q) + 1
    BY <1>6, <2>2
  <2>3. CASE i = Len(q) + 2
    <3>1. i - 1 = Len(q) + 1 /\ i > 1
      BY <1>5, <2>3
    <3> QED BY <1>6, <2>3, <3>1
  <2>4. CASE i = Len(q) + 3
    <3>1. i - 1 = Len(q) + 2
      BY <1>5, <2>4
    <3> QED BY <1>6, <2>4, <3>1
  <2> QED BY <1>1, <1>2, <1>5, <2>1, <2>2, <2>3, <2>4
<1> QED BY <1>2, <1>7 DEF Orderly

LEMMA CalmSteps ==
  /\ \A op \in CalmOps : Does(op) \in Calm
  /\ \A n \in Nat : Longer(n) \in Calm
  /\ \A a \in Aspects, new \in BOOLEAN : Records(a, new) \in Calm /\ Serves(a, new) \in Calm
BY DEF Calm

\* A step alone, and none.
LEMMA CalmOne == \A st \in Calm : <<st>> \in Seq(Calm)
OBVIOUS

LEMMA CalmTwo == \A st, uu \in Calm : <<st, uu>> \in Seq(Calm)
OBVIOUS

LEMMA CalmThree == \A st, uu, vv \in Calm : <<st, uu, vv>> \in Seq(Calm)
OBVIOUS

LEMMA CalmNone == <<>> \in Seq(Calm)
OBVIOUS

LEMMA CalmConcat == \A r, t \in Seq(Calm) : r \o t \in Seq(Calm)
OBVIOUS

LEMMA CalmAllUp == AllUp \in Seq(Calm)
<1>1. "allUp" \in CalmOps
  BY DEF CalmOps
<1>2. Does("allUp") \in Calm
  BY <1>1, CalmSteps, Zenon
<1> QED BY <1>2, CalmOne, Zenon DEF AllUp

LEMMA CalmChanges == \A c \in SUBSET Aspects : Changes(c) \in Seq(Calm)
<1> SUFFICES ASSUME NEW c \in SUBSET Aspects PROVE Changes(c) \in Seq(Calm)
  OBVIOUS
<1>1. "droplet" \in CalmOps /\ "command" \in CalmOps /\ "env" \in CalmOps /\ "sidecar" \in CalmOps
  BY DEF CalmOps
<1>2. When("droplet" \in c, <<Does("droplet")>>) \in Seq(Calm)
  BY <1>1, CalmSteps, CalmOne, CalmNone, Zenon DEF When
<1>3. When("command" \in c, <<Does("command")>>) \in Seq(Calm)
  BY <1>1, CalmSteps, CalmOne, CalmNone, Zenon DEF When
<1>4. When("env" \in c, <<Does("env")>>) \in Seq(Calm)
  BY <1>1, CalmSteps, CalmOne, CalmNone, Zenon DEF When
<1>5. When("sidecar" \in c, <<Does("sidecar")>>) \in Seq(Calm)
  BY <1>1, CalmSteps, CalmOne, CalmNone, Zenon DEF When
<1>6. When("droplet" \in c, <<Does("droplet")>>) \o When("command" \in c, <<Does("command")>>)
        \in Seq(Calm)
  BY <1>2, <1>3, CalmConcat, Zenon
<1>7. (When("droplet" \in c, <<Does("droplet")>>) \o When("command" \in c, <<Does("command")>>))
        \o When("env" \in c, <<Does("env")>>) \in Seq(Calm)
  BY <1>4, <1>6, CalmConcat, Zenon
<1> QED BY <1>5, <1>7, CalmConcat, Zenon DEF Changes

\* What the specs do to the instances between the checks is nothing.
LEMMA CalmChecks == \A c \in SUBSET Aspects, w \in BOOLEAN : Checked(c, w) \in Seq(Calm)
<1> SUFFICES ASSUME NEW c \in SUBSET Aspects, NEW w \in BOOLEAN
             PROVE  After(c, w) \in Seq(Calm)
  BY Zenon DEF Checked
<1>1. /\ "same" \in CalmOps /\ "kept" \in CalmOps /\ "isNew" \in CalmOps
      /\ "linked" \in CalmOps /\ "droplet" \in Aspects /\ "command" \in Aspects
      /\ 1 \in Nat /\ TRUE \in BOOLEAN /\ FALSE \in BOOLEAN
  BY DEF CalmOps, Aspects
<1>2. ("droplet" \in c) \in BOOLEAN
  OBVIOUS
<1>3. /\ Does("same") \in Calm /\ Does("kept") \in Calm /\ Does("isNew") \in Calm
      /\ Does("linked") \in Calm /\ Longer(1) \in Calm
  BY <1>1, CalmSteps, Zenon
<1>4. /\ Records("droplet", FALSE) \in Calm /\ Records("command", TRUE) \in Calm
      /\ Serves("droplet", FALSE) \in Calm
  BY <1>1, CalmSteps, Zenon
<1>5. Records("droplet", "droplet" \in c) \in Calm /\ Serves("droplet", "droplet" \in c) \in Calm
  BY <1>1, <1>2, CalmSteps, Zenon
<1>6. When(w, AllUp) \in Seq(Calm)
  BY CalmAllUp, CalmNone, Zenon DEF When
<1>7. CASE c = {}
  <2>1. NoRevision \in Seq(Calm)
    BY <1>3, <1>4, CalmThree, Zenon DEF NoRevision
  <2>2. NoRevision \o When(w, AllUp) \in Seq(Calm)
    BY <1>6, <2>1, CalmConcat, Zenon
  <2>3. <<Serves("droplet", FALSE)>> \in Seq(Calm)
    BY <1>4, CalmOne, Zenon
  <2>4. NoRevision \o When(w, AllUp) \o <<Serves("droplet", FALSE)>> \in Seq(Calm)
    BY <2>2, <2>3, CalmConcat, Zenon
  <2> QED BY <1>7, <2>4, Zenon DEF After
<1>8. CASE c # {}
  <2> DEFINE a == CHOOSE x \in c : TRUE
             p1 == <<Longer(1)>>
             p2 == When(c # {"command"}, <<Records("droplet", "droplet" \in c)>>)
             p3 == <<Does("isNew")>>
             p4 == When(c = {"command"}, <<Records("command", TRUE)>>)
             p5 == <<Does("linked")>>
             p6 == When(w, AllUp)
             p7 == <<Serves("droplet", "droplet" \in c)>>
             p8 == When(c # {"droplet"}, <<Serves(a, TRUE)>>)
  <2>1. NewRevision(c, w) = p1 \o p2 \o p3 \o p4 \o p5 \o p6 \o p7 \o p8
    BY Zenon DEF NewRevision
  <2>2. a \in Aspects
    BY <1>8, Zenon
  <2>3. Serves(a, TRUE) \in Calm
    <3> HIDE DEF a
    <3> QED BY <1>1, <2>2, CalmSteps, Zenon
  <2>4. p1 \in Seq(Calm) /\ p3 \in Seq(Calm) /\ p5 \in Seq(Calm) /\ p7 \in Seq(Calm)
    BY <1>3, <1>5, CalmOne, Zenon
  <2>5. p2 \in Seq(Calm)
    BY <1>5, CalmOne, CalmNone, Zenon DEF When
  <2>6. p4 \in Seq(Calm)
    BY <1>4, CalmOne, CalmNone, Zenon DEF When
  <2>7. p8 \in Seq(Calm)
    BY <2>3, CalmOne, CalmNone, Zenon DEF When
  <2>8. p6 \in Seq(Calm)
    BY <1>6, Zenon
  <2> HIDE DEF p1, p2, p3, p4, p5, p6, p7, p8
  <2>9. p1 \o p2 \o p3 \in Seq(Calm)
    BY <2>4, <2>5, CalmConcat, Zenon
  <2>10. p1 \o p2 \o p3 \o p4 \o p5 \in Seq(Calm)
    BY <2>4, <2>6, <2>9, CalmConcat, Zenon
  <2>11. p1 \o p2 \o p3 \o p4 \o p5 \o p6 \o p7 \o p8 \in Seq(Calm)
    BY <2>4, <2>7, <2>8, <2>10, CalmConcat, Zenon
  <2> QED BY <1>8, <2>1, <2>11, Zenon DEF After
<1> QED BY <1>7, <1>8

\* What follows the stop and the start of the specs that do both.
Afterwards(c) ==
  IF c = {"sidecar"} THEN <<Longer(1), Records("sidecar", TRUE)>> ELSE Checked(c, TRUE)

LEMMA CalmAfterwards == \A c \in SUBSET Aspects : Afterwards(c) \in Seq(Calm)
<1>1. "sidecar" \in Aspects /\ 1 \in Nat /\ TRUE \in BOOLEAN
  BY DEF Aspects
<1>2. Longer(1) \in Calm /\ Records("sidecar", TRUE) \in Calm
  BY <1>1, CalmSteps, Zenon
<1>3. <<Longer(1), Records("sidecar", TRUE)>> \in Seq(Calm)
  BY <1>2, CalmTwo, Zenon
<1> QED BY <1>3, CalmChecks, Zenon DEF Afterwards

\* BeforeEach, step by step.
LEMMA PreludeSteps ==
  /\ Prelude \in Seq(Steps) /\ Len(Prelude) = 5
  /\ Prelude[1] = Does("start") /\ Prelude[2] = Does("allUp")
  /\ Prelude[3] = Serves("droplet", FALSE)
  /\ Prelude[4] = Does("noteRevisions") /\ Prelude[5] = Does("noteProcess")
<1>1. "allUp" \in CalmOps /\ "droplet" \in Aspects /\ FALSE \in BOOLEAN
  BY DEF CalmOps, Aspects
<1>2. Does("allUp") \in Calm /\ Serves("droplet", FALSE) \in Calm
  BY <1>1, CalmSteps, Zenon
<1>3. /\ Does("start") \in Steps /\ Does("allUp") \in Steps
      /\ Serves("droplet", FALSE) \in Steps
      /\ Does("noteRevisions") \in Steps /\ Does("noteProcess") \in Steps
  BY <1>2 DEF Steps
<1>4. <<Does("start")>> \in Seq(Steps) /\ AllUp \in Seq(Steps)
  BY <1>3 DEF AllUp
<1>5. <<Serves("droplet", FALSE), Does("noteRevisions"), Does("noteProcess")>> \in Seq(Steps)
  <2>1. \A st, uu, vv \in Steps : <<st, uu, vv>> \in Seq(Steps)
    OBVIOUS
  <2> QED BY <1>3, <2>1, Zenon
<1>6. Prelude \in Seq(Steps)
  BY <1>4, <1>5, ConcatLen, Zenon DEF Prelude
<1>7. /\ Len(Prelude) = 5
      /\ Prelude[1] = Does("start") /\ Prelude[2] = Does("allUp")
      /\ Prelude[3] = Serves("droplet", FALSE)
      /\ Prelude[4] = Does("noteRevisions") /\ Prelude[5] = Does("noteProcess")
  <2> DEFINE v1 == Does("start")
             v2 == Does("allUp")
             v3 == Serves("droplet", FALSE)
             v4 == Does("noteRevisions")
             v5 == Does("noteProcess")
  <2>1. Prelude = <<v1>> \o <<v2>> \o <<v3, v4, v5>>
    BY Zenon DEF Prelude, AllUp
  <2>2. /\ Len(Prelude) = 5 /\ Prelude[1] = v1 /\ Prelude[2] = v2 /\ Prelude[3] = v3
        /\ Prelude[4] = v4 /\ Prelude[5] = v5
    <3> HIDE DEF v1, v2, v3, v4, v5
    <3> QED BY <2>1
  <2> QED BY <2>2, Zenon
<1> QED BY <1>6, <1>7

LEMMA OrderlyPrelude == Prelude \in Seq(Steps) /\ Orderly(Prelude) /\ Len(Prelude) > 0
<1>1. ASSUME NEW i \in 1..5
      PROVE  /\ Prelude[i].op \notin {"restart", "deploy", "rollback", "stopped"}
             /\ Prelude[i].op = "start" => i = 1
  BY PreludeSteps DEF Does, Serves
<1>2. Orderly(Prelude)
  BY <1>1, PreludeSteps DEF Orderly
<1> QED BY <1>2, PreludeSteps

LEMMA OrderlyScript ==
  ASSUME NEW s, s.how = "stopStart", s.change \in SUBSET Aspects
  PROVE  Script(s) \in Seq(Steps) /\ Orderly(Script(s)) /\ Len(Script(s)) > 0
<1> DEFINE c == s.change
           front == Prelude \o Changes(c)
           back == Afterwards(c)
<1>1. Script(s) = front \o (Stopping \o back)
  BY DEF Script, StopStartScript, StopAndStart, Afterwards
<1>2. Changes(c) \in Seq(Calm) /\ back \in Seq(Calm)
  BY CalmChanges, CalmAfterwards, Zenon
<1>3. front \in Seq(Steps) /\ Orderly(front) /\ Len(front) = Len(Prelude) + Len(Changes(c))
  BY <1>2, OrderlyPrelude, OrderlyCalm, Zenon
<1>4. Len(front) > 0
  <2>1. Len(Changes(c)) \in Nat /\ Len(Prelude) \in Nat
    BY <1>2, OrderlyPrelude
  <2> QED BY <1>3, <2>1, OrderlyPrelude
<1>5. /\ Stopping \in Seq(Steps) /\ back \in Seq(Steps)
  <2>1. Does("stop") \in Steps /\ Does("stopped") \in Steps /\ Does("start") \in Steps
    BY DEF Steps
  <2>2. Stopping \in Seq(Steps)
    BY <2>1 DEF Stopping
  <2>3. Seq(Calm) \subseteq Seq(Steps)
    BY DEF Steps
  <2> QED BY <1>2, <2>2, <2>3, Zenon
<1> HIDE DEF front, back
<1>6. /\ front \o Stopping \in Seq(Steps) /\ Orderly(front \o Stopping)
  BY <1>3, OrderlyStopping, Zenon
<1>7. /\ (front \o Stopping) \o back \in Seq(Steps) /\ Orderly((front \o Stopping) \o back)
      /\ Len((front \o Stopping) \o back) = Len(front \o Stopping) + Len(back)
  BY <1>2, <1>6, OrderlyCalm, Zenon
<1>8. Script(s) = (front \o Stopping) \o back
  <2>1. (front \o Stopping) \o back = front \o (Stopping \o back)
    BY <1>3, <1>5, ConcatAssociative
  <2> QED BY <1>1, <2>1
<1>9. Len((front \o Stopping) \o back) > 0
  <2>1. Len(front \o Stopping) = Len(front) + Len(Stopping)
    BY <1>3, <1>5, ConcatLen, Zenon
  <2>2. Len(front) \in Nat /\ Len(Stopping) \in Nat /\ Len(back) \in Nat
    BY <1>3, <1>5
  <2> QED BY <1>4, <1>7, <2>1, <2>2
<1> QED BY <1>7, <1>8, <1>9, Zenon

-----------------------------------------------------------------------------
(* The scripts of every kind: what BeforeEach and the changes do, then the    *)
(* restart and the checks.                                                    *)

Lead(c) == Prelude \o Changes(c)

Returning(c) ==
  <<Serves("droplet", "droplet" \in c), Does("rollback"), Does("deployed"), Longer(2),
    Records("droplet", FALSE), Does("isNew"), Does("originalEnv"),
    Records("command", FALSE), Does("linked"),
    Serves("droplet", FALSE), Serves("env", FALSE)>>

StartedChecks(c) ==
  When("droplet" \in c, <<Records("droplet", FALSE)>>) \o <<Does("kept")>>
    \o When("command" \in c, <<Does("commandKept")>>) \o <<Serves("droplet", FALSE)>>

\* What a script restarts the app with, and what it does and looks at then.
Restarting(s) ==
  CASE s.how = "stopStart" -> Stopping
    [] s.how = "restart" -> <<Does("restart")>>
    [] s.how = "start" -> <<Does("start"), Does("same")>>
    [] s.how = "deploy" -> Zdt
    [] s.how = "rollback" -> Zdt

Looking(s) ==
  CASE s.how = "stopStart" -> Afterwards(s.change)
    [] s.how = "restart" -> Checked(s.change, TRUE)
    [] s.how = "start" -> StartedChecks(s.change)
    [] s.how = "deploy" -> Checked(s.change, s.change = {"command"})
    [] s.how = "rollback" -> Returning(s.change)

\* Where the app may be started: at first, by the restart, by the rollback.
Launching == {"start", "restart", "deploy", "rollback"}
Second(s) == Len(Lead(s.change)) + 1
Third(s) == Len(Lead(s.change)) + IF s.how = "rollback" THEN 4 ELSE 3

\* q is f, then g, then h.
Parts(q, f, g, h) ==
  /\ Len(q) = Len(f) + Len(g) + Len(h)
  /\ \A i \in 1..Len(f) : q[i] = f[i]
  /\ \A i \in 1..Len(g) : q[Len(f) + i] = g[i]
  /\ \A i \in 1..Len(h) : q[Len(f) + Len(g) + i] = h[i]

LEMMA ThreeParts ==
  \A S : \A f, g, h \in Seq(S) :
    f \o (g \o h) \in Seq(S) /\ Parts(f \o (g \o h), f, g, h)
<1> SUFFICES ASSUME NEW S, NEW f \in Seq(S), NEW g \in Seq(S), NEW h \in Seq(S)
             PROVE  f \o (g \o h) \in Seq(S) /\ Parts(f \o (g \o h), f, g, h)
  OBVIOUS
<1> DEFINE q == f \o (g \o h)
<1>1. g \o h \in Seq(S) /\ Len(g \o h) = Len(g) + Len(h)
  BY ConcatLen, Zenon
<1>2. q \in Seq(S) /\ Len(q) = Len(f) + Len(g \o h)
  BY <1>1, ConcatLen, Zenon
<1>3. Len(f) \in Nat /\ Len(g) \in Nat /\ Len(h) \in Nat
  OBVIOUS
<1>4. \A i \in 1..Len(f) : q[i] = f[i]
  BY <1>1, ConcatLeft, Zenon
<1>5. \A i \in 1..Len(g) : (g \o h)[i] = g[i]
  BY ConcatLeft, Zenon
<1>6. \A i \in 1..(Len(g) + Len(h)) :
        i > Len(g) => i - Len(g) \in 1..Len(h) /\ (g \o h)[i] = h[i - Len(g)]
  BY ConcatRight, Zenon
<1>7. \A i \in 1..(Len(f) + Len(g \o h)) :
        i > Len(f) => i - Len(f) \in 1..Len(g \o h) /\ q[i] = (g \o h)[i - Len(f)]
  BY <1>1, ConcatRight, Zenon
<1>8. ASSUME NEW i \in 1..(Len(g) + Len(h)) PROVE q[Len(f) + i] = (g \o h)[i]
  <2>1. /\ Len(f) + i \in 1..(Len(f) + Len(g \o h)) /\ Len(f) + i > Len(f)
        /\ (Len(f) + i) - Len(f) = i
    BY <1>1, <1>3
  <2> QED BY <1>7, <2>1, Zenon
<1>9. ASSUME NEW i \in 1..Len(g) PROVE q[Len(f) + i] = g[i]
  <2>1. i \in 1..(Len(g) + Len(h))
    BY <1>3
  <2> QED BY <1>5, <1>8, <2>1, Zenon
<1>10. ASSUME NEW i \in 1..Len(h) PROVE q[Len(f) + Len(g) + i] = h[i]
  <2>1. /\ Len(g) + i \in 1..(Len(g) + Len(h)) /\ Len(g) + i > Len(g)
        /\ (Len(g) + i) - Len(g) = i /\ Len(f) + (Len(g) + i) = Len(f) + Len(g) + i
    BY <1>3
  <2>2. q[Len(f) + (Len(g) + i)] = (g \o h)[Len(g) + i]
    BY <1>8, <2>1, Zenon
  <2>3. (g \o h)[Len(g) + i] = h[i]
    BY <1>6, <2>1, Zenon
  <2> QED BY <2>1, <2>2, <2>3, Zenon
<1>11. Len(q) = Len(f) + Len(g) + Len(h)
  BY <1>1, <1>2, <1>3
<1>12. Parts(q, f, g, h)
  <2> HIDE DEF q
  <2> QED BY <1>4, <1>9, <1>10, <1>11, Zenon DEF Parts
<1> QED BY <1>2, <1>12, Zenon

LEMMA LeadSteps ==
  ASSUME NEW c \in SUBSET Aspects
  PROVE  /\ Lead(c) \in Seq(Steps)
         /\ Len(Lead(c)) = 5 + Len(Changes(c)) /\ Len(Changes(c)) \in Nat
         /\ \A i \in 1..5 : Lead(c)[i] = Prelude[i]
         /\ \A i \in 1..Len(Changes(c)) : Lead(c)[5 + i] = Changes(c)[i]
         /\ \A i \in 6..Len(Lead(c)) : Lead(c)[i] \in Calm
<1>1. Changes(c) \in Seq(Calm)
  BY CalmChanges, Zenon
<1>2. Changes(c) \in Seq(Steps) /\ Prelude \in Seq(Steps) /\ Len(Prelude) = 5
  BY <1>1, PreludeSteps DEF Steps
<1> DEFINE p == Prelude
           d == Changes(c)
           f == Lead(c)
<1>3. f = p \o d
  BY Zenon DEF Lead
<1> HIDE DEF p, d, f
<1>4. /\ f \in Seq(Steps) /\ Len(f) = Len(p) + Len(d)
      /\ \A i \in 1..Len(p) : f[i] = p[i]
      /\ \A i \in 1..(Len(p) + Len(d)) :
           i > Len(p) => i - Len(p) \in 1..Len(d) /\ f[i] = d[i - Len(p)]
  BY <1>2, <1>3, ConcatLen, ConcatLeft, ConcatRight, Zenon DEF p, d
<1>5. Len(p) = 5 /\ Len(d) \in Nat /\ \A i \in 1..Len(d) : d[i] \in Calm
  BY <1>1, <1>2 DEF p, d
<1>6. ASSUME NEW i \in 1..Len(d) PROVE f[5 + i] = d[i]
  <2>1. 5 + i \in 1..(Len(p) + Len(d)) /\ 5 + i > Len(p) /\ 5 + i - Len(p) = i
    BY <1>5
  <2>2. f[5 + i] = d[5 + i - Len(p)]
    BY <1>4, <2>1
  <2> QED BY <2>1, <2>2
<1>7. ASSUME NEW i \in 6..Len(f) PROVE f[i] \in Calm
  <2>1. i \in 1..(Len(p) + Len(d)) /\ i > Len(p)
    BY <1>4, <1>5
  <2> QED BY <1>4, <1>5, <2>1, Zenon
<1>8. \A i \in 1..5 : f[i] = p[i]
  BY <1>4, <1>5
<1>9. Len(f) = 5 + Len(d)
  BY <1>4, <1>5
<1> QED BY <1>4, <1>5, <1>6, <1>7, <1>8, <1>9, Zenon DEF p, d, f

LEMMA StartedCalm == \A c \in SUBSET Aspects : StartedChecks(c) \in Seq(Calm)
<1> SUFFICES ASSUME NEW c \in SUBSET Aspects PROVE StartedChecks(c) \in Seq(Calm)
  OBVIOUS
<1>1. /\ "kept" \in CalmOps /\ "commandKept" \in CalmOps /\ "droplet" \in Aspects
      /\ FALSE \in BOOLEAN
  BY DEF CalmOps, Aspects
<1>2. /\ Does("kept") \in Calm /\ Does("commandKept") \in Calm
      /\ Records("droplet", FALSE) \in Calm /\ Serves("droplet", FALSE) \in Calm
  BY <1>1, CalmSteps, Zenon
<1>3. When("droplet" \in c, <<Records("droplet", FALSE)>>) \in Seq(Calm)
  BY <1>2, CalmOne, CalmNone, Zenon DEF When
<1>4. When("command" \in c, <<Does("commandKept")>>) \in Seq(Calm)
  BY <1>2, CalmOne, CalmNone, Zenon DEF When
<1>5. <<Does("kept")>> \in Seq(Calm) /\ <<Serves("droplet", FALSE)>> \in Seq(Calm)
  BY <1>2, CalmOne, Zenon
<1>6. When("droplet" \in c, <<Records("droplet", FALSE)>>) \o <<Does("kept")>> \in Seq(Calm)
  BY <1>3, <1>5, CalmConcat, Zenon
<1>7. When("droplet" \in c, <<Records("droplet", FALSE)>>) \o <<Does("kept")>>
        \o When("command" \in c, <<Does("commandKept")>>) \in Seq(Calm)
  BY <1>4, <1>6, CalmConcat, Zenon
<1> QED BY <1>5, <1>7, CalmConcat, Zenon DEF StartedChecks

\* The checks of a rollback spec, step by step.
LEMMA ReturningSteps ==
  ASSUME NEW c \in SUBSET Aspects
  PROVE  /\ Returning(c) \in Seq(Steps) /\ Len(Returning(c)) = 11
         /\ Returning(c)[2] = Does("rollback") /\ Returning(c)[4] = Longer(2)
         /\ Returning(c)[5] = Records("droplet", FALSE)
         /\ Returning(c)[8] = Records("command", FALSE) /\ Returning(c)[9] = Does("linked")
         /\ Returning(c)[10] = Serves("droplet", FALSE)
         /\ Returning(c)[11] = Serves("env", FALSE)
         /\ \A i \in 1..11 : i # 2 => Returning(c)[i] \in Calm
<1> DEFINE v1 == Serves("droplet", "droplet" \in c)
           v2 == Does("rollback")
           v3 == Does("deployed")
           v4 == Longer(2)
           v5 == Records("droplet", FALSE)
           v6 == Does("isNew")
           v7 == Does("originalEnv")
           v8 == Records("command", FALSE)
           v9 == Does("linked")
           v10 == Serves("droplet", FALSE)
           v11 == Serves("env", FALSE)
           q == Returning(c)
<1>1. q = <<v1, v2, v3, v4, v5, v6, v7, v8, v9, v10, v11>>
  BY Zenon DEF Returning
<1>2. /\ "deployed" \in CalmOps /\ "isNew" \in CalmOps /\ "originalEnv" \in CalmOps
      /\ "linked" \in CalmOps /\ "droplet" \in Aspects /\ "command" \in Aspects
      /\ "env" \in Aspects /\ 2 \in Nat /\ FALSE \in BOOLEAN
  BY DEF CalmOps, Aspects
<1>3. ("droplet" \in c) \in BOOLEAN
  OBVIOUS
<1>4. /\ v1 \in Calm /\ v3 \in Calm /\ v4 \in Calm /\ v5 \in Calm /\ v6 \in Calm
      /\ v7 \in Calm /\ v8 \in Calm /\ v9 \in Calm /\ v10 \in Calm /\ v11 \in Calm
  BY <1>2, <1>3, CalmSteps, Zenon
<1>5. v2 \in Steps
  BY DEF Steps
<1>6. Calm \subseteq Steps
  BY DEF Steps
<1> HIDE DEF v1, v2, v3, v4, v5, v6, v7, v8, v9, v10, v11, q
<1>7. q \in Seq(Steps) /\ Len(q) = 11
  BY <1>1, <1>4, <1>5, <1>6
<1>8. /\ q[2] = v2 /\ q[4] = v4 /\ q[5] = v5 /\ q[8] = v8 /\ q[9] = v9 /\ q[10] = v10
      /\ q[11] = v11
  BY <1>1
<1>9. \A i \in 1..11 : i # 2 => q[i] \in Calm
  BY <1>1, <1>4
<1> QED BY <1>7, <1>8, <1>9, Zenon DEF v1, v2, v3, v4, v5, v6, v7, v8, v9, v10, v11, q

LEMMA RestartingSteps ==
  ASSUME NEW s, s.how \in Hows
  PROVE  /\ Restarting(s) \in Seq(Steps) /\ Len(Restarting(s)) \in 1..3
         /\ s.how = "stopStart" =>
              /\ Len(Restarting(s)) = 3 /\ Restarting(s)[1] = Does("stop")
              /\ Restarting(s)[2] = Does("stopped") /\ Restarting(s)[3] = Does("start")
         /\ s.how = "restart" => Len(Restarting(s)) = 1 /\ Restarting(s)[1] = Does("restart")
         /\ s.how = "start" =>
              /\ Len(Restarting(s)) = 2 /\ Restarting(s)[1] = Does("start")
              /\ Restarting(s)[2] = Does("same")
         /\ s.how \in {"deploy", "rollback"} =>
              /\ Len(Restarting(s)) = 2 /\ Restarting(s)[1] = Does("deploy")
              /\ Restarting(s)[2] = Does("deployed")
<1>1. "same" \in CalmOps /\ "deployed" \in CalmOps
  BY DEF CalmOps
<1>2. Does("same") \in Calm /\ Does("deployed") \in Calm
  BY <1>1, CalmSteps, Zenon
<1>3. /\ Does("same") \in Steps /\ Does("deployed") \in Steps /\ Does("stop") \in Steps
      /\ Does("stopped") \in Steps /\ Does("start") \in Steps /\ Does("restart") \in Steps
      /\ Does("deploy") \in Steps
  BY <1>2 DEF Steps
<1>4. CASE s.how = "stopStart"
  <2>1. Restarting(s) = <<Does("stop"), Does("stopped"), Does("start")>>
    BY <1>4 DEF Restarting, Stopping
  <2> QED BY <1>3, <1>4, <2>1
<1>5. CASE s.how = "restart"
  <2>1. Restarting(s) = <<Does("restart")>>
    BY <1>5 DEF Restarting
  <2> QED BY <1>3, <1>5, <2>1
<1>6. CASE s.how = "start"
  <2>1. Restarting(s) = <<Does("start"), Does("same")>>
    BY <1>6 DEF Restarting
  <2> QED BY <1>3, <1>6, <2>1
<1>7. CASE s.how \in {"deploy", "rollback"}
  <2>1. Restarting(s) = <<Does("deploy"), Does("deployed")>>
    BY <1>7 DEF Restarting, Zdt
  <2> QED BY <1>3, <1>7, <2>1
<1> QED BY <1>4, <1>5, <1>6, <1>7 DEF Hows

LEMMA RestartingOps ==
  ASSUME NEW s, s.how \in Hows, NEW k \in 1..Len(Restarting(s))
  PROVE  /\ Restarting(s)[k].op \notin {"noteRevisions", "noteProcess"}
         /\ Restarting(s)[k].op = "stop" => s.how = "stopStart" /\ k = 1
         /\ Restarting(s)[k].op = "stopped" => s.how = "stopStart" /\ k = 2
         /\ Restarting(s)[k].op \in Launching => k = 1 \/ (s.how = "stopStart" /\ k = 3)
<1>1. CASE s.how = "stopStart"
  <2>1. /\ Len(Restarting(s)) = 3 /\ Restarting(s)[1] = Does("stop")
        /\ Restarting(s)[2] = Does("stopped") /\ Restarting(s)[3] = Does("start")
    BY <1>1, RestartingSteps
  <2>2. k \in 1..3
    BY <2>1
  <2> QED BY <1>1, <2>1, <2>2 DEF Does, Launching
<1>2. CASE s.how = "restart"
  <2>1. Len(Restarting(s)) = 1 /\ Restarting(s)[1] = Does("restart")
    BY <1>2, RestartingSteps
  <2>2. k = 1
    BY <2>1
  <2> QED BY <2>1, <2>2 DEF Does
<1>3. CASE s.how = "start"
  <2>1. /\ Len(Restarting(s)) = 2 /\ Restarting(s)[1] = Does("start")
        /\ Restarting(s)[2] = Does("same")
    BY <1>3, RestartingSteps
  <2>2. k \in 1..2
    BY <2>1
  <2> QED BY <2>1, <2>2 DEF Does, Launching
<1>4. CASE s.how \in {"deploy", "rollback"}
  <2>1. /\ Len(Restarting(s)) = 2 /\ Restarting(s)[1] = Does("deploy")
        /\ Restarting(s)[2] = Does("deployed")
    BY <1>4, RestartingSteps
  <2>2. k \in 1..2
    BY <2>1
  <2> QED BY <2>1, <2>2 DEF Does, Launching
<1> QED BY <1>1, <1>2, <1>3, <1>4 DEF Hows

LEMMA LookingSteps ==
  ASSUME NEW s, s.how \in Hows, s.change \in SUBSET Aspects
  PROVE  /\ Looking(s) \in Seq(Steps)
         /\ s.how # "rollback" => Looking(s) \in Seq(Calm)
<1>1. Seq(Calm) \subseteq Seq(Steps)
  BY DEF Steps
<1>2. CASE s.how = "stopStart"
  <2>1. Looking(s) = Afterwards(s.change)
    BY <1>2 DEF Looking
  <2> QED BY <1>1, <1>2, <2>1, CalmAfterwards, Zenon
<1>3. CASE s.how = "restart"
  <2>1. Looking(s) = Checked(s.change, TRUE)
    BY <1>3 DEF Looking
  <2>2. TRUE \in BOOLEAN
    OBVIOUS
  <2> QED BY <1>1, <1>3, <2>1, <2>2, CalmChecks, Zenon
<1>4. CASE s.how = "start"
  <2>1. Looking(s) = StartedChecks(s.change)
    BY <1>4 DEF Looking
  <2> QED BY <1>1, <1>4, <2>1, StartedCalm, Zenon
<1>5. CASE s.how = "deploy"
  <2>1. Looking(s) = Checked(s.change, s.change = {"command"})
    BY <1>5 DEF Looking
  <2>2. (s.change = {"command"}) \in BOOLEAN
    OBVIOUS
  <2> QED BY <1>1, <1>5, <2>1, <2>2, CalmChecks, Zenon
<1>6. CASE s.how = "rollback"
  <2>1. Looking(s) = Returning(s.change)
    BY <1>6 DEF Looking
  <2> QED BY <1>6, <2>1, ReturningSteps, Zenon
<1> QED BY <1>2, <1>3, <1>4, <1>5, <1>6 DEF Hows

\* A script is its three parts, and each step is one of theirs.
LEMMA ScriptParts ==
  ASSUME NEW s, s.how \in Hows, s.change \in SUBSET Aspects
  PROVE  LET f == Len(Lead(s.change))
             r == Len(Restarting(s))
             l == Len(Looking(s)) IN
         /\ Script(s) \in Seq(Steps) /\ Len(Script(s)) = f + r + l
         /\ f \in Nat /\ f >= 5 /\ r \in 1..3 /\ l \in Nat
         /\ \A i \in 1..f : Script(s)[i] = Lead(s.change)[i]
         /\ \A i \in 1..r : Script(s)[f + i] = Restarting(s)[i]
         /\ \A i \in 1..l : Script(s)[f + r + i] = Looking(s)[i]
<1> DEFINE c == s.change
           f == Lead(c)
           r == Restarting(s)
           l == Looking(s)
           q == Script(s)
<1>1. f \in Seq(Steps) /\ r \in Seq(Steps) /\ l \in Seq(Steps)
  BY LeadSteps, RestartingSteps, LookingSteps, Zenon
<1>2. q = f \o (r \o l)
  <2>1. CASE s.how = "stopStart"
    <3>1. r = Stopping /\ l = Afterwards(c)
      BY <2>1 DEF Restarting, Looking
    <3>2. q = f \o (Stopping \o Afterwards(c))
      BY <2>1 DEF Script, StopStartScript, StopAndStart, Afterwards, Lead
    <3> QED BY <3>1, <3>2, Zenon
  <2>2. CASE s.how = "restart"
    <3>1. r = <<Does("restart")>> /\ l = Checked(c, TRUE)
      BY <2>2 DEF Restarting, Looking
    <3>2. q = f \o (<<Does("restart")>> \o Checked(c, TRUE))
      BY <2>2 DEF Script, RestartScript, Lead
    <3> QED BY <3>1, <3>2, Zenon
  <2>3. CASE s.how = "start"
    <3> DEFINE w1 == When("droplet" \in c, <<Records("droplet", FALSE)>>)
               w2 == <<Does("kept")>>
               w3 == When("command" \in c, <<Does("commandKept")>>)
               w4 == <<Serves("droplet", FALSE)>>
    <3>1. r = <<Does("start"), Does("same")>> /\ l = StartedChecks(c)
      BY <2>3 DEF Restarting, Looking
    <3>2. l = w1 \o w2 \o w3 \o w4
      BY <3>1, Zenon DEF StartedChecks
    <3>3. q = f \o (r \o w1 \o w2 \o w3 \o w4)
      <4>1. q = f \o StartedScript(c)
        BY <2>3 DEF Script, Lead
      <4> QED BY <3>1, <4>1, Zenon DEF StartedScript
    <3>4. w1 \in Seq(Calm) /\ w2 \in Seq(Calm) /\ w3 \in Seq(Calm) /\ w4 \in Seq(Calm)
      <4>1. /\ "kept" \in CalmOps /\ "commandKept" \in CalmOps /\ "droplet" \in Aspects
            /\ FALSE \in BOOLEAN
        BY DEF CalmOps, Aspects
      <4>2. /\ Does("kept") \in Calm /\ Does("commandKept") \in Calm
            /\ Records("droplet", FALSE) \in Calm /\ Serves("droplet", FALSE) \in Calm
        BY <4>1, CalmSteps, Zenon
      <4> QED BY <4>2, CalmOne, CalmNone, Zenon DEF When
    <3> HIDE DEF w1, w2, w3, w4, f, r, l, q
    <3>5. Seq(Calm) \subseteq Seq(Steps)
      BY DEF Steps
    <3>6. w1 \in Seq(Steps) /\ w2 \in Seq(Steps) /\ w3 \in Seq(Steps) /\ w4 \in Seq(Steps)
      BY <3>4, <3>5, Zenon
    <3> DEFINE w12 == w1 \o w2
               w123 == w12 \o w3
    <3>7. (r \o w1) \o w2 = r \o w12
      <4>1. r \in Seq(Steps) /\ w1 \in Seq(Steps) /\ w2 \in Seq(Steps)
        BY <1>1, <3>6
      <4> QED BY <4>1, ConcatAssociative
    <3>8. w12 \in Seq(Steps)
      BY <3>6, ConcatLen, Zenon
    <3>9. (r \o w12) \o w3 = r \o w123
      <4> HIDE DEF w12
      <4>1. r \in Seq(Steps) /\ w12 \in Seq(Steps) /\ w3 \in Seq(Steps)
        BY <1>1, <3>6, <3>8
      <4> QED BY <4>1, ConcatAssociative
    <3>10. w123 \in Seq(Steps)
      BY <3>6, <3>8, ConcatLen, Zenon
    <3>11. (r \o w123) \o w4 = r \o (w123 \o w4)
      <4> HIDE DEF w123
      <4>1. r \in Seq(Steps) /\ w123 \in Seq(Steps) /\ w4 \in Seq(Steps)
        BY <1>1, <3>6, <3>10
      <4> QED BY <4>1, ConcatAssociative
    <3>12. l = w123 \o w4
      BY <3>2, Zenon
    <3>13. q = f \o ((((r \o w1) \o w2) \o w3) \o w4)
      BY <3>3, Zenon
    <3>14. q = f \o ((r \o w123) \o w4)
      <4> HIDE DEF w12, w123
      <4> QED BY <3>7, <3>9, <3>13, Zenon
    <3> HIDE DEF w12, w123
    <3> QED BY <3>11, <3>12, <3>14, Zenon
  <2>4. CASE s.how = "deploy"
    <3>1. r = Zdt /\ l = Checked(c, c = {"command"})
      BY <2>4 DEF Restarting, Looking
    <3>2. q = f \o (Zdt \o Checked(c, c = {"command"}))
      BY <2>4 DEF Script, DeployScript, Lead
    <3> QED BY <3>1, <3>2, Zenon
  <2>5. CASE s.how = "rollback"
    <3>1. r = Zdt /\ l = Returning(c)
      BY <2>5 DEF Restarting, Looking
    <3>2. q = f \o RollbackScript(c)
      BY <2>5 DEF Script, Lead
    <3>3. RollbackScript(c) = Zdt \o Returning(c)
      BY Zenon DEF RollbackScript, Returning
    <3> QED BY <3>1, <3>2, <3>3, Zenon
  <2> QED BY <2>1, <2>2, <2>3, <2>4, <2>5 DEF Hows
<1>3. Len(f) = 5 + Len(Changes(c)) /\ Len(Changes(c)) \in Nat
  BY LeadSteps
<1>4. Len(r) \in 1..3
  BY RestartingSteps
<1> HIDE DEF f, r, l, q
<1>5. q \in Seq(Steps) /\ Parts(q, f, r, l)
  BY <1>1, <1>2, ThreeParts, Zenon
<1>6. Len(f) \in Nat /\ Len(f) >= 5 /\ Len(l) \in Nat
  BY <1>1, <1>3
<1> QED BY <1>4, <1>5, <1>6, Zenon DEF c, f, r, l, q, Parts

\* Where a script may start the app, and where it notes the process.
LEMMA ScriptSteps ==
  ASSUME NEW s, s.how \in Hows, s.change \in SUBSET Aspects
  PROVE  /\ Script(s) \in Seq(Steps) /\ Len(Script(s)) \in Nat /\ Len(Script(s)) > 0
         /\ Len(Lead(s.change)) \in Nat /\ Len(Lead(s.change)) >= 5
         /\ \A i \in 1..Len(Script(s)) :
              /\ Script(s)[i].op = "noteRevisions" => i = 4
              /\ Script(s)[i].op = "noteProcess" => i = 5
              /\ Script(s)[i].op = "stop" => s.how = "stopStart" /\ i = Second(s)
              /\ Script(s)[i].op = "stopped" => s.how = "stopStart" /\ i = Second(s) + 1
              /\ Script(s)[i].op \in Launching => i \in {1, Second(s), Third(s)}
<1> DEFINE q == Script(s)
           f == Len(Lead(s.change))
           r == Len(Restarting(s))
           l == Len(Looking(s))
<1>1. /\ q \in Seq(Steps) /\ Len(q) = f + r + l
      /\ f \in Nat /\ f >= 5 /\ r \in 1..3 /\ l \in Nat
      /\ \A i \in 1..f : q[i] = Lead(s.change)[i]
      /\ \A i \in 1..r : q[f + i] = Restarting(s)[i]
      /\ \A i \in 1..l : q[f + r + i] = Looking(s)[i]
  BY ScriptParts, Zenon
<1> HIDE DEF q, f, r, l
<1>2. ASSUME NEW i \in 1..Len(q)
      PROVE  /\ q[i].op = "noteRevisions" => i = 4
             /\ q[i].op = "noteProcess" => i = 5
             /\ q[i].op = "stop" => s.how = "stopStart" /\ i = Second(s)
             /\ q[i].op = "stopped" => s.how = "stopStart" /\ i = Second(s) + 1
             /\ q[i].op \in Launching => i \in {1, Second(s), Third(s)}
  <2>1. CASE i \in 1..f
    <3>1. q[i] = Lead(s.change)[i]
      BY <1>1, <2>1
    <3>2. CASE i \in 1..5
      <4>1. q[i] = Prelude[i]
        BY <3>1, <3>2, LeadSteps
      <4>2. /\ Prelude[i].op \notin {"stop", "stopped"}
            /\ i # 1 => Prelude[i].op \notin Launching
            /\ i # 4 => Prelude[i].op # "noteRevisions"
            /\ i # 5 => Prelude[i].op # "noteProcess"
        BY <3>2, PreludeSteps DEF Does, Serves, Launching
      <4> QED BY <3>2, <4>1, <4>2
    <3>3. CASE i \in 6..f
      <4>1. q[i] \in Calm
        BY <3>1, <3>3, LeadSteps DEF f
      <4> QED BY <4>1, CalmOp DEF Launching
    <3> QED BY <1>1, <2>1, <3>2, <3>3
  <2>2. CASE i - f \in 1..r
    <3>1. i = f + (i - f)
      BY <1>1
    <3>2. q[i] = Restarting(s)[i - f]
      BY <1>1, <2>2, <3>1
    <3>3. /\ Restarting(s)[i - f].op \notin {"noteRevisions", "noteProcess"}
          /\ Restarting(s)[i - f].op = "stop" => s.how = "stopStart" /\ i - f = 1
          /\ Restarting(s)[i - f].op = "stopped" => s.how = "stopStart" /\ i - f = 2
          /\ Restarting(s)[i - f].op \in Launching =>
               i - f = 1 \/ (s.how = "stopStart" /\ i - f = 3)
      BY <2>2, RestartingOps DEF r
    <3>4. Second(s) = f + 1 /\ (s.how # "rollback" => Third(s) = f + 3)
      BY DEF Second, Third, f
    <3> QED BY <1>1, <3>1, <3>2, <3>3, <3>4
  <2>3. CASE i - f - r \in 1..l
    <3>1. i = f + r + (i - f - r)
      BY <1>1
    <3>2. q[i] = Looking(s)[i - f - r]
      BY <1>1, <2>3, <3>1
    <3>3. CASE s.how # "rollback"
      <4>1. Looking(s)[i - f - r] \in Calm
        BY <2>3, <3>3, LookingSteps DEF l
      <4> QED BY <3>2, <4>1, CalmOp DEF Launching
    <3>4. CASE s.how = "rollback"
      <4>1. Looking(s) = Returning(s.change) /\ r = 2 /\ l = 11
        BY <3>4, RestartingSteps, ReturningSteps DEF Looking, r, l
      <4>2. CASE i - f - r = 2
        <5>1. q[i] = Does("rollback")
          BY <3>2, <4>1, <4>2, ReturningSteps
        <5>2. i = f + 4
          BY <1>1, <4>1, <4>2
        <5>3. i = Third(s)
          BY <3>4, <5>2 DEF Third, f
        <5> QED BY <5>1, <5>3 DEF Does
      <4>3. CASE i - f - r # 2
        <5> DEFINE k == i - f - r
        <5>1. k \in 1..11 /\ k # 2 /\ q[i] = Returning(s.change)[k]
          BY <2>3, <3>2, <4>1, <4>3
        <5>2. q[i] \in Calm
          <6> HIDE DEF k
          <6> QED BY <5>1, ReturningSteps
        <5> QED BY <5>2, CalmOp DEF Launching
      <4> QED BY <4>2, <4>3
    <3> QED BY <3>3, <3>4
  <2> QED BY <1>1, <2>1, <2>2, <2>3
<1>3. Len(q) \in Nat /\ Len(q) > 0
  BY <1>1
<1> QED BY <1>1, <1>2, <1>3, Zenon DEF q, f

-----------------------------------------------------------------------------
(* What the scripts look at after the restart.                                *)

Has(q, st) == \E i \in 1..Len(q) : q[i] = st

LEMMA HasOne == \A st : Has(<<st>>, st)
BY DEF Has

LEMMA HasLeft ==
  \A S : \A q, r \in Seq(S) : \A st : Has(q, st) => Has(q \o r, st)
<1> SUFFICES ASSUME NEW S, NEW q \in Seq(S), NEW r \in Seq(S), NEW st, Has(q, st)
             PROVE  Has(q \o r, st)
  BY Zenon
<1>1. PICK i \in 1..Len(q) : q[i] = st
  BY DEF Has
<1>2. (q \o r)[i] = st
  <2>1. (q \o r)[i] = q[i]
    BY ConcatLeft, Zenon
  <2> QED BY <1>1, <2>1
<1>3. i \in 1..Len(q \o r)
  <2>1. Len(q \o r) = Len(q) + Len(r)
    BY ConcatLen, Zenon
  <2>2. Len(q) \in Nat /\ Len(r) \in Nat
    OBVIOUS
  <2> QED BY <2>1, <2>2
<1> QED BY <1>2, <1>3, Zenon DEF Has

LEMMA HasRight ==
  \A S : \A q, r \in Seq(S) : \A st : Has(r, st) => Has(q \o r, st)
<1> SUFFICES ASSUME NEW S, NEW q \in Seq(S), NEW r \in Seq(S), NEW st, Has(r, st)
             PROVE  Has(q \o r, st)
  BY Zenon
<1>1. PICK i \in 1..Len(r) : r[i] = st
  BY DEF Has
<1>2. Len(q) \in Nat /\ Len(r) \in Nat
  OBVIOUS
<1>3. /\ Len(q) + i \in 1..(Len(q) + Len(r)) /\ Len(q) + i > Len(q)
      /\ (Len(q) + i) - Len(q) = i
  BY <1>2
<1>4. (q \o r)[Len(q) + i] = r[(Len(q) + i) - Len(q)]
  BY <1>3, ConcatRight, Zenon
<1>5. (q \o r)[Len(q) + i] = st
  BY <1>1, <1>3, <1>4
<1>6. Len(q \o r) = Len(q) + Len(r)
  BY ConcatLen, Zenon
<1> QED BY <1>3, <1>5, <1>6, Zenon DEF Has

LEMMA HasThree ==
  \A S : \A q, r, t \in Seq(S) : \A st :
    Has(q, st) \/ Has(r, st) \/ Has(t, st) => Has(q \o r \o t, st)
<1> SUFFICES ASSUME NEW S, NEW q \in Seq(S), NEW r \in Seq(S), NEW t \in Seq(S), NEW st,
                    Has(q, st) \/ Has(r, st) \/ Has(t, st)
             PROVE  Has(q \o r \o t, st)
  BY Zenon
<1>1. q \o r \in Seq(S)
  BY ConcatLen, Zenon
<1>2. CASE Has(q, st) \/ Has(r, st)
  <2>1. Has(q \o r, st)
    BY <1>2, HasLeft, HasRight, Zenon
  <2> QED BY <1>1, <2>1, HasLeft, Zenon
<1>3. CASE Has(t, st)
  BY <1>1, <1>3, HasRight, Zenon
<1> QED BY <1>2, <1>3

\* Among the checks for no change is that on the revisions' number.
LEMMA UnchangedHas ==
  \A w \in BOOLEAN : Has(Checked({}, w), Does("same")) /\ Has(Checked({}, w), Does("kept"))
<1> SUFFICES ASSUME NEW w \in BOOLEAN
             PROVE  Has(After({}, w), Does("same")) /\ Has(After({}, w), Does("kept"))
  BY Zenon DEF Checked
<1>1. /\ "same" \in CalmOps /\ "kept" \in CalmOps /\ "droplet" \in Aspects /\ FALSE \in BOOLEAN
  BY DEF CalmOps, Aspects
<1>2. /\ Does("same") \in Calm /\ Does("kept") \in Calm /\ Records("droplet", FALSE) \in Calm
      /\ Serves("droplet", FALSE) \in Calm
  BY <1>1, CalmSteps, Zenon
<1>3. NoRevision \in Seq(Calm)
  BY <1>2, CalmThree, Zenon DEF NoRevision
<1>4. Has(NoRevision, Does("same")) /\ Has(NoRevision, Does("kept"))
  <2> DEFINE v1 == Does("same")
             v2 == Records("droplet", FALSE)
             v3 == Does("kept")
  <2>1. NoRevision = <<v1, v2, v3>>
    BY Zenon DEF NoRevision
  <2>2. Has(NoRevision, v1) /\ Has(NoRevision, v3)
    <3> HIDE DEF v1, v2, v3
    <3> QED BY <2>1 DEF Has
  <2> QED BY <2>2, Zenon
<1>5. When(w, AllUp) \in Seq(Calm)
  BY CalmAllUp, CalmNone, Zenon DEF When
<1>6. <<Serves("droplet", FALSE)>> \in Seq(Calm)
  BY <1>2, CalmOne, Zenon
<1>7. After({}, w) = NoRevision \o When(w, AllUp) \o <<Serves("droplet", FALSE)>>
  BY Zenon DEF After
<1>8. \A st : Has(NoRevision, st) =>
                Has(NoRevision \o When(w, AllUp) \o <<Serves("droplet", FALSE)>>, st)
  BY <1>3, <1>5, <1>6, HasThree, Zenon
<1> QED BY <1>4, <1>7, <1>8, Zenon

\* So is it among those of a spec that starts a started app.
LEMMA StartedHas == \A c \in SUBSET Aspects : Has(StartedChecks(c), Does("kept"))
<1> SUFFICES ASSUME NEW c \in SUBSET Aspects PROVE Has(StartedChecks(c), Does("kept"))
  OBVIOUS
<1> DEFINE q1 == When("droplet" \in c, <<Records("droplet", FALSE)>>)
           q2 == <<Does("kept")>>
           q3 == When("command" \in c, <<Does("commandKept")>>)
           q4 == <<Serves("droplet", FALSE)>>
<1>1. /\ "kept" \in CalmOps /\ "commandKept" \in CalmOps /\ "droplet" \in Aspects
      /\ FALSE \in BOOLEAN
  BY DEF CalmOps, Aspects
<1>2. /\ Does("kept") \in Calm /\ Does("commandKept") \in Calm
      /\ Records("droplet", FALSE) \in Calm /\ Serves("droplet", FALSE) \in Calm
  BY <1>1, CalmSteps, Zenon
<1>3. q1 \in Seq(Calm) /\ q2 \in Seq(Calm) /\ q3 \in Seq(Calm) /\ q4 \in Seq(Calm)
  BY <1>2, CalmOne, CalmNone, Zenon DEF When
<1>4. Has(q2, Does("kept"))
  BY HasOne, Zenon
<1>5. StartedChecks(c) = q1 \o q2 \o q3 \o q4
  BY Zenon DEF StartedChecks
<1> HIDE DEF q1, q2, q3, q4
<1>6. q1 \o q2 \in Seq(Calm) /\ q1 \o q2 \o q3 \in Seq(Calm)
  BY <1>3, CalmConcat, Zenon
<1>7. Has(q1 \o q2, Does("kept"))
  BY <1>3, <1>4, HasRight, Zenon
<1>8. Has(q1 \o q2 \o q3 \o q4, Does("kept"))
  BY <1>3, <1>6, <1>7, HasThree, Zenon
<1> QED BY <1>5, <1>8, Zenon

\* Among those for a change is that on their number, and a look at the change.
LEMMA ChangedHas ==
  ASSUME NEW c \in {{"env"}, {"command"}, {"droplet"}}, NEW w \in BOOLEAN
  PROVE  /\ Has(Checked(c, w), Longer(1)) /\ Has(Checked(c, w), Does("isNew"))
         /\ Has(Checked(c, w), Does("linked"))
         /\ \A a \in c : /\ a # "env" => Has(Checked(c, w), Records(a, TRUE))
                         /\ Has(Checked(c, w), Serves(a, TRUE))
<1> DEFINE a == CHOOSE x \in c : TRUE
           p1 == <<Longer(1)>>
           p2 == When(c # {"command"}, <<Records("droplet", "droplet" \in c)>>)
           p3 == <<Does("isNew")>>
           p4 == When(c = {"command"}, <<Records("command", TRUE)>>)
           p5 == <<Does("linked")>>
           p6 == When(w, AllUp)
           p7 == <<Serves("droplet", "droplet" \in c)>>
           p8 == When(c # {"droplet"}, <<Serves(a, TRUE)>>)
           q == Checked(c, w)
<1>1. c # {} /\ c \in SUBSET Aspects
  BY DEF Aspects
<1>2. q = p1 \o p2 \o p3 \o p4 \o p5 \o p6 \o p7 \o p8
  BY <1>1, Zenon DEF Checked, After, NewRevision
<1>3. a \in c /\ c = {a}
  BY <1>1
<1>4. /\ "isNew" \in CalmOps /\ "linked" \in CalmOps /\ "droplet" \in Aspects
      /\ "command" \in Aspects /\ 1 \in Nat /\ TRUE \in BOOLEAN /\ FALSE \in BOOLEAN
  BY DEF CalmOps, Aspects
<1>5. ("droplet" \in c) \in BOOLEAN
  OBVIOUS
<1>6. /\ Does("isNew") \in Calm /\ Does("linked") \in Calm /\ Longer(1) \in Calm
      /\ Records("command", TRUE) \in Calm
  BY <1>4, CalmSteps, Zenon
<1>7. Records("droplet", "droplet" \in c) \in Calm /\ Serves("droplet", "droplet" \in c) \in Calm
  BY <1>4, <1>5, CalmSteps, Zenon
<1>8. Serves(a, TRUE) \in Calm
  <2>1. a \in Aspects
    BY <1>1, <1>3
  <2> HIDE DEF a
  <2> QED BY <1>4, <2>1, CalmSteps, Zenon
<1>9. p1 \in Seq(Calm) /\ p3 \in Seq(Calm) /\ p5 \in Seq(Calm) /\ p7 \in Seq(Calm)
  BY <1>6, <1>7, CalmOne, Zenon
<1>10. p2 \in Seq(Calm)
  BY <1>7, CalmOne, CalmNone, Zenon DEF When
<1>11. p4 \in Seq(Calm)
  BY <1>6, CalmOne, CalmNone, Zenon DEF When
<1>12. p6 \in Seq(Calm)
  BY CalmAllUp, CalmNone, Zenon DEF When
<1>13. p8 \in Seq(Calm)
  BY <1>8, CalmOne, CalmNone, Zenon DEF When
<1>14. /\ Has(p1, Longer(1)) /\ Has(p3, Does("isNew")) /\ Has(p5, Does("linked"))
       /\ Has(p7, Serves("droplet", "droplet" \in c))
  BY HasOne, Zenon
<1>15. c # {"command"} => Has(p2, Records("droplet", "droplet" \in c))
  BY HasOne, Zenon DEF When
<1>16. c = {"command"} => Has(p4, Records("command", TRUE))
  BY HasOne, Zenon DEF When
<1>17. c # {"droplet"} => Has(p8, Serves(a, TRUE))
  BY HasOne, Zenon DEF When
<1>18. ASSUME NEW st,
              \/ Has(p1, st) \/ Has(p2, st) \/ Has(p3, st) \/ Has(p4, st) \/ Has(p5, st)
              \/ Has(p7, st) \/ Has(p8, st)
       PROVE  Has(q, st)
  <2> HIDE DEF p1, p2, p3, p4, p5, p6, p7, p8, q
  <2> DEFINE q3 == p1 \o p2 \o p3
             q5 == q3 \o p4 \o p5
  <2>1. q3 \in Seq(Calm)
    BY <1>9, <1>10, CalmConcat, Zenon
  <2>2. Has(p1, st) \/ Has(p2, st) \/ Has(p3, st) => Has(q3, st)
    BY <1>9, <1>10, HasThree, Zenon
  <2>3. q = q5 \o p6 \o p7 \o p8
    BY <1>2, Zenon
  <2> HIDE DEF q3
  <2>4. q5 \in Seq(Calm)
    BY <1>9, <1>11, <2>1, CalmConcat, Zenon
  <2>5. Has(q3, st) \/ Has(p4, st) \/ Has(p5, st) => Has(q5, st)
    BY <1>9, <1>11, <2>1, HasThree, Zenon
  <2> HIDE DEF q5
  <2>6. q5 \o p6 \in Seq(Calm)
    BY <1>12, <2>4, CalmConcat, Zenon
  <2>7. Has(q5, st) => Has(q5 \o p6, st)
    BY <1>12, <2>4, HasLeft, Zenon
  <2>8. Has(q5 \o p6, st) \/ Has(p7, st) \/ Has(p8, st) => Has(q5 \o p6 \o p7 \o p8, st)
    BY <1>9, <1>13, <2>6, HasThree, Zenon
  <2> QED BY <1>18, <2>2, <2>3, <2>5, <2>7, <2>8, Zenon
<1>19. /\ Has(q, Longer(1)) /\ Has(q, Does("isNew")) /\ Has(q, Does("linked"))
  <2> HIDE DEF p1, p2, p3, p4, p5, p6, p7, p8, q
  <2> QED BY <1>14, <1>18, Zenon
<1>20. ASSUME NEW b \in c
       PROVE  (b # "env" => Has(q, Records(b, TRUE))) /\ Has(q, Serves(b, TRUE))
  <2>1. b = a
    BY <1>3
  <2>2. a \in {"env", "command", "droplet"}
    BY <1>3
  <2> HIDE DEF a, p1, p2, p3, p4, p5, p6, p7, p8, q
  <2>3. CASE a = "droplet"
    <3>1. ("droplet" \in c) = TRUE /\ c # {"command"}
      BY <1>3, <2>3
    <3>2. Has(q, Records("droplet", "droplet" \in c)) /\ Has(q, Serves("droplet", "droplet" \in c))
      BY <1>14, <1>15, <1>18, <3>1, Zenon
    <3>3. Has(q, Records("droplet", TRUE)) /\ Has(q, Serves("droplet", TRUE))
      BY <3>1, <3>2, Zenon
    <3> QED BY <2>1, <2>3, <3>3, Zenon
  <2>4. CASE a = "command"
    <3>1. c = {"command"} /\ c # {"droplet"}
      BY <1>3, <2>4
    <3>2. Has(q, Records("command", TRUE)) /\ Has(q, Serves(a, TRUE))
      BY <1>16, <1>17, <1>18, <3>1, Zenon
    <3> QED BY <2>1, <2>4, <3>2, Zenon
  <2>5. CASE a = "env"
    <3>1. c # {"droplet"}
      BY <1>3, <2>5
    <3>2. Has(q, Serves(a, TRUE))
      BY <1>17, <1>18, <3>1, Zenon
    <3> QED BY <2>1, <2>5, <3>2, Zenon
  <2> QED BY <2>2, <2>3, <2>4, <2>5
<1> QED BY <1>19, <1>20, Zenon

LEMMA SidecarHas == Has(Afterwards({"sidecar"}), Records("sidecar", TRUE))
<1> DEFINE v1 == Longer(1)
           v2 == Records("sidecar", TRUE)
<1>1. Afterwards({"sidecar"}) = <<v1, v2>>
  BY Zenon DEF Afterwards
<1>2. Has(Afterwards({"sidecar"}), v2)
  <2> HIDE DEF v1, v2
  <2> QED BY <1>1 DEF Has
<1> QED BY <1>2, Zenon

\* The changes made are those of the spec.
LEMMA ChangesMade ==
  ASSUME NEW c \in SUBSET Aspects
  PROVE  /\ \A i \in 6..Len(Lead(c)) : Lead(c)[i].op \in c
         /\ \A a \in c : \E i \in 6..Len(Lead(c)) : Lead(c)[i].op = a
<1> DEFINE D == {Does(a) : a \in c}
           w1 == When("droplet" \in c, <<Does("droplet")>>)
           w2 == When("command" \in c, <<Does("command")>>)
           w3 == When("env" \in c, <<Does("env")>>)
           w4 == When("sidecar" \in c, <<Does("sidecar")>>)
           q == Changes(c)
<1>1. \A a : a \in c => <<Does(a)>> \in Seq(D)
  <2>1. \A a : a \in c => Does(a) \in D
    OBVIOUS
  <2>2. \A st \in D : <<st>> \in Seq(D)
    <3> HIDE DEF D
    <3> QED OBVIOUS
  <2> QED BY <2>1, <2>2, Zenon
<1>2. <<>> \in Seq(D)
  OBVIOUS
<1>3. /\ \A st \in D : st.op \in c
      /\ \A a \in c : Does(a).op = a
  BY DEF Does
<1>4. q = w1 \o w2 \o w3 \o w4
  BY Zenon DEF Changes
<1> HIDE DEF D
<1>5. w1 \in Seq(D) /\ w2 \in Seq(D) /\ w3 \in Seq(D) /\ w4 \in Seq(D)
  BY <1>1, <1>2, Zenon DEF When
<1>6. /\ "droplet" \in c => Has(w1, Does("droplet"))
      /\ "command" \in c => Has(w2, Does("command"))
      /\ "env" \in c => Has(w3, Does("env"))
      /\ "sidecar" \in c => Has(w4, Does("sidecar"))
  BY HasOne, Zenon DEF When
<1> HIDE DEF w1, w2, w3, w4, q
<1>7. w1 \o w2 \o w3 \in Seq(D)
  BY <1>5, ConcatLen, Zenon
<1>8. q \in Seq(D)
  BY <1>4, <1>5, <1>7, ConcatLen, Zenon
<1>9. ASSUME NEW a \in c PROVE Has(q, Does(a))
  <2>1. a \in {"droplet", "command", "env", "sidecar"}
    BY DEF Aspects
  <2>2. Has(w1, Does(a)) \/ Has(w2, Does(a)) \/ Has(w3, Does(a)) \/ Has(w4, Does(a))
    <3>1. CASE a = "droplet"
      BY <1>6, <3>1, Zenon
    <3>2. CASE a = "command"
      BY <1>6, <3>2, Zenon
    <3>3. CASE a = "env"
      BY <1>6, <3>3, Zenon
    <3>4. CASE a = "sidecar"
      BY <1>6, <3>4, Zenon
    <3> QED BY <2>1, <3>1, <3>2, <3>3, <3>4
  <2>3. Has(w1, Does(a)) \/ Has(w2, Does(a)) \/ Has(w3, Does(a)) => Has(w1 \o w2 \o w3, Does(a))
    BY <1>5, HasThree, Zenon
  <2> QED BY <1>4, <1>5, <1>7, <2>2, <2>3, HasLeft, HasRight, Zenon
<1>10. /\ Len(Lead(c)) = 5 + Len(q) /\ Len(q) \in Nat
       /\ \A i \in 1..Len(q) : Lead(c)[5 + i] = q[i]
  BY LeadSteps DEF q
<1>11. ASSUME NEW i \in 6..Len(Lead(c)) PROVE Lead(c)[i].op \in c
  <2>1. i - 5 \in 1..Len(q) /\ i = 5 + (i - 5)
    BY <1>10
  <2>2. Lead(c)[i] = q[i - 5]
    BY <1>10, <2>1
  <2>3. q[i - 5] \in D
    BY <1>8, <2>1
  <2> QED BY <1>3, <2>2, <2>3
<1>12. ASSUME NEW a \in c PROVE \E i \in 6..Len(Lead(c)) : Lead(c)[i].op = a
  <2>1. PICK i \in 1..Len(q) : q[i] = Does(a)
    BY <1>9 DEF Has
  <2>2. 5 + i \in 6..Len(Lead(c)) /\ Lead(c)[5 + i] = q[i]
    BY <1>10
  <2>3. Lead(c)[5 + i].op = a
    BY <1>3, <2>1, <2>2
  <2> QED BY <2>2, <2>3
<1> QED BY <1>11, <1>12

\* The last start before the one the spec is about, and that one.
Base(s) == IF s.how = "stopStart" THEN Third(s) ELSE Second(s)
Deed(s) == IF s.how \in {"stopStart", "rollback"} THEN Third(s) ELSE Second(s)

LEMMA Positions ==
  ASSUME NEW s, s.how \in Hows, s.change \in SUBSET Aspects
  PROVE  /\ Len(Lead(s.change)) \in Nat /\ Len(Lead(s.change)) >= 5
         /\ Second(s) = Len(Lead(s.change)) + 1
         /\ Third(s) = Len(Lead(s.change)) + IF s.how = "rollback" THEN 4 ELSE 3
         /\ Second(s) \in Nat /\ Third(s) \in Nat /\ Base(s) \in Nat /\ Deed(s) \in Nat
         /\ s.how = "stopStart" => Base(s) = Third(s) /\ Deed(s) = Third(s)
         /\ s.how = "rollback" => Base(s) = Second(s) /\ Deed(s) = Third(s)
         /\ s.how \in {"restart", "start", "deploy"} => Base(s) = Second(s) /\ Deed(s) = Second(s)
<1> DEFINE f == Len(Lead(s.change))
<1>1. f \in Nat /\ f >= 5
  BY ScriptSteps
<1>2. Second(s) = f + 1 /\ Third(s) = f + IF s.how = "rollback" THEN 4 ELSE 3
  BY DEF Second, Third
<1> HIDE DEF f
<1>3. Second(s) \in Nat /\ Third(s) \in Nat
  BY <1>1, <1>2
<1>4. /\ s.how = "stopStart" => Base(s) = Third(s) /\ Deed(s) = Third(s)
      /\ s.how = "rollback" => Base(s) = Second(s) /\ Deed(s) = Third(s)
      /\ s.how \in {"restart", "start", "deploy"} => Base(s) = Second(s) /\ Deed(s) = Second(s)
  BY DEF Base, Deed
<1>5. Base(s) \in Nat /\ Deed(s) \in Nat
  BY <1>3 DEF Base, Deed
<1> QED BY <1>1, <1>2, <1>3, <1>4, <1>5 DEF f

LEMMA Places ==
  ASSUME NEW s, s.how \in Hows, s.change \in SUBSET Aspects
  PROVE  /\ Len(Script(s)) \in Nat /\ Deed(s) <= Len(Script(s))
         /\ \A i \in 1..5 : Script(s)[i] = Prelude[i]
         /\ \A i \in 6..Len(Lead(s.change)) : Script(s)[i] = Lead(s.change)[i]
         /\ s.how = "stopStart" =>
              /\ Script(s)[Second(s)] = Does("stop") /\ Script(s)[Second(s) + 1] = Does("stopped")
              /\ Script(s)[Third(s)] = Does("start")
         /\ s.how = "restart" => Script(s)[Second(s)] = Does("restart")
         /\ s.how = "start" =>
              /\ Script(s)[Second(s)] = Does("start") /\ Script(s)[Second(s) + 1] = Does("same")
              /\ Second(s) + 1 <= Len(Script(s))
         /\ s.how \in {"deploy", "rollback"} =>
              /\ Script(s)[Second(s)] = Does("deploy")
              /\ Script(s)[Second(s) + 1] = Does("deployed")
              /\ Second(s) + 1 <= Len(Script(s))
         /\ s.how = "rollback" =>
              /\ Script(s)[Third(s)] = Does("rollback")
              /\ \A i \in 3..11 : /\ Third(s) + (i - 2) <= Len(Script(s))
                                  /\ Script(s)[Third(s) + (i - 2)] = Returning(s.change)[i]
         /\ s.how # "rollback" =>
              \A i \in 1..Len(Looking(s)) :
                \E k \in (Deed(s) + 1)..Len(Script(s)) : Script(s)[k] = Looking(s)[i]
<1> DEFINE f == Len(Lead(s.change))
           r == Len(Restarting(s))
           l == Len(Looking(s))
           q == Script(s)
<1>1. /\ Len(q) = f + r + l
      /\ f \in Nat /\ f >= 5 /\ r \in 1..3 /\ l \in Nat
      /\ \A i \in 1..f : q[i] = Lead(s.change)[i]
      /\ \A i \in 1..r : q[f + i] = Restarting(s)[i]
      /\ \A i \in 1..l : q[f + r + i] = Looking(s)[i]
  BY ScriptParts, Zenon
<1>2. /\ Second(s) = f + 1 /\ Third(s) = f + IF s.how = "rollback" THEN 4 ELSE 3
      /\ s.how = "stopStart" => Deed(s) = Third(s)
      /\ s.how = "rollback" => Deed(s) = Third(s)
      /\ s.how \in {"restart", "start", "deploy"} => Deed(s) = Second(s)
  BY Positions
<1>3. /\ s.how = "stopStart" => r = 3
      /\ s.how = "restart" => r = 1
      /\ s.how \in {"start", "deploy", "rollback"} => r = 2
  BY RestartingSteps
<1>4. s.how = "rollback" => Looking(s) = Returning(s.change) /\ l = 11
  BY ReturningSteps DEF Looking
<1>5. \A i \in 1..5 : Lead(s.change)[i] = Prelude[i]
  BY LeadSteps
<1> HIDE DEF f, r, l, q
<1>6. \A i \in 1..5 : q[i] = Prelude[i]
  BY <1>1, <1>5
<1>7. \A i \in 6..f : q[i] = Lead(s.change)[i]
  BY <1>1
<1>8. Len(q) \in Nat /\ Deed(s) <= Len(q)
  BY <1>1, <1>2, <1>3, <1>4 DEF Hows
<1>9. ASSUME s.how = "stopStart"
      PROVE  /\ q[Second(s)] = Does("stop") /\ q[Second(s) + 1] = Does("stopped")
             /\ q[Third(s)] = Does("start")
  <2>1. /\ Restarting(s)[1] = Does("stop") /\ Restarting(s)[2] = Does("stopped")
        /\ Restarting(s)[3] = Does("start")
    BY <1>9, RestartingSteps
  <2>2. q[f + 1] = Does("stop") /\ q[f + 2] = Does("stopped") /\ q[f + 3] = Does("start")
    BY <1>1, <1>3, <1>9, <2>1
  <2>3. Second(s) = f + 1 /\ Second(s) + 1 = f + 2 /\ Third(s) = f + 3
    BY <1>1, <1>2, <1>9
  <2> QED BY <1>9, <2>2, <2>3
<1>10. ASSUME s.how = "restart" PROVE q[Second(s)] = Does("restart")
  <2>1. Restarting(s)[1] = Does("restart")
    BY <1>10, RestartingSteps
  <2> QED BY <1>1, <1>2, <1>3, <1>10, <2>1
<1>11. ASSUME s.how = "start"
       PROVE  /\ q[Second(s)] = Does("start") /\ q[Second(s) + 1] = Does("same")
              /\ Second(s) + 1 <= Len(q)
  <2>1. Restarting(s)[1] = Does("start") /\ Restarting(s)[2] = Does("same")
    BY <1>11, RestartingSteps
  <2>2. q[f + 1] = Does("start") /\ q[f + 2] = Does("same") /\ f + 2 <= Len(q)
    BY <1>1, <1>3, <1>11, <2>1
  <2>3. Second(s) = f + 1 /\ Second(s) + 1 = f + 2
    BY <1>1, <1>2
  <2> QED BY <1>11, <2>2, <2>3
<1>12. ASSUME s.how \in {"deploy", "rollback"}
       PROVE  /\ q[Second(s)] = Does("deploy") /\ q[Second(s) + 1] = Does("deployed")
              /\ Second(s) + 1 <= Len(q)
  <2>1. Restarting(s)[1] = Does("deploy") /\ Restarting(s)[2] = Does("deployed")
    BY <1>12, RestartingSteps
  <2>2. q[f + 1] = Does("deploy") /\ q[f + 2] = Does("deployed") /\ f + 2 <= Len(q)
    BY <1>1, <1>3, <1>12, <2>1
  <2>3. Second(s) = f + 1 /\ Second(s) + 1 = f + 2
    BY <1>1, <1>2
  <2> QED BY <1>12, <2>2, <2>3
<1>13. ASSUME s.how = "rollback"
       PROVE  /\ q[Third(s)] = Does("rollback")
              /\ \A i \in 3..11 : /\ Third(s) + (i - 2) <= Len(q)
                                  /\ q[Third(s) + (i - 2)] = Returning(s.change)[i]
  <2>1. Third(s) = f + 4 /\ r = 2 /\ l = 11 /\ Looking(s) = Returning(s.change)
    BY <1>2, <1>3, <1>4, <1>13
  <2>2. q[f + r + 2] = Returning(s.change)[2] /\ f + r + 2 = Third(s)
    BY <1>1, <2>1
  <2>3. Returning(s.change)[2] = Does("rollback")
    BY ReturningSteps
  <2>4. ASSUME NEW i \in 3..11
        PROVE  /\ Third(s) + (i - 2) <= Len(q) /\ q[Third(s) + (i - 2)] = Returning(s.change)[i]
    <3>1. i \in 1..l /\ f + r + i = Third(s) + (i - 2) /\ Third(s) + (i - 2) <= Len(q)
      BY <1>1, <2>1, SMTT(30)
    <3>2. q[f + r + i] = Looking(s)[i]
      BY <1>1, <3>1
    <3> QED BY <2>1, <3>1, <3>2
  <2> QED BY <1>13, <2>2, <2>3, <2>4
<1>14. ASSUME s.how # "rollback", NEW i \in 1..l
       PROVE  \E k \in (Deed(s) + 1)..Len(q) : q[k] = Looking(s)[i]
  <2>1. Deed(s) <= f + r
    BY <1>1, <1>2, <1>3, <1>14 DEF Hows
  <2>2. Deed(s) \in Nat
    BY Positions
  <2>3. f + r + i \in (Deed(s) + 1)..Len(q) /\ q[f + r + i] = Looking(s)[i]
    BY <1>1, <2>1, <2>2
  <2> QED BY <2>3
<1> USE DEF f, l, q
<1>15. /\ s.how = "stopStart" =>
            /\ q[Second(s)] = Does("stop") /\ q[Second(s) + 1] = Does("stopped")
            /\ q[Third(s)] = Does("start")
       /\ s.how = "restart" => q[Second(s)] = Does("restart")
       /\ s.how = "start" => /\ q[Second(s)] = Does("start") /\ q[Second(s) + 1] = Does("same")
                             /\ Second(s) + 1 <= Len(q)
       /\ s.how \in {"deploy", "rollback"} =>
            /\ q[Second(s)] = Does("deploy") /\ q[Second(s) + 1] = Does("deployed")
            /\ Second(s) + 1 <= Len(q)
       /\ s.how = "rollback" =>
            /\ q[Third(s)] = Does("rollback")
            /\ \A i \in 3..11 : /\ Third(s) + (i - 2) <= Len(q)
                                /\ q[Third(s) + (i - 2)] = Returning(s.change)[i]
  BY <1>9, <1>10, <1>11, <1>12, <1>13, Zenon
<1> QED BY <1>6, <1>7, <1>8, <1>14, <1>15, Zenon

-----------------------------------------------------------------------------
(* Types, and the revisions there are: one more at most for each start.       *)

Limit(s, p) ==
  IF p <= 1 THEN 0 ELSE IF p <= Second(s) THEN 1 ELSE IF p <= Third(s) THEN 2 ELSE 3

\* A start makes one revision at most; what names a revision names one there is.
CountInv ==
  /\ verdict = "running" => pc <= Len(Script(scenario))
  /\ Len(revs) <= Limit(scenario, pc)
  /\ web.rev <= Len(revs) /\ noted.guid <= Len(revs)

TInv == TypeOK /\ CountInv

LEMMA ScenarioTyped ==
  ASSUME scenario \in Scenarios
  PROVE  scenario.how \in Hows /\ scenario.change \in SUBSET Aspects
BY RevisionsAssumption

LEMMA LimitGrows ==
  ASSUME NEW s, s.how \in Hows, s.change \in SUBSET Aspects, NEW p \in Nat, p >= 1
  PROVE  /\ Limit(s, p) \in 0..3 /\ Limit(s, p + 1) \in 0..3
         /\ Limit(s, p) <= Limit(s, p + 1)
         /\ p \in {1, Second(s), Third(s)} => Limit(s, p) + 1 <= Limit(s, p + 1)
         /\ p <= 5 => Limit(s, p) <= 1
<1> DEFINE f == Len(Lead(s.change))
<1>1. f \in Nat /\ f >= 5
  BY ScriptSteps
<1>2. Second(s) = f + 1 /\ (Third(s) = f + 3 \/ Third(s) = f + 4)
  BY DEF Second, Third
<1> HIDE DEF f
<1> QED BY <1>1, <1>2 DEF Limit

\* What the invariant says of the script and of the step the spec is at.
LEMMA AtTyped ==
  ASSUME TInv
  PROVE  /\ scenario.how \in Hows /\ scenario.change \in SUBSET Aspects
         /\ Len(Script(scenario)) \in Nat /\ pc \in Nat /\ pc >= 1
         /\ verdict = "running" =>
              /\ pc \in 1..Len(Script(scenario))
              /\ Spot.op = "noteProcess" => pc <= 5
              /\ Spot.op \in Launching => pc \in {1, Second(scenario), Third(scenario)}
<1>1. scenario.how \in Hows /\ scenario.change \in SUBSET Aspects
  BY ScenarioTyped DEF TInv, TypeOK
<1>2. Len(Script(scenario)) \in Nat
  BY <1>1, ScriptSteps
<1>3. pc \in Nat /\ pc >= 1
  BY <1>2 DEF TInv, TypeOK
<1>4. verdict = "running" => pc \in 1..Len(Script(scenario))
  BY <1>2, <1>3 DEF TInv, CountInv
<1> QED BY <1>1, <1>2, <1>3, <1>4, ScriptSteps DEF Spot

LEMMA InitTyped == Init => TInv
<1> SUFFICES ASSUME Init PROVE TInv
  OBVIOUS
<1>1. scenario.how \in Hows /\ scenario.change \in SUBSET Aspects
  BY ScenarioTyped DEF Init
<1>2. Len(Script(scenario)) \in Nat /\ Len(Script(scenario)) > 0
  BY <1>1, ScriptSteps
<1>3. pc = 1 /\ pc \in 1..(Len(Script(scenario)) + 1) /\ pc <= Len(Script(scenario))
  BY <1>2 DEF Init
<1>4. Instances \in Nat /\ MaxErrors \in Nat
  BY RevisionsAssumption
<1>5. revs = <<>> /\ revs \in Seq(SUBSET Aspects) /\ Len(revs) = 0 /\ Len(revs) <= 3
  BY DEF Init
<1>6. noted = [revs |-> <<>>, guid |-> 0] /\ noted.revs \in Seq(SUBSET Aspects) /\ noted.guid = 0
      /\ noted.guid \in 0..1
  BY DEF Init
<1>7. /\ web = [rev |-> 0, runs |-> {}, want |-> 0, up |-> 0] /\ web.rev = 0
      /\ web \in [rev : 0..3, runs : SUBSET Aspects, want : {0, Instances}, up : 0..Instances]
  BY <1>4 DEF Init
<1>8. old \in [runs : SUBSET Aspects, up : 0..Instances]
  BY <1>4 DEF Init
<1>9. TypeOK
  <2>1. /\ scenario \in Scenarios /\ fault \in {Sound} \cup Broken(scenario) /\ linger \in BOOLEAN
        /\ verdict \in {"running", "passed", "failed"} /\ errs = 0 /\ app = {} /\ deploying = FALSE
    BY DEF Init
  <2>2. errs \in 0..MaxErrors /\ app \subseteq Aspects
    BY <1>4, <2>1
  <2>3. deploying \in BOOLEAN
    BY <2>1, Zenon
  <2> QED BY <1>3, <1>5, <1>6, <1>7, <1>8, <2>1, <2>2, <2>3, Zenon DEF TypeOK
<1>10. CountInv
  BY <1>3, <1>5, <1>6, <1>7 DEF CountInv, Limit
<1> QED BY <1>9, <1>10 DEF TInv

\* A step of the spec, forward or to its end.
LEMMA MoveTyped ==
  ASSUME TInv, verdict = "running", UNCHANGED chosen, Advance \/ Fail
  PROVE  /\ scenario' = scenario /\ fault' = fault /\ linger' = linger
         /\ pc' \in 1..(Len(Script(scenario)) + 1)
         /\ verdict' \in {"running", "passed", "failed"}
         /\ verdict' = "running" => pc' <= Len(Script(scenario))
         /\ Limit(scenario, pc) <= Limit(scenario, pc')
         /\ Limit(scenario, pc) \in 0..3 /\ Limit(scenario, pc') \in 0..3
<1>1. /\ scenario.how \in Hows /\ scenario.change \in SUBSET Aspects
      /\ Len(Script(scenario)) \in Nat /\ pc \in 1..Len(Script(scenario)) /\ pc \in Nat /\ pc >= 1
  BY AtTyped
<1>2. /\ Limit(scenario, pc) \in 0..3 /\ Limit(scenario, pc + 1) \in 0..3
      /\ Limit(scenario, pc) <= Limit(scenario, pc + 1)
  BY <1>1, LimitGrows
<1>3. CASE Advance
  BY <1>1, <1>2, <1>3 DEF Advance, chosen
<1>4. CASE Fail
  BY <1>1, <1>2, <1>4 DEF Fail, chosen
<1> QED BY <1>3, <1>4

\* A step that leaves the platform alone and notes nothing.
LEMMA LooksTyped ==
  ASSUME TInv, verdict = "running", UNCHANGED <<chosen, noted, platform>>, Advance \/ Fail,
         errs' \in 0..MaxErrors
  PROVE  TInv'
<1>1. UNCHANGED <<app, revs, web, old, deploying, noted>>
  BY DEF platform
<1>2. /\ scenario' = scenario /\ fault' = fault /\ linger' = linger
      /\ pc' \in 1..(Len(Script(scenario)) + 1)
      /\ verdict' \in {"running", "passed", "failed"}
      /\ verdict' = "running" => pc' <= Len(Script(scenario))
      /\ Limit(scenario, pc) <= Limit(scenario, pc')
      /\ Limit(scenario, pc) \in 0..3 /\ Limit(scenario, pc') \in 0..3
  BY MoveTyped
<1>3. Len(revs) \in Nat
  BY DEF TInv, TypeOK
<1>4. TypeOK'
  BY <1>1, <1>2 DEF TInv, TypeOK
<1>5. CountInv'
  BY <1>1, <1>2, <1>3 DEF TInv, CountInv
<1> QED BY <1>4, <1>5 DEF TInv

LEMMA LaunchTyped ==
  ASSUME TInv, NEW s \in SUBSET Aspects, NEW revert \in 0..Len(revs), Launch(s, revert)
  PROVE  /\ revs' \in Seq(SUBSET Aspects) /\ Len(revs') \in {Len(revs), Len(revs) + 1}
         /\ app' = s /\ web' = [rev |-> web'.rev, runs |-> web'.runs, want |-> Instances, up |-> 0]
         /\ web'.rev \in 0..Len(revs') /\ web'.runs \in SUBSET Aspects
<1>1. /\ revs \in Seq(SUBSET Aspects) /\ Len(revs) \in Nat /\ web.rev \in Nat
      /\ web.rev <= Len(revs) /\ web.runs \in SUBSET Aspects
  BY DEF TInv, TypeOK, CountInv
<1>2. \A k : Mixed(k, s, web.runs) \in SUBSET Aspects
  BY <1>1 DEF Mixed
<1> DEFINE isNew == IF Breaks("spurious") \/ revs = <<>> THEN TRUE
                    ELSE s # revs[web.rev] /\ ~Breaks("missed") /\ ~Breaks("reuses")
           rev == CASE isNew /\ ~Breaks("unlinked") -> Len(revs) + 1
                    [] Breaks("reuses") -> revert
                    [] OTHER -> web.rev
<1>3. /\ revs' = IF isNew THEN Append(revs, Mixed("records", s, web.runs)) ELSE revs
      /\ web' = [rev |-> rev, runs |-> Mixed("runs", s, web.runs), want |-> Instances, up |-> 0]
      /\ app' = s
  BY Zenon DEF Launch
<1>4. rev \in {web.rev, revert} \/ (isNew /\ rev = Len(revs) + 1)
  <2> HIDE DEF isNew
  <2> QED OBVIOUS
<1> HIDE DEF isNew, rev
<1>5. CASE isNew
  <2>1. revs' = Append(revs, Mixed("records", s, web.runs))
    BY <1>3, <1>5
  <2>2. revs' \in Seq(SUBSET Aspects) /\ Len(revs') = Len(revs) + 1
    <3> DEFINE m == Mixed("records", s, web.runs)
    <3>1. m \in SUBSET Aspects
      BY <1>2, Zenon
    <3> HIDE DEF m
    <3> QED BY <1>1, <2>1, <3>1 DEF m
  <2>3. rev \in 0..Len(revs')
    BY <1>1, <1>4, <2>2
  <2> QED BY <1>2, <1>3, <2>2, <2>3
<1>6. CASE ~isNew
  <2>1. revs' = revs
    BY <1>3, <1>6
  <2>2. rev \in 0..Len(revs')
    BY <1>1, <1>4, <1>6, <2>1
  <2> QED BY <1>1, <1>2, <1>3, <2>1, <2>2
<1> QED BY <1>5, <1>6

\* A step that starts the app, where the script may.
LEMMA StartsTyped ==
  ASSUME TInv, verdict = "running", Spot.op \in Launching, UNCHANGED <<chosen, noted, errs>>,
         Advance, NEW s \in SUBSET Aspects, NEW revert \in 0..Len(revs), Launch(s, revert),
         NEW still \in BOOLEAN, LeaveOld(still), deploying' \in BOOLEAN
  PROVE  TInv'
<1>1. /\ scenario' = scenario /\ fault' = fault /\ linger' = linger
      /\ pc' \in 1..(Len(Script(scenario)) + 1)
      /\ verdict' \in {"running", "passed", "failed"}
      /\ verdict' = "running" => pc' <= Len(Script(scenario))
      /\ Limit(scenario, pc) \in 0..3 /\ Limit(scenario, pc') \in 0..3
  BY MoveTyped
<1>2. /\ revs' \in Seq(SUBSET Aspects) /\ Len(revs') \in {Len(revs), Len(revs) + 1}
      /\ app' = s /\ web' = [rev |-> web'.rev, runs |-> web'.runs, want |-> Instances, up |-> 0]
      /\ web'.rev \in 0..Len(revs') /\ web'.runs \in SUBSET Aspects
  BY LaunchTyped
<1>3. /\ scenario.how \in Hows /\ scenario.change \in SUBSET Aspects /\ pc \in Nat /\ pc >= 1
      /\ pc \in {1, Second(scenario), Third(scenario)}
  BY AtTyped
<1>4. Limit(scenario, pc) + 1 <= Limit(scenario, pc')
  <2>1. pc' = pc + 1
    BY DEF Advance
  <2> QED BY <1>3, <2>1, LimitGrows
<1>5. /\ Len(revs) \in Nat /\ Len(revs') \in Nat /\ Len(revs) <= Limit(scenario, pc)
      /\ noted.guid \in 0..1 /\ noted.guid <= Len(revs) /\ Instances \in Nat
  BY <1>2, RevisionsAssumption DEF TInv, TypeOK, CountInv
<1>6. Len(revs') <= Limit(scenario, pc') /\ Len(revs') <= 3 /\ noted.guid <= Len(revs')
  BY <1>1, <1>2, <1>4, <1>5
<1>7. web' \in [rev : 0..3, runs : SUBSET Aspects, want : {0, Instances}, up : 0..Instances]
  <2>1. web'.rev \in 0..3
    BY <1>2, <1>5, <1>6
  <2>2. 0 \in 0..Instances
    BY <1>5
  <2> QED BY <1>2, <2>1, <2>2
<1>8. old' \in [runs : SUBSET Aspects, up : 0..Instances]
  <2>1. web.runs \in SUBSET Aspects /\ web.up \in 0..Instances /\ 0 \in 0..Instances
    BY <1>5 DEF TInv, TypeOK
  <2> QED BY <2>1 DEF LeaveOld
<1>9. TypeOK'
  BY <1>1, <1>2, <1>6, <1>7, <1>8 DEF TInv, TypeOK
<1>10. CountInv'
  BY <1>1, <1>2, <1>5, <1>6 DEF CountInv
<1> QED BY <1>9, <1>10 DEF TInv

LEMMA StartAppTyped ==
  ASSUME TInv, StartApp
  PROVE  TInv'
<1>1. /\ verdict = "running" /\ Spot.op \in Launching /\ Advance
      /\ UNCHANGED <<chosen, noted, errs, deploying>>
  BY DEF StartApp, AtStep, Launching
<1>2. CASE Launch(app, 0) /\ LeaveOld(TRUE)
  <2>1. app \in SUBSET Aspects /\ deploying' \in BOOLEAN /\ Len(revs) \in Nat /\ 0 \in 0..Len(revs)
    BY <1>1 DEF TInv, TypeOK
  <2>2. TRUE \in BOOLEAN
    OBVIOUS
  <2> QED BY <1>1, <1>2, <2>1, <2>2, StartsTyped
<1>3. CASE UNCHANGED <<app, revs, web, old>>
  <2>1. UNCHANGED <<chosen, noted, platform>> /\ errs' \in 0..MaxErrors
    BY <1>1, <1>3 DEF platform, TInv, TypeOK
  <2> QED BY <1>1, <2>1, LooksTyped
<1> QED BY <1>2, <1>3 DEF StartApp

LEMMA RestartAppTyped ==
  ASSUME TInv, RestartApp
  PROVE  TInv'
<1>1. /\ verdict = "running" /\ Spot.op \in Launching /\ Advance /\ Launch(app, 0)
      /\ LeaveOld(linger) /\ UNCHANGED <<chosen, noted, errs, deploying>>
  BY DEF RestartApp, AtStep, Launching
<1>2. /\ app \in SUBSET Aspects /\ deploying' \in BOOLEAN /\ Len(revs) \in Nat /\ 0 \in 0..Len(revs)
      /\ linger \in BOOLEAN
  BY <1>1 DEF TInv, TypeOK
<1> QED BY <1>1, <1>2, StartsTyped

LEMMA CreateDeploymentTyped ==
  ASSUME TInv, CreateDeployment
  PROVE  TInv'
<1>1. /\ verdict = "running" /\ Spot.op \in Launching /\ Advance /\ Launch(app, 0)
      /\ LeaveOld(TRUE) /\ UNCHANGED <<chosen, noted, errs>> /\ deploying' \in BOOLEAN
  BY DEF CreateDeployment, AtStep, Launching
<1>2. app \in SUBSET Aspects /\ Len(revs) \in Nat /\ 0 \in 0..Len(revs) /\ TRUE \in BOOLEAN
  BY DEF TInv, TypeOK
<1> QED BY <1>1, <1>2, StartsTyped

LEMMA RollbackTyped ==
  ASSUME TInv, RollbackDeployment
  PROVE  TInv'
<1>1. verdict = "running" /\ Spot.op \in Launching /\ UNCHANGED <<chosen, noted, errs>>
  BY DEF RollbackDeployment, AtStep, Launching
<1>2. CASE noted.guid # 0
  <2>1. /\ Advance /\ Launch(revs[noted.guid], noted.guid) /\ LeaveOld(TRUE)
        /\ deploying' \in BOOLEAN
    BY <1>2 DEF RollbackDeployment
  <2>2. /\ revs \in Seq(SUBSET Aspects) /\ Len(revs) \in Nat /\ noted.guid \in 0..1
        /\ noted.guid <= Len(revs)
    BY DEF TInv, TypeOK, CountInv
  <2>3. noted.guid \in 1..Len(revs) /\ noted.guid \in 0..Len(revs) /\ TRUE \in BOOLEAN
    BY <1>2, <2>2
  <2>4. revs[noted.guid] \in SUBSET Aspects
    BY <2>2, <2>3
  <2> QED BY <1>1, <2>1, <2>3, <2>4, StartsTyped
<1>3. CASE noted.guid = 0
  <2>1. Fail /\ UNCHANGED platform /\ errs' \in 0..MaxErrors
    BY <1>1, <1>3 DEF RollbackDeployment, TInv, TypeOK
  <2> QED BY <1>1, <2>1, LooksTyped
<1> QED BY <1>2, <1>3

\* A step that changes the app's settings, or what is asked for.
LEMMA AltersTyped ==
  ASSUME TInv, verdict = "running", Advance,
         UNCHANGED <<chosen, noted, errs, revs, old, deploying>>,
         app' \in SUBSET Aspects,
         web' \in {web, [web EXCEPT !.want = 0]}
  PROVE  TInv'
<1>1. /\ scenario' = scenario /\ fault' = fault /\ linger' = linger
      /\ pc' \in 1..(Len(Script(scenario)) + 1)
      /\ verdict' \in {"running", "passed", "failed"}
      /\ verdict' = "running" => pc' <= Len(Script(scenario))
      /\ Limit(scenario, pc) <= Limit(scenario, pc')
      /\ Limit(scenario, pc) \in 0..3 /\ Limit(scenario, pc') \in 0..3
  BY MoveTyped
<1>2. Len(revs) \in Nat
  BY DEF TInv, TypeOK
<1>3. /\ web' \in [rev : 0..3, runs : SUBSET Aspects, want : {0, Instances}, up : 0..Instances]
      /\ web'.rev = web.rev
  BY DEF TInv, TypeOK
<1>4. TypeOK'
  BY <1>1, <1>3 DEF TInv, TypeOK
<1>5. CountInv'
  BY <1>1, <1>2, <1>3 DEF TInv, CountInv
<1> QED BY <1>4, <1>5 DEF TInv

LEMMA ReadsTyped ==
  ASSUME TInv, Reads
  PROVE  TInv'
<1>1. PICK e \in BOOLEAN :
        /\ NoteRevisions(e) \/ NoteProcess(e) \/ Count(e) \/ Keep(e)
        /\ Read(e) /\ UNCHANGED <<chosen, platform>>
  BY DEF Reads
<1>2. errs' \in 0..MaxErrors
  <2>1. errs \in 0..MaxErrors /\ MaxErrors \in Nat
    BY RevisionsAssumption DEF TInv, TypeOK
  <2> QED BY <1>1, <2>1 DEF Read, CanErr
<1>3. CASE Count(e) \/ Keep(e)
  <2>1. verdict = "running" /\ (Advance \/ Fail) /\ UNCHANGED noted
    BY <1>3 DEF Count, Keep, AtStep, Verdict
  <2> QED BY <1>1, <1>2, <2>1, LooksTyped
<1>4. CASE NoteRevisions(e) \/ NoteProcess(e)
  <2>1. verdict = "running" /\ Advance
    BY <1>4 DEF NoteRevisions, NoteProcess, AtStep
  <2>2. /\ scenario' = scenario /\ fault' = fault /\ linger' = linger
        /\ pc' \in 1..(Len(Script(scenario)) + 1)
        /\ verdict' \in {"running", "passed", "failed"}
        /\ verdict' = "running" => pc' <= Len(Script(scenario))
        /\ Limit(scenario, pc) <= Limit(scenario, pc')
        /\ Limit(scenario, pc) \in 0..3 /\ Limit(scenario, pc') \in 0..3
    BY <1>1, <2>1, MoveTyped
  <2>3. UNCHANGED <<app, revs, web, old, deploying>> /\ Len(revs) \in Nat
    BY <1>1 DEF platform, TInv, TypeOK
  <2>4. /\ noted'.revs \in Seq(SUBSET Aspects) /\ noted'.guid \in 0..1 /\ noted'.guid <= Len(revs)
    <3>1. CASE NoteRevisions(e)
      <4>1. noted' = [noted EXCEPT !.revs = ReadRevisions(e)]
        BY <3>1 DEF NoteRevisions
      <4>2. ReadRevisions(e) \in Seq(SUBSET Aspects)
        BY DEF ReadRevisions, TInv, TypeOK
      <4>3. noted.guid \in 0..1 /\ noted.guid <= Len(revs)
        BY DEF TInv, TypeOK, CountInv
      <4> QED BY <4>1, <4>2, <4>3
    <3>2. CASE NoteProcess(e)
      <4>1. noted' = [noted EXCEPT !.guid = ReadRevision(e)] /\ Spot.op = "noteProcess"
        BY <3>2 DEF NoteProcess, AtStep
      <4>2. /\ pc <= 5 /\ pc \in Nat /\ pc >= 1
            /\ scenario.how \in Hows /\ scenario.change \in SUBSET Aspects
        BY <2>1, <4>1, AtTyped
      <4>3. Limit(scenario, pc) <= 1 /\ Limit(scenario, pc) \in 0..3
        BY <4>2, LimitGrows
      <4>4. /\ web.rev \in Nat /\ web.rev <= Len(revs) /\ Len(revs) <= Limit(scenario, pc)
        BY DEF TInv, TypeOK, CountInv
      <4>5. ReadRevision(e) \in 0..1 /\ ReadRevision(e) <= Len(revs)
        BY <2>3, <4>3, <4>4 DEF ReadRevision
      <4>6. noted.revs \in Seq(SUBSET Aspects)
        BY DEF TInv, TypeOK
      <4> QED BY <4>1, <4>5, <4>6
    <3> QED BY <1>4, <3>1, <3>2
  <2>5. TypeOK'
    BY <1>2, <2>2, <2>3, <2>4 DEF TInv, TypeOK
  <2>6. CountInv'
    BY <2>2, <2>3, <2>4 DEF TInv, CountInv
  <2> QED BY <2>5, <2>6 DEF TInv
<1> QED BY <1>1, <1>3, <1>4

LEMMA PlatformTyped ==
  ASSUME TInv, Platform
  PROVE  TInv'
<1>1. /\ UNCHANGED <<scenario, fault, linger, pc, verdict, noted, errs>>
  BY DEF Platform, chosen, driver
<1>2. UNCHANGED <<app, revs>>
  BY DEF Platform, StartOne, StopOne, StopOld, Deployed
<1>3. Instances \in Nat
  BY RevisionsAssumption
<1>4. /\ web' \in [rev : 0..3, runs : SUBSET Aspects, want : {0, Instances}, up : 0..Instances]
      /\ web'.rev = web.rev
  <2>1. web \in [rev : 0..3, runs : SUBSET Aspects, want : {0, Instances}, up : 0..Instances]
    BY DEF TInv, TypeOK
  <2>2. CASE StartOne
    <3>1. web.up + 1 \in 0..Instances
      BY <1>3, <2>1, <2>2 DEF StartOne
    <3> QED BY <2>1, <2>2, <3>1 DEF StartOne
  <2>3. CASE StopOne
    <3>1. web.up - 1 \in 0..Instances
      BY <1>3, <2>1, <2>3 DEF StopOne
    <3> QED BY <2>1, <2>3, <3>1 DEF StopOne
  <2>4. CASE StopOld \/ Deployed
    BY <2>1, <2>4 DEF StopOld, Deployed
  <2> QED BY <2>2, <2>3, <2>4 DEF Platform
<1>5. old' \in [runs : SUBSET Aspects, up : 0..Instances]
  <2>1. old \in [runs : SUBSET Aspects, up : 0..Instances]
    BY DEF TInv, TypeOK
  <2>2. CASE StopOld
    <3>1. old.up - 1 \in 0..Instances
      BY <1>3, <2>1, <2>2 DEF StopOld
    <3> QED BY <2>1, <2>2, <3>1 DEF StopOld
  <2>3. CASE StartOne \/ StopOne \/ Deployed
    BY <2>1, <2>3 DEF StartOne, StopOne, Deployed
  <2> QED BY <2>2, <2>3 DEF Platform
<1>6. deploying' \in BOOLEAN
  BY DEF Platform, StartOne, StopOne, StopOld, Deployed, TInv, TypeOK
<1>7. TypeOK'
  BY <1>1, <1>2, <1>4, <1>5, <1>6 DEF TInv, TypeOK
<1>8. CountInv'
  BY <1>1, <1>2, <1>4 DEF TInv, CountInv
<1> QED BY <1>7, <1>8 DEF TInv

LEMMA DriverTyped ==
  ASSUME TInv, Driver
  PROVE  TInv'
<1>1. CASE StartApp
  BY <1>1, StartAppTyped
<1>2. CASE StopApp
  <2>1. /\ verdict = "running" /\ Advance /\ web' = [web EXCEPT !.want = 0]
        /\ UNCHANGED <<chosen, noted, errs, app, revs, old, deploying>>
    BY <1>2 DEF StopApp, AtStep
  <2>2. app' \in SUBSET Aspects
    BY <2>1 DEF TInv, TypeOK
  <2> QED BY <2>1, <2>2, AltersTyped
<1>3. CASE RestartApp
  BY <1>3, RestartAppTyped
<1>4. CASE Change
  <2>1. PICK a \in Aspects : Alter(a)
    BY <1>4 DEF Change, CreateAndAssociateNewDroplet, UpdateEnvironmentVariables,
                SetCommandOnProcess, CreateSidecar, Aspects
  <2>2. /\ verdict = "running" /\ Advance /\ app' = app \cup {a}
        /\ UNCHANGED <<chosen, noted, errs, revs, web, old, deploying>>
    BY <2>1 DEF Alter, AtStep
  <2>3. app' \in SUBSET Aspects
    BY <2>2 DEF TInv, TypeOK
  <2> QED BY <2>2, <2>3, AltersTyped
<1>5. CASE CreateDeployment
  BY <1>5, CreateDeploymentTyped
<1>6. CASE RollbackDeployment
  BY <1>6, RollbackTyped
<1>7. CASE Wait \/ Timeout \/ Inspect \/ Curl
  <2>1. verdict = "running" /\ (Advance \/ Fail) /\ UNCHANGED <<chosen, noted, errs, platform>>
    BY <1>7 DEF Wait, Timeout, Inspect, Curl, AtStep, Verdict
  <2>2. errs' \in 0..MaxErrors
    BY <2>1 DEF TInv, TypeOK
  <2> QED BY <2>1, <2>2, LooksTyped
<1>8. CASE Reads
  BY <1>8, ReadsTyped
<1> QED BY <1>1, <1>2, <1>3, <1>4, <1>5, <1>6, <1>7, <1>8 DEF Driver

LEMMA NextTyped == TInv /\ [Next]_vars => TInv'
<1> SUFFICES ASSUME TInv, [Next]_vars PROVE TInv'
  OBVIOUS
<1>1. CASE Platform
  BY <1>1, PlatformTyped
<1>2. CASE Driver
  BY <1>2, DriverTyped
<1>3. CASE Hiccup
  <2>1. verdict = "running" /\ Fail /\ UNCHANGED <<chosen, noted, platform>>
    BY <1>3 DEF Hiccup
  <2>2. errs' \in 0..MaxErrors
    <3>1. errs \in 0..MaxErrors /\ MaxErrors \in Nat
      BY RevisionsAssumption DEF TInv, TypeOK
    <3> QED BY <1>3, <3>1 DEF Hiccup, CanErr
  <2> QED BY <2>1, <2>2, LooksTyped
<1>4. CASE UNCHANGED vars
  BY <1>4 DEF vars, chosen, driver, platform, TInv, TypeOK, CountInv
<1> QED BY <1>1, <1>2, <1>3, <1>4 DEF Next

\* The invariant holds in every state.
THEOREM TypedInvariant == Spec => []TInv
BY InitTyped, NextTyped, PTL DEF Spec

\* Every reachable state is well typed; in particular a spec of the five kinds
\* (revisions.go:74-432) makes three revisions of its app at most, and BeforeEach
\* notes the first one or, after a failed read, none.
THEOREM RevisionsTypeCorrect == Spec => []TypeOK
<1>1. TInv => TypeOK
  BY DEF TInv
<1> QED BY <1>1, TypedInvariant, PTL

-----------------------------------------------------------------------------
(* The invariant. *)

\* The spec has just done a step of this name.
HasJust(op) == verdict = "running" /\ pc > 1 /\ Script(scenario)[pc - 1].op = op

\* No instance is left of before, for there was none when the app was started: at
\* first nothing runs, a stop asks for none, and its wait ends with none.
NoneLeft ==
  /\ web = [rev |-> web.rev, runs |-> web.runs, want |-> web.want, up |-> web.up]
  /\ web.want \in Nat /\ web.up \in Nat /\ old.up = 0
  /\ verdict = "running" => pc \in 1..Len(Script(scenario))
  /\ verdict = "running" /\ pc = 1 => web.want = 0 /\ web.up = 0
  /\ HasJust("stop") => web.want = 0
  /\ HasJust("stopped") => web.want = 0 /\ web.up = 0

IInv == scenario \in Scenarios /\ (scenario.how = "stopStart" => NoneLeft)

LEMMA InitInv == Init => IInv
<1> SUFFICES ASSUME Init PROVE IInv
  OBVIOUS
<1>1. scenario \in Scenarios
  BY DEF Init
<1>2. ASSUME scenario.how = "stopStart" PROVE NoneLeft
  <2>1. scenario.change \in SUBSET Aspects
    BY <1>1, RevisionsAssumption
  <2>2. Script(scenario) \in Seq(Steps) /\ Len(Script(scenario)) > 0
    BY <1>2, <2>1, OrderlyScript
  <2>3. pc \in 1..Len(Script(scenario)) /\ pc = 1
    BY <2>2 DEF Init
  <2>4. /\ web = [rev |-> web.rev, runs |-> web.runs, want |-> web.want, up |-> web.up]
        /\ web.want = 0 /\ web.up = 0 /\ old.up = 0
    BY DEF Init
  <2> QED BY <2>3, <2>4 DEF NoneLeft, HasJust
<1> QED BY <1>1, <1>2 DEF IInv

\* What the lemmas about the steps assume.
Here == IInv /\ scenario.how = "stopStart" /\ UNCHANGED chosen

LEMMA HereScript ==
  ASSUME Here
  PROVE  /\ NoneLeft /\ scenario' = scenario
         /\ Script(scenario) \in Seq(Steps) /\ Orderly(Script(scenario))
<1>1. scenario \in Scenarios /\ scenario.how = "stopStart" /\ NoneLeft /\ scenario' = scenario
  BY DEF Here, IInv, chosen
<1>2. scenario.change \in SUBSET Aspects
  BY <1>1, RevisionsAssumption
<1> QED BY <1>1, <1>2, OrderlyScript

\* A step that leaves the instances alone, and is no stop.
LEMMA KeepsInstances ==
  ASSUME Here, UNCHANGED <<web, old>>, verdict = "running", Spot.op \notin {"stop", "stopped"},
         Advance \/ Fail
  PROVE  NoneLeft'
<1>1. NoneLeft /\ scenario' = scenario /\ Len(Script(scenario)) \in Nat
  BY HereScript
<1>2. pc \in 1..Len(Script(scenario)) /\ Script(scenario)[pc].op \notin {"stop", "stopped"}
  BY <1>1 DEF NoneLeft, Spot
<1>3. CASE Advance
  <2>1. pc' = pc + 1 /\ (verdict' = "running" => pc # Len(Script(scenario)))
    BY <1>3 DEF Advance
  <2>2. pc' - 1 = pc /\ pc' # 1 /\ (verdict' = "running" => pc' \in 1..Len(Script(scenario)))
    BY <1>1, <1>2, <2>1
  <2> QED BY <1>1, <1>2, <2>2 DEF NoneLeft, HasJust
<1>4. CASE Fail
  BY <1>1, <1>4 DEF NoneLeft, HasJust, Fail
<1> QED BY <1>3, <1>4

\* Diego's steps: what is asked for does not change, and none are up but those.
LEMMA PlatformStep ==
  ASSUME Here, Platform
  PROVE  NoneLeft'
<1>1. NoneLeft /\ scenario' = scenario /\ pc' = pc /\ verdict' = verdict
  BY HereScript DEF Platform, driver
<1>2. CASE StartOne
  <2>1. /\ web' = [rev |-> web.rev, runs |-> web.runs, want |-> web.want, up |-> web.up + 1]
        /\ old' = old /\ web.up < web.want
    BY <1>1, <1>2 DEF StartOne, NoneLeft
  <2> QED BY <1>1, <2>1 DEF NoneLeft, HasJust
<1>3. CASE StopOne
  <2>1. /\ web' = [rev |-> web.rev, runs |-> web.runs, want |-> web.want, up |-> web.up - 1]
        /\ old' = old /\ web.up > web.want
    BY <1>1, <1>3 DEF StopOne, NoneLeft
  <2> QED BY <1>1, <2>1 DEF NoneLeft, HasJust
<1>4. CASE StopOld
  BY <1>1, <1>4 DEF StopOld, NoneLeft
<1>5. CASE Deployed
  BY <1>1, <1>5 DEF Deployed, NoneLeft, HasJust
<1> QED BY <1>2, <1>3, <1>4, <1>5 DEF Platform

LEMMA StartStep ==
  ASSUME Here, StartApp
  PROVE  NoneLeft'
<1>1. /\ NoneLeft /\ scenario' = scenario /\ Len(Script(scenario)) \in Nat
      /\ Orderly(Script(scenario))
  BY HereScript
<1>2. pc \in 1..Len(Script(scenario)) /\ Script(scenario)[pc].op = "start" /\ verdict = "running"
  BY <1>1 DEF NoneLeft, StartApp, AtStep, Spot
<1>3. web.up = 0
  <2>1. CASE pc = 1
    BY <1>1, <1>2, <2>1 DEF NoneLeft
  <2>2. CASE pc > 1
    <3>1. HasJust("stopped")
      BY <1>1, <1>2, <2>2 DEF Orderly, HasJust
    <3> QED BY <1>1, <3>1 DEF NoneLeft
  <2> QED BY <1>2, <2>1, <2>2
<1>4. /\ web' = [rev |-> web'.rev, runs |-> web'.runs, want |-> web'.want, up |-> web'.up]
      /\ web'.want \in Nat /\ web'.up = 0 /\ old'.up = 0
  <2>1. CASE Launch(app, 0) /\ LeaveOld(TRUE)
    <3>1. /\ web' = [rev |-> web'.rev, runs |-> web'.runs, want |-> web'.want, up |-> web'.up]
          /\ web'.want = Instances /\ web'.up = 0
      BY <2>1 DEF Launch
    <3>2. old'.up = 0
      BY <1>3, <2>1 DEF LeaveOld
    <3> QED BY <3>1, <3>2, RevisionsAssumption
  <2>2. CASE UNCHANGED <<app, revs, web, old>>
    BY <1>1, <1>3, <2>2 DEF NoneLeft
  <2> QED BY <2>1, <2>2 DEF StartApp
<1>5. pc' = pc + 1 /\ (verdict' = "running" => pc # Len(Script(scenario)))
  BY DEF StartApp, Advance
<1>6. pc' - 1 = pc /\ pc' # 1 /\ (verdict' = "running" => pc' \in 1..Len(Script(scenario)))
  BY <1>1, <1>2, <1>5
<1>7. ~HasJust("stop")' /\ ~HasJust("stopped")'
  BY <1>1, <1>2, <1>6 DEF HasJust
<1> QED BY <1>1, <1>4, <1>6, <1>7 DEF NoneLeft

LEMMA StopStep ==
  ASSUME Here, StopApp
  PROVE  NoneLeft'
<1>1. NoneLeft /\ scenario' = scenario /\ Len(Script(scenario)) \in Nat
  BY HereScript
<1>2. pc \in 1..Len(Script(scenario)) /\ Script(scenario)[pc].op = "stop"
  BY <1>1 DEF NoneLeft, StopApp, AtStep, Spot
<1>3. /\ web' = [rev |-> web.rev, runs |-> web.runs, want |-> 0, up |-> web.up] /\ old' = old
  BY <1>1 DEF NoneLeft, StopApp
<1>4. pc' = pc + 1 /\ (verdict' = "running" => pc # Len(Script(scenario)))
  BY DEF StopApp, Advance
<1>5. pc' - 1 = pc /\ pc' # 1 /\ (verdict' = "running" => pc' \in 1..Len(Script(scenario)))
  BY <1>1, <1>2, <1>4
<1>6. ~HasJust("stopped")'
  BY <1>1, <1>2, <1>5 DEF HasJust
<1> QED BY <1>1, <1>3, <1>5, <1>6 DEF NoneLeft

LEMMA WaitStep ==
  ASSUME Here, Wait
  PROVE  NoneLeft'
<1>1. /\ NoneLeft /\ scenario' = scenario /\ Len(Script(scenario)) \in Nat
      /\ Orderly(Script(scenario))
  BY HereScript
<1>2. /\ UNCHANGED <<web, old>> /\ verdict = "running" /\ Advance
      /\ Spot.op \in {"stopped", "allUp", "deployed"}
  BY DEF Wait, AtStep, Waits, platform
<1>3. CASE Spot.op # "stopped"
  BY <1>2, <1>3, KeepsInstances
<1>4. CASE Spot.op = "stopped"
  <2>1. pc \in 1..Len(Script(scenario)) /\ Script(scenario)[pc].op = "stopped"
    BY <1>1, <1>2, <1>4 DEF NoneLeft, Spot
  <2>2. HasJust("stop")
    BY <1>1, <1>2, <2>1 DEF Orderly, HasJust
  <2>3. web.want = 0
    BY <1>1, <2>2 DEF NoneLeft
  <2>4. Running = 0
    BY <1>4 DEF Wait, Awaited
  <2>5. web.up = 0
    BY <1>1, <2>4 DEF NoneLeft, Running
  <2>6. pc' = pc + 1 /\ (verdict' = "running" => pc # Len(Script(scenario)))
    BY <1>2 DEF Advance
  <2>7. pc' - 1 = pc /\ pc' # 1 /\ (verdict' = "running" => pc' \in 1..Len(Script(scenario)))
    BY <1>1, <2>1, <2>6
  <2>8. ~HasJust("stop")'
    BY <1>1, <2>1, <2>7 DEF HasJust
  <2> QED BY <1>1, <1>2, <2>3, <2>5, <2>7, <2>8 DEF NoneLeft
<1> QED BY <1>3, <1>4

\* None of these is in a script that stops and starts.
LEMMA NoOtherRestart ==
  ASSUME Here
  PROVE  ~RestartApp /\ ~CreateDeployment /\ ~RollbackDeployment
<1>1. /\ NoneLeft /\ Orderly(Script(scenario))
  BY HereScript
<1>2. verdict = "running" => Spot.op \notin {"restart", "deploy", "rollback"}
  BY <1>1 DEF NoneLeft, Orderly, Spot
<1> QED BY <1>2 DEF RestartApp, CreateDeployment, RollbackDeployment, AtStep

LEMMA DriverStep ==
  ASSUME Here, Driver
  PROVE  NoneLeft'
<1>1. CASE StartApp
  BY <1>1, StartStep
<1>2. CASE StopApp
  BY <1>2, StopStep
<1>3. CASE RestartApp \/ CreateDeployment \/ RollbackDeployment
  BY <1>3, NoOtherRestart
<1>4. CASE Change
  <2>1. /\ UNCHANGED <<web, old>> /\ verdict = "running" /\ Advance
        /\ Spot.op \in {"droplet", "env", "command", "sidecar"}
    BY <1>4 DEF Change, CreateAndAssociateNewDroplet, UpdateEnvironmentVariables,
                SetCommandOnProcess, CreateSidecar, Alter, AtStep
  <2> QED BY <2>1, KeepsInstances
<1>5. CASE Wait
  BY <1>5, WaitStep
<1>6. CASE Timeout
  <2>1. UNCHANGED <<web, old, scenario>> /\ Fail
    BY <1>6 DEF Timeout, platform, chosen
  <2> QED BY <2>1, HereScript DEF NoneLeft, HasJust, Fail
<1>7. CASE Reads
  <2>1. UNCHANGED <<web, old>>
    BY <1>7 DEF Reads, platform
  <2>2. /\ verdict = "running" /\ (Advance \/ Fail)
        /\ Spot.op \in {"noteRevisions", "noteProcess", "same", "longer", "kept", "commandKept"}
    BY <1>7 DEF Reads, NoteRevisions, NoteProcess, Count, Keep, AtStep, Verdict
  <2> QED BY <2>1, <2>2, KeepsInstances
<1>8. CASE Inspect
  <2>1. UNCHANGED <<web, old>> /\ verdict = "running" /\ (Advance \/ Fail)
    BY <1>8 DEF Inspect, platform, AtStep, Verdict
  <2>2. Spot.op \in {"records", "isNew", "linked", "originalEnv"}
    BY <1>8 DEF Inspect, AtStep
  <2> QED BY <2>1, <2>2, KeepsInstances
<1>9. CASE Curl
  <2>1. UNCHANGED <<web, old>> /\ verdict = "running" /\ Spot.op = "serves"
    BY <1>9 DEF Curl, platform, AtStep
  <2>2. Advance \/ Fail
    BY <1>9 DEF Curl, Verdict
  <2> QED BY <2>1, <2>2, KeepsInstances
<1> QED BY <1>1, <1>2, <1>3, <1>4, <1>5, <1>6, <1>7, <1>8, <1>9 DEF Driver

LEMMA NextInv == IInv /\ [Next]_vars => IInv'
<1> SUFFICES ASSUME IInv, [Next]_vars PROVE IInv'
  OBVIOUS
<1>1. UNCHANGED chosen
  <2>1. CASE Platform
    BY <2>1 DEF Platform
  <2>2. CASE Driver
    <3>1. CASE StartApp \/ StopApp \/ RestartApp \/ CreateDeployment \/ RollbackDeployment
      BY <3>1 DEF StartApp, StopApp, RestartApp, CreateDeployment, RollbackDeployment
    <3>2. CASE Change
      BY <3>2 DEF Change, CreateAndAssociateNewDroplet, UpdateEnvironmentVariables,
                  SetCommandOnProcess, CreateSidecar, Alter
    <3>3. CASE Wait \/ Timeout \/ Reads \/ Inspect \/ Curl
      BY <3>3 DEF Wait, Timeout, Reads, Inspect, Curl
    <3> QED BY <2>2, <3>1, <3>2, <3>3 DEF Driver
  <2>3. CASE Hiccup
    BY <2>3 DEF Hiccup
  <2>4. CASE UNCHANGED vars
    BY <2>4 DEF vars
  <2> QED BY <2>1, <2>2, <2>3, <2>4 DEF Next
<1>2. scenario' = scenario /\ scenario' \in Scenarios
  BY <1>1 DEF IInv, chosen
<1>3. ASSUME scenario.how = "stopStart" PROVE NoneLeft'
  <2>1. Here
    BY <1>1, <1>3 DEF Here
  <2>2. CASE Platform
    BY <2>1, <2>2, PlatformStep
  <2>3. CASE Driver
    BY <2>1, <2>3, DriverStep
  <2>4. CASE Hiccup
    <3>1. UNCHANGED <<web, old, scenario>> /\ Fail
      BY <2>4 DEF Hiccup, platform, chosen
    <3> QED BY <2>1, <3>1, HereScript DEF NoneLeft, HasJust, Fail
  <2>5. CASE UNCHANGED vars
    <3>1. UNCHANGED <<web, old, scenario, pc, verdict>>
      BY <2>5 DEF vars, platform, chosen, driver
    <3> QED BY <2>1, <3>1, HereScript DEF NoneLeft, HasJust
  <2> QED BY <2>2, <2>3, <2>4, <2>5 DEF Next
<1> QED BY <1>2, <1>3 DEF IInv

\* The invariant holds in every state.
THEOREM Invariant == Spec => []IInv
BY InitInv, NextInv, PTL DEF Spec

\* A spec that stops and starts its app never has an instance of before answer for
\* the new ones (WaitForAppToStop, app.go:22, between V3_1's stop and start), however
\* many instances there are and whatever the platform breaks.
THEOREM StoppedIsGone == Spec => []OnlyNewServes
<1>1. IInv => OnlyNewServes
  BY DEF IInv, NoneLeft, OnlyNewServes
<1> QED BY <1>1, Invariant, PTL

-----------------------------------------------------------------------------
(* A broken promise is noticed.                                               *)

\* Rolling back is the way that undoes the changes.
Back == scenario.how = "rollback"

\* What the app and its revisions are before the start the spec is about.
StageInv ==
  /\ pc = 1 => revs = <<>> /\ app = {} /\ web.want = 0 /\ web.runs = {} /\ old.runs = {}
  /\ pc > 1 /\ pc <= Base(scenario) =>
       revs = <<{}>> /\ web.rev = 1 /\ web.runs = {} /\ old.runs = {}
  /\ pc > Base(scenario) /\ pc <= Deed(scenario) =>
       /\ revs = <<{}, scenario.change>> /\ web.rev = 2
       /\ web.runs = scenario.change /\ old.runs = {}

\* The changes are made one by one.
AppInv ==
  pc <= Base(scenario) =>
    /\ app \subseteq scenario.change
    /\ \A i \in 6..Len(Lead(scenario.change)) : i < pc => Lead(scenario.change)[i].op \in app

\* BeforeEach noted the first revision, but for what a failed read left out.
NotedInv ==
  /\ pc > 4 => noted.revs \in {<<{}>>, <<>>}
  /\ pc > 5 => noted.guid \in {0, 1}

\* What the promise broken leaves behind.
Aftermath ==
  /\ fault.kind \in {"spurious", "startsAnew"} => Len(revs) = 2 /\ web.rev = 2
  /\ fault.kind = "missed" => Len(revs) = 1 /\ revs[1] = {}
  /\ fault.kind = "reuses" => Len(revs) = 2 /\ revs[2] = scenario.change
  /\ fault.kind = "unlinked" => web.rev # Len(revs)
  /\ fault.kind = "records" => (fault.a \in revs[Len(revs)] <=> Back)
  /\ fault.kind = "runs" => (fault.a \in web.runs <=> Back) /\ (fault.a \in old.runs <=> Back)
  /\ fault.kind = "neverDeploys" => deploying

AfterInv == pc > Deed(scenario) => Aftermath

\* The checks that fail then.
Refuted(st) ==
  \/ fault.kind \in {"spurious", "startsAnew"} /\ st = Does("same") /\ noted.revs = <<{}>>
  \/ fault.kind \in {"spurious", "startsAnew"} /\ st = Does("kept") /\ noted.guid = 1
  \/ fault.kind = "missed" /\ st = Longer(1) /\ noted.revs = <<{}>>
  \/ fault.kind = "missed" /\ st = Does("isNew") /\ noted.guid = 1
  \/ fault.kind = "missed" /\ st = Records("sidecar", TRUE)
  \/ fault.kind = "reuses" /\ st = Records("command", FALSE)
  \/ fault.kind = "unlinked" /\ st = Does("linked")
  \/ fault.kind = "records" /\ ~Back /\ st = Records(fault.a, TRUE)
  \/ fault.kind = "records" /\ Back /\ st = Records(fault.a, FALSE)
  \/ fault.kind = "runs" /\ ~Back /\ st = Serves(fault.a, TRUE)
  \/ fault.kind = "runs" /\ Back /\ st = Serves(fault.a, FALSE)
  \/ fault.kind = "neverDeploys" /\ st = Does("deployed")

\* No spec comes past one of them.
StuckInv ==
  \A k \in (Deed(scenario) + 1)..Len(Script(scenario)) :
    Refuted(Script(scenario)[k]) => pc <= k

\* Instances that never stop keep a spec that stops and starts from starting again.
UpInv == fault.kind = "neverStops" => pc < Third(scenario) /\ (pc > 2 => web.up = Instances)

PassInv == verdict = "passed" => pc = Len(Script(scenario)) + 1

SInv == StageInv /\ AppInv /\ NotedInv /\ AfterInv /\ StuckInv /\ UpInv /\ PassInv

\* The specs of the code.
AsWritten == Scenarios \subseteq Specs

FInv == TInv /\ IInv /\ SInv

LEMMA KindsOfSpecs ==
  ASSUME NEW s \in Specs
  PROVE  /\ s.how \in Hows /\ s.change \in SUBSET Aspects
         /\ s.how \in {"restart", "deploy"} =>
              s.change \in {{}, {"env"}, {"command"}, {"droplet"}}
         /\ s.how = "stopStart" =>
              s.change \in {{}, {"env"}, {"command"}, {"droplet"}, {"sidecar"}}
         /\ s.how \in {"start", "rollback"} => s.change # {}
         /\ s.how = "rollback" =>
              /\ s.change \in {{"droplet", "env", "command"}, {"env", "command"}}
              /\ "command" \in s.change /\ "env" \in s.change /\ "sidecar" \notin s.change
<1>1. CASE s \in [how : {"stopStart", "restart", "deploy"},
                  change : {{}, {"env"}, {"command"}, {"droplet"}}]
  BY <1>1 DEF Hows, Aspects
<1>2. CASE s \in [how : {"stopStart"}, change : {{"sidecar"}}]
  BY <1>2 DEF Hows, Aspects
<1>3. CASE s \in [how : {"start"}, change : {{"droplet"}, {"command"}}]
  BY <1>3 DEF Hows, Aspects
<1>4. CASE s \in [how : {"rollback"}, change : {{"droplet", "env", "command"}, {"env", "command"}}]
  BY <1>4 DEF Hows, Aspects
<1> QED BY <1>1, <1>2, <1>3, <1>4 DEF Specs

\* The kinds of promise a platform can break, spec by spec.
LEMMA KindsOfFaults ==
  ASSUME NEW s \in Specs, NEW f \in Broken(s)
  PROVE  /\ s.how = "start" => f.kind = "startsAnew"
         /\ s.how = "rollback" =>
              \/ f.kind \in {"reuses", "unlinked"}
              \/ (f.kind \in {"records", "runs"} /\ f.a \in s.change)
         /\ (s.how \in {"stopStart", "restart", "deploy"} /\ s.change = {}) => f.kind = "spurious"
         /\ (s.how \in {"stopStart", "restart", "deploy"} /\ s.change # {}) =>
              \/ f.kind \in {"missed", "unlinked"}
              \/ (f.kind \in {"records", "runs"} /\ f.a \in s.change)
              \/ (f.kind = "neverStops" /\ s.how = "stopStart")
              \/ (f.kind = "neverDeploys" /\ s.how = "deploy")
<1>0. \A kinds, as : \A g \in Of(kinds, as) : (g.kind \in kinds) /\ (g.a \in as)
  BY DEF Of
<1>1. CASE s.how = "start"
  <2>1. f \in Of({"startsAnew"}, {"env"})
    BY <1>1, KindsOfSpecs DEF Broken
  <2>2. f.kind \in {"startsAnew"}
    BY <1>0, <2>1, Zenon
  <2> QED BY <1>1, <2>2
<1>2. CASE s.how = "rollback"
  <2>1. f \in Of({"reuses", "unlinked"}, {"env"}) \/ f \in Of({"records", "runs"}, s.change)
    BY <1>2, KindsOfSpecs DEF Broken
  <2>2. \/ f.kind \in {"reuses", "unlinked"}
        \/ (f.kind \in {"records", "runs"} /\ f.a \in s.change)
    BY <1>0, <2>1, Zenon
  <2> QED BY <1>2, <2>2
<1>3. CASE s.how \in {"stopStart", "restart", "deploy"} /\ s.change = {}
  <2>1. f \in Of({"spurious"}, {"env"})
    BY <1>3, KindsOfSpecs DEF Broken
  <2>2. f.kind \in {"spurious"}
    BY <1>0, <2>1, Zenon
  <2> QED BY <1>3, <2>2
<1>4. CASE s.how \in {"stopStart", "restart", "deploy"} /\ s.change # {}
  <2>1. \/ f \in Of({"missed", "unlinked"}, {"env"}) \/ f \in Of({"records", "runs"}, s.change)
        \/ f \in Of({"neverStops"}, {a \in {"env"} : s.how = "stopStart"})
        \/ f \in Of({"neverDeploys"}, {a \in {"env"} : s.how = "deploy"})
    BY <1>4 DEF Broken
  <2>2. \/ f.kind \in {"missed", "unlinked"}
        \/ (f.kind \in {"records", "runs"} /\ f.a \in s.change)
        \/ (f.kind \in {"neverStops"} /\ f.a \in {a \in {"env"} : s.how = "stopStart"})
        \/ (f.kind \in {"neverDeploys"} /\ f.a \in {a \in {"env"} : s.how = "deploy"})
    BY <1>0, <2>1, Zenon
  <2> QED BY <1>4, <2>2
<1>5. s.how \in Hows
  BY KindsOfSpecs
<1> QED BY <1>1, <1>2, <1>3, <1>4, <1>5 DEF Hows

\* A check the script makes after the start the spec is about.
Checks(s, st) == \E k \in (Deed(s) + 1)..Len(Script(s)) : Script(s)[k] = st

LEMMA LooksChecked ==
  ASSUME NEW s \in Specs, s.how # "rollback", NEW st, Has(Looking(s), st)
  PROVE  Checks(s, st)
<1>1. PICK i \in 1..Len(Looking(s)) : Looking(s)[i] = st
  BY DEF Has
<1>2. \E k \in (Deed(s) + 1)..Len(Script(s)) : Script(s)[k] = Looking(s)[i]
  BY KindsOfSpecs, Places, ZenonT(40)
<1> QED BY <1>1, <1>2, Zenon DEF Checks

LEMMA SpecChecks ==
  ASSUME NEW s \in Specs
  PROVE  /\ s.how = "start" => Checks(s, Does("same")) /\ Checks(s, Does("kept"))
         /\ s.how = "deploy" => Checks(s, Does("deployed"))
         /\ s.how = "rollback" =>
              /\ Checks(s, Records("droplet", FALSE)) /\ Checks(s, Records("command", FALSE))
              /\ Checks(s, Does("linked")) /\ Checks(s, Serves("droplet", FALSE))
              /\ Checks(s, Serves("env", FALSE))
         /\ s.how \in {"stopStart", "restart", "deploy"} /\ s.change = {} =>
              Checks(s, Does("same")) /\ Checks(s, Does("kept"))
         /\ s.how = "stopStart" /\ s.change = {"sidecar"} => Checks(s, Records("sidecar", TRUE))
         /\ s.how \in {"stopStart", "restart", "deploy"} /\ s.change \notin {{}, {"sidecar"}} =>
              /\ Checks(s, Longer(1)) /\ Checks(s, Does("isNew")) /\ Checks(s, Does("linked"))
              /\ \A a \in s.change : /\ a # "env" => Checks(s, Records(a, TRUE))
                                     /\ Checks(s, Serves(a, TRUE))
<1>1. s.how \in Hows /\ s.change \in SUBSET Aspects
  BY KindsOfSpecs
<1>2. ASSUME s.how \in {"start", "deploy"}
      PROVE  /\ s.how = "start" => Checks(s, Does("same"))
             /\ s.how = "deploy" => Checks(s, Does("deployed"))
  <2>1. Deed(s) = Second(s) /\ Second(s) \in Nat
    BY <1>1, <1>2, Positions
  <2>2. Len(Script(s)) \in Nat /\ Second(s) + 1 <= Len(Script(s))
    BY <1>1, <1>2, Places
  <2>3. Second(s) + 1 \in (Deed(s) + 1)..Len(Script(s))
    BY <2>1, <2>2
  <2>4. /\ s.how = "start" => Script(s)[Second(s) + 1] = Does("same")
        /\ s.how = "deploy" => Script(s)[Second(s) + 1] = Does("deployed")
    BY <1>1, Places
  <2> QED BY <2>3, <2>4, Zenon DEF Checks
<1>3. ASSUME s.how = "rollback"
      PROVE  /\ Checks(s, Records("droplet", FALSE)) /\ Checks(s, Records("command", FALSE))
             /\ Checks(s, Does("linked")) /\ Checks(s, Serves("droplet", FALSE))
             /\ Checks(s, Serves("env", FALSE))
  <2>1. Deed(s) = Third(s) /\ Third(s) \in Nat
    BY <1>1, <1>3, Positions
  <2>2. /\ Len(Script(s)) \in Nat
        /\ \A i \in 3..11 : /\ Third(s) + (i - 2) <= Len(Script(s))
                            /\ Script(s)[Third(s) + (i - 2)] = Returning(s.change)[i]
    BY <1>1, <1>3, Places
  <2>3. ASSUME NEW i \in 3..11 PROVE Checks(s, Returning(s.change)[i])
    <3> DEFINE d == Third(s)
               l == Len(Script(s))
    <3>1. Third(s) + (i - 2) \in (Deed(s) + 1)..Len(Script(s))
      <4>1. d \in Nat /\ l \in Nat /\ Deed(s) = d /\ d + (i - 2) <= l
        BY <2>1, <2>2
      <4> HIDE DEF d, l
      <4>2. d + (i - 2) \in (d + 1)..l
        BY <4>1
      <4> QED BY <4>1, <4>2 DEF d, l
    <3>2. Script(s)[Third(s) + (i - 2)] = Returning(s.change)[i]
      BY <2>2
    <3> QED BY <3>1, <3>2, Zenon DEF Checks
  <2>4. 5 \in 3..11 /\ 8 \in 3..11 /\ 9 \in 3..11 /\ 10 \in 3..11 /\ 11 \in 3..11
    OBVIOUS
  <2>5. /\ Returning(s.change)[5] = Records("droplet", FALSE)
        /\ Returning(s.change)[8] = Records("command", FALSE)
        /\ Returning(s.change)[9] = Does("linked")
        /\ Returning(s.change)[10] = Serves("droplet", FALSE)
        /\ Returning(s.change)[11] = Serves("env", FALSE)
    BY <1>1, ReturningSteps, Zenon
  <2> QED BY <2>3, <2>4, <2>5, Zenon
<1>4. ASSUME s.how \in {"stopStart", "restart", "deploy"}, s.change # {"sidecar"}
      PROVE  \E w \in BOOLEAN : Looking(s) = Checked(s.change, w)
  <2>1. CASE s.how = "stopStart"
    <3>1. Looking(s) = Checked(s.change, TRUE)
      BY <1>4, <2>1 DEF Looking, Afterwards
    <3> QED BY <3>1, Zenon
  <2>2. CASE s.how = "restart"
    <3>1. Looking(s) = Checked(s.change, TRUE)
      BY <2>2 DEF Looking
    <3> QED BY <3>1, Zenon
  <2>3. CASE s.how = "deploy"
    <3>1. Looking(s) = Checked(s.change, s.change = {"command"})
      BY <2>3 DEF Looking
    <3>2. (s.change = {"command"}) \in BOOLEAN
      OBVIOUS
    <3> QED BY <3>1, <3>2, Zenon
  <2> QED BY <1>4, <2>1, <2>2, <2>3
<1>5. ASSUME s.how \in {"stopStart", "restart", "deploy"}, s.change = {}
      PROVE  Checks(s, Does("same")) /\ Checks(s, Does("kept"))
  <2>1. s.change # {"sidecar"} /\ s.how # "rollback"
    BY <1>5
  <2>2. PICK w \in BOOLEAN : Looking(s) = Checked(s.change, w)
    BY <1>4, <1>5, <2>1, Zenon
  <2>3. Has(Looking(s), Does("same")) /\ Has(Looking(s), Does("kept"))
    BY <1>5, <2>2, UnchangedHas, Zenon
  <2> QED BY <2>1, <2>3, LooksChecked, Zenon
<1>6. ASSUME s.how = "stopStart", s.change = {"sidecar"}
      PROVE  Checks(s, Records("sidecar", TRUE))
  <2>1. Looking(s) = Afterwards({"sidecar"}) /\ s.how # "rollback"
    BY <1>6 DEF Looking
  <2> QED BY <2>1, SidecarHas, LooksChecked, Zenon
<1>7. ASSUME s.how \in {"stopStart", "restart", "deploy"}, s.change \notin {{}, {"sidecar"}}
      PROVE  /\ Checks(s, Longer(1)) /\ Checks(s, Does("isNew")) /\ Checks(s, Does("linked"))
             /\ \A a \in s.change : /\ a # "env" => Checks(s, Records(a, TRUE))
                                    /\ Checks(s, Serves(a, TRUE))
  <2>1. /\ s.change # {"sidecar"} /\ s.how # "rollback"
        /\ s.change \in {{"env"}, {"command"}, {"droplet"}}
    BY <1>7, KindsOfSpecs
  <2>2. PICK w \in BOOLEAN : Looking(s) = Checked(s.change, w)
    BY <1>4, <1>7, <2>1, Zenon
  <2>3. /\ Has(Looking(s), Longer(1)) /\ Has(Looking(s), Does("isNew"))
        /\ Has(Looking(s), Does("linked"))
        /\ \A a \in s.change : /\ a # "env" => Has(Looking(s), Records(a, TRUE))
                               /\ Has(Looking(s), Serves(a, TRUE))
    BY <2>1, <2>2, ChangedHas, Zenon
  <2> QED BY <2>1, <2>3, LooksChecked, Zenon
<1>8. ASSUME s.how = "start" PROVE Checks(s, Does("kept"))
  <2>1. Looking(s) = StartedChecks(s.change) /\ s.how # "rollback"
    BY <1>8 DEF Looking
  <2>2. Has(StartedChecks(s.change), Does("kept"))
    BY <1>1, StartedHas
  <2> QED BY <2>1, <2>2, LooksChecked, Zenon
<1> QED BY <1>2, <1>3, <1>5, <1>6, <1>7, <1>8, Zenon

\* Every broken promise a spec could see has a check that it fails.
LEMMA SomeCheckFails ==
  ASSUME scenario \in Specs, fault \in Broken(scenario), fault \notin Unseen(scenario),
         fault.kind # "neverStops",
         \/ noted.revs = <<{}>> \/ noted.guid = 1
         \/ fault.kind \notin {"missed", "spurious", "startsAnew"}
  PROVE  \E k \in (Deed(scenario) + 1)..Len(Script(scenario)) : Refuted(Script(scenario)[k])
<1> SUFFICES \E st : Checks(scenario, st) /\ Refuted(st)
  BY Zenon DEF Checks
<1> DEFINE s == scenario
           c == scenario.change
<1>0. \A kinds, as, k, a : fault.kind \in kinds /\ fault.a \in as => fault \in Of(kinds, as)
  <2>1. fault = [kind |-> fault.kind, a |-> fault.a]
    <3>1. PICK kinds, as : fault \in Of(kinds, as)
      BY Zenon DEF Broken
    <3> QED BY <3>1 DEF Of
  <2> QED BY <2>1 DEF Of
<1>1. CASE s.how = "start"
  <2>1. fault.kind = "startsAnew" /\ Checks(s, Does("same")) /\ Checks(s, Does("kept"))
    BY <1>1, KindsOfFaults, SpecChecks, Zenon
  <2> QED BY <2>1 DEF Refuted
<1>2. CASE s.how = "rollback"
  <2>1. /\ Checks(s, Records("droplet", FALSE)) /\ Checks(s, Records("command", FALSE))
        /\ Checks(s, Does("linked")) /\ Checks(s, Serves("droplet", FALSE))
        /\ Checks(s, Serves("env", FALSE))
    BY <1>2, SpecChecks, Zenon
  <2>2. Back
    BY <1>2 DEF Back
  <2>3. \/ fault.kind \in {"reuses", "unlinked"}
        \/ fault.kind \in {"records", "runs"} /\ fault.a \in c
    BY <1>2, KindsOfFaults
  <2>4. fault.a \in c => fault.a \in {"droplet", "env", "command"}
    BY <1>2, KindsOfSpecs
  <2>5. CASE fault.kind = "reuses"
    BY <2>1, <2>5, Zenon DEF Refuted
  <2>6. CASE fault.kind = "unlinked"
    BY <2>1, <2>6, Zenon DEF Refuted
  <2>7. CASE fault.kind = "records" /\ fault.a \in {"droplet", "command"}
    <3>1. Checks(s, Records(fault.a, FALSE))
      BY <2>1, <2>7
    <3> QED BY <2>2, <2>7, <3>1, Zenon DEF Refuted
  <2>8. CASE fault.kind = "runs" /\ fault.a \in {"droplet", "env"}
    <3>1. Checks(s, Serves(fault.a, FALSE))
      BY <2>1, <2>8
    <3> QED BY <2>2, <2>8, <3>1, Zenon DEF Refuted
  <2>9. ~(fault.kind = "records" /\ fault.a = "env")
    <3>1. "env" \in c
      BY <1>2, KindsOfSpecs
    <3>2. fault.kind = "records" /\ fault.a = "env" => fault \in Of({"records"}, {"env"})
      BY <1>0
    <3>3. fault \notin Of({"records"}, {"env"})
      BY <3>1, Zenon DEF Unseen
    <3> QED BY <3>2, <3>3
  <2>10. ~(fault.kind = "runs" /\ fault.a = "command")
    <3>1. fault.kind = "runs" /\ fault.a = "command" => fault \in Of({"runs"}, {"command"})
      BY <1>0
    <3>2. fault \notin Of({"runs"}, {"command"})
      BY <1>2, Zenon DEF Unseen
    <3> QED BY <3>1, <3>2
  <2> QED BY <2>3, <2>4, <2>5, <2>6, <2>7, <2>8, <2>9, <2>10
<1>3. CASE s.how \in {"stopStart", "restart", "deploy"} /\ c = {}
  <2>1. fault.kind = "spurious" /\ Checks(s, Does("same")) /\ Checks(s, Does("kept"))
    BY <1>3, KindsOfFaults, SpecChecks, Zenon
  <2> QED BY <2>1 DEF Refuted
<1>4. CASE s.how \in {"stopStart", "restart", "deploy"} /\ c = {"sidecar"}
  <2>1. s.how = "stopStart" /\ c # {}
    BY <1>4, KindsOfSpecs
  <2>2. Checks(s, Records("sidecar", TRUE))
    BY <1>4, <2>1, SpecChecks, Zenon
  <2>3. \/ fault.kind \in {"missed", "unlinked"}
        \/ fault.kind \in {"records", "runs"} /\ fault.a \in c
    BY <1>4, <2>1, KindsOfFaults
  <2>4. fault \notin Of({"unlinked", "runs"}, Aspects)
    BY <1>4, Zenon DEF Unseen
  <2>5. fault.a \in Aspects
    <3>1. \A g \in Broken(s) : g.a \in Aspects
      <4>1. c \in SUBSET Aspects /\ "env" \in Aspects
        BY KindsOfSpecs DEF Aspects
      <4> QED BY <2>1, <4>1 DEF Broken, Of
    <3> QED BY <3>1
  <2>6. fault.kind \notin {"unlinked", "runs"}
    BY <1>0, <2>4, <2>5, Zenon
  <2>7. ~Back
    BY <2>1 DEF Back
  <2>8. CASE fault.kind = "missed"
    BY <2>2, <2>8, Zenon DEF Refuted
  <2>9. CASE fault.kind = "records" /\ fault.a \in c
    <3>1. fault.a = "sidecar"
      BY <1>4, <2>9
    <3> QED BY <2>2, <2>7, <2>9, <3>1, Zenon DEF Refuted
  <2> QED BY <2>3, <2>6, <2>8, <2>9
<1>5. CASE s.how \in {"stopStart", "restart", "deploy"} /\ c \notin {{}, {"sidecar"}}
  <2>1. /\ Checks(s, Longer(1)) /\ Checks(s, Does("isNew")) /\ Checks(s, Does("linked"))
        /\ \A a \in c : /\ a # "env" => Checks(s, Records(a, TRUE))
                        /\ Checks(s, Serves(a, TRUE))
    BY <1>5, SpecChecks, Zenon
  <2>2. ~Back
    BY <1>5 DEF Back
  <2>3. c # {}
    BY <1>5
  <2>4. \/ fault.kind \in {"missed", "unlinked"}
        \/ fault.kind \in {"records", "runs"} /\ fault.a \in c
        \/ fault.kind = "neverDeploys" /\ s.how = "deploy"
    BY <1>5, <2>3, KindsOfFaults
  <2>5. CASE fault.kind = "missed"
    BY <2>1, <2>5, Zenon DEF Refuted
  <2>6. CASE fault.kind = "unlinked"
    BY <2>1, <2>6, Zenon DEF Refuted
  <2>7. CASE fault.kind = "records" /\ fault.a \in c
    <3>1. fault.a # "env"
      <4>1. fault.a = "env" => fault \in Of({"records"}, {"env"})
        BY <1>0, <2>7
      <4>2. "env" \in c => fault \notin Of({"records"}, {"env"})
        BY Zenon DEF Unseen
      <4> QED BY <2>7, <4>1, <4>2
    <3>2. Checks(s, Records(fault.a, TRUE))
      BY <2>1, <2>7, <3>1, Zenon
    <3> QED BY <2>2, <2>7, <3>2, Zenon DEF Refuted
  <2>8. CASE fault.kind = "runs" /\ fault.a \in c
    <3>1. Checks(s, Serves(fault.a, TRUE))
      BY <2>1, <2>8, Zenon
    <3> QED BY <2>2, <2>8, <3>1, Zenon DEF Refuted
  <2>9. CASE fault.kind = "neverDeploys" /\ s.how = "deploy"
    <3>1. Checks(s, Does("deployed"))
      BY <2>9, SpecChecks, Zenon
    <3> QED BY <2>9, <3>1, Zenon DEF Refuted
  <2> QED BY <2>4, <2>5, <2>6, <2>7, <2>8, <2>9
<1> QED BY <1>1, <1>2, <1>3, <1>4, <1>5, KindsOfSpecs DEF Hows

LEMMA PreludeOps ==
  /\ Prelude[1].op = "start" /\ Prelude[2].op = "allUp" /\ Prelude[3].op = "serves"
  /\ Prelude[4].op = "noteRevisions" /\ Prelude[5].op = "noteProcess"
<1>1. (\A op : Does(op).op = op) /\ Serves("droplet", FALSE).op = "serves"
  BY DEF Does, Serves
<1> QED BY <1>1, PreludeSteps, Zenon

\* A script starts its app with its first step, and where its spec says.
LEMMA StartPlaces ==
  ASSUME NEW s, s.how \in Hows, s.change \in SUBSET Aspects
  PROVE  /\ Script(s)[1].op = "start" /\ Script(s)[Base(s)].op \in Launching
         /\ Script(s)[Deed(s)].op \in Launching
         /\ \A k \in 1..Len(Script(s)) :
              Script(s)[k].op \in Launching =>
                \/ k = 1 /\ Script(s)[k].op = "start"
                \/ k = Base(s) /\ s.how # "rollback" /\ Script(s)[k].op \in {"start", "restart", "deploy"}
                \/ k = Base(s) /\ s.how = "rollback" /\ Script(s)[k].op = "deploy"
                \/ k = Deed(s) /\ s.how = "rollback" /\ Script(s)[k].op = "rollback"
         /\ s.how = "stopStart" => Script(s)[Deed(s)].op = "start"
         /\ s.how = "restart" => Script(s)[Deed(s)].op = "restart"
         /\ s.how = "start" => Script(s)[Deed(s)].op = "start"
         /\ s.how = "deploy" => Script(s)[Deed(s)].op = "deploy"
<1> DEFINE f == Len(Lead(s.change))
           r == Len(Restarting(s))
           l == Len(Looking(s))
           q == Script(s)
<1>1. /\ Len(q) = f + r + l
      /\ f \in Nat /\ f >= 5 /\ r \in 1..3 /\ l \in Nat
      /\ \A i \in 1..f : q[i] = Lead(s.change)[i]
      /\ \A i \in 1..r : q[f + i] = Restarting(s)[i]
      /\ \A i \in 1..l : q[f + r + i] = Looking(s)[i]
  BY ScriptParts, Zenon
<1>2. /\ Second(s) = f + 1 /\ Third(s) = f + IF s.how = "rollback" THEN 4 ELSE 3
      /\ s.how = "stopStart" => Base(s) = Third(s) /\ Deed(s) = Third(s)
      /\ s.how = "rollback" => Base(s) = Second(s) /\ Deed(s) = Third(s)
      /\ s.how \in {"restart", "start", "deploy"} => Base(s) = Second(s) /\ Deed(s) = Second(s)
  BY Positions
<1>3. /\ s.how = "stopStart" => r = 3
      /\ s.how = "restart" => r = 1
      /\ s.how \in {"start", "deploy", "rollback"} => r = 2
  BY RestartingSteps
<1>4. s.how = "rollback" =>
        /\ l = 11 /\ Looking(s)[2].op = "rollback"
        /\ \A i \in 1..11 : i # 2 => Looking(s)[i] \in Calm
  <2>1. Does("rollback").op = "rollback"
    BY DEF Does
  <2>2. s.how = "rollback" => Looking(s) = Returning(s.change)
    BY DEF Looking
  <2> QED BY <2>1, <2>2, ReturningSteps, Zenon
<1>5. /\ \A i \in 1..5 : Lead(s.change)[i] = Prelude[i]
      /\ \A i \in 6..f : Lead(s.change)[i] \in Calm
  BY LeadSteps
<1>6. s.how # "rollback" => \A i \in 1..l : Looking(s)[i] \in Calm
  <2>1. s.how # "rollback" => Looking(s) \in Seq(Calm)
    BY LookingSteps
  <2> QED BY <2>1
<1>7. q[1].op = "start" /\ \A i \in 2..5 : q[i].op \notin Launching
  <2> HIDE DEF f, r, l, q
  <2>1. \A i \in 1..5 : q[i] = Prelude[i]
    BY <1>1, <1>5 DEF f
  <2>2. /\ q[1].op = "start" /\ q[2].op = "allUp" /\ q[3].op = "serves"
        /\ q[4].op = "noteRevisions" /\ q[5].op = "noteProcess"
    BY <2>1, PreludeOps
  <2> QED BY <2>2 DEF Launching
<1>8. \A i \in 6..f : q[i].op \notin Launching
  BY <1>1, <1>5, CalmOp DEF Launching
<1>9. /\ s.how = "stopStart" =>
            q[f + 1].op = "stop" /\ q[f + 2].op = "stopped" /\ q[f + 3].op = "start"
      /\ s.how = "restart" => q[f + 1].op = "restart"
      /\ s.how = "start" => q[f + 1].op = "start" /\ q[f + 2].op = "same"
      /\ s.how \in {"deploy", "rollback"} => q[f + 1].op = "deploy" /\ q[f + 2].op = "deployed"
  <2>1. \A op : Does(op).op = op
    BY DEF Does
  <2>2. /\ s.how = "stopStart" =>
             /\ Restarting(s)[1].op = "stop" /\ Restarting(s)[2].op = "stopped"
             /\ Restarting(s)[3].op = "start"
        /\ s.how = "restart" => Restarting(s)[1].op = "restart"
        /\ s.how = "start" => Restarting(s)[1].op = "start" /\ Restarting(s)[2].op = "same"
        /\ s.how \in {"deploy", "rollback"} =>
             Restarting(s)[1].op = "deploy" /\ Restarting(s)[2].op = "deployed"
    BY <2>1, RestartingSteps
  <2> HIDE DEF f, r, l, q
  <2>3. /\ q[f + 1] = Restarting(s)[1]
        /\ r >= 2 => q[f + 2] = Restarting(s)[2]
        /\ r >= 3 => q[f + 3] = Restarting(s)[3]
    BY <1>1
  <2> QED BY <1>3, <2>2, <2>3
<1>10. s.how = "rollback" => q[f + 4].op = "rollback" /\ \A i \in 1..l : i # 2 => q[f + 2 + i] \in Calm
  <2> HIDE DEF f, r, l, q
  <2>1. s.how = "rollback" => r = 2 /\ l = 11 /\ \A i \in 1..l : q[f + 2 + i] = Looking(s)[i]
    BY <1>1, <1>3, <1>4
  <2>2. f + 2 + 2 = f + 4
    BY <1>1
  <2> QED BY <1>4, <2>1, <2>2
<1>11. s.how # "rollback" => \A i \in 1..l : q[f + r + i] \in Calm
  BY <1>1, <1>6
<1> HIDE DEF f, r, l, q
<1>12. ASSUME NEW k \in 1..Len(q), q[k].op \in Launching
       PROVE  \/ k = 1 /\ q[k].op = "start"
              \/ k = Base(s) /\ s.how # "rollback" /\ q[k].op \in {"start", "restart", "deploy"}
              \/ k = Base(s) /\ s.how = "rollback" /\ q[k].op = "deploy"
              \/ k = Deed(s) /\ s.how = "rollback" /\ q[k].op = "rollback"
  <2>1. \A st \in Calm : st.op \notin Launching
    BY CalmOp DEF Launching
  <2>2. k = 1 \/ k \in 2..5 \/ k \in 6..f \/ k \in {f + 1, f + 2, f + 3} \/ k > f + 3
    BY <1>1, <1>12
  <2>3. CASE k \in {1} \cup (2..5) \cup (6..f)
    BY <1>7, <1>8, <1>12, <2>3
  <2>4. CASE k \in {f + 1, f + 2, f + 3} \/ k > f + 3
    <3>1. CASE s.how = "rollback"
      <4>1. k \in {f + 1, f + 2} \/ \E i \in 1..l : k = f + 2 + i
        <5>1. k >= f + 3 => k - f - 2 \in 1..l /\ k = f + 2 + (k - f - 2)
          BY <1>1, <1>3, <1>12, <3>1
        <5> QED BY <2>4, <5>1, <1>1, <1>12
      <4>2. k \in {f + 1, f + 2, f + 4}
        BY <1>10, <1>12, <2>1, <3>1, <4>1, <1>1
      <4> QED BY <1>2, <1>9, <1>10, <1>12, <3>1, <4>2 DEF Launching
    <3>2. CASE s.how # "rollback"
      <4>1. k <= f + r \/ \E i \in 1..l : k = f + r + i
        <5>1. k > f + r => k - f - r \in 1..l /\ k = f + r + (k - f - r)
          BY <1>1, <1>12
        <5> QED BY <5>1, <1>1, <1>12
      <4>2. k <= f + r
        BY <1>11, <1>12, <2>1, <3>2, <4>1
      <4>3. s.how \in {"stopStart", "restart", "start", "deploy"}
        BY <3>2 DEF Hows
      <4> QED BY <1>1, <1>2, <1>3, <1>9, <1>12, <2>4, <3>2, <4>2, <4>3 DEF Launching
    <3> QED BY <3>1, <3>2
  <2> QED BY <2>2, <2>3, <2>4
<1>13. /\ q[Base(s)].op \in Launching /\ q[Deed(s)].op \in Launching
       /\ s.how = "stopStart" => q[Deed(s)].op = "start"
       /\ s.how = "restart" => q[Deed(s)].op = "restart"
       /\ s.how = "start" => q[Deed(s)].op = "start"
       /\ s.how = "deploy" => q[Deed(s)].op = "deploy"
  BY <1>2, <1>9, <1>10 DEF Launching, Hows
<1> QED BY <1>7, <1>12, <1>13, Zenon DEF q

\* The changes are asked for between the first start and the second.
LEMMA ChangePlaces ==
  ASSUME NEW s, s.how \in Hows, s.change \in SUBSET Aspects, NEW k \in 1..Base(s)
  PROVE  /\ k \in 6..Len(Lead(s.change)) => Script(s)[k] = Lead(s.change)[k]
         /\ Script(s)[k].op \in Aspects =>
              k \in 6..Len(Lead(s.change)) /\ Script(s)[k].op \in s.change
<1> DEFINE f == Len(Lead(s.change))
           q == Script(s)
<1>1. /\ f \in Nat /\ f >= 5
      /\ Second(s) = f + 1 /\ Third(s) = f + IF s.how = "rollback" THEN 4 ELSE 3
      /\ s.how = "stopStart" => Base(s) = Third(s)
      /\ s.how \in {"restart", "start", "deploy", "rollback"} => Base(s) = Second(s)
  BY Positions
<1>2. /\ \A i \in 1..5 : q[i] = Prelude[i]
      /\ \A i \in 6..f : q[i] = Lead(s.change)[i]
      /\ s.how = "stopStart" =>
           /\ q[f + 1] = Does("stop") /\ q[f + 1 + 1] = Does("stopped") /\ q[f + 3] = Does("start")
      /\ s.how = "restart" => q[f + 1] = Does("restart")
      /\ s.how = "start" => q[f + 1] = Does("start")
      /\ s.how \in {"deploy", "rollback"} => q[f + 1] = Does("deploy")
  BY <1>1, Places, ZenonT(40)
<1>3. \A i \in 6..f : Lead(s.change)[i].op \in s.change
  BY ChangesMade
<1> HIDE DEF f, q
<1>4. \A op : Does(op).op = op
  BY DEF Does
<1>5. \A i \in 1..5 : q[i].op \notin Aspects
  <2>1. /\ q[1].op = "start" /\ q[2].op = "allUp" /\ q[3].op = "serves"
        /\ q[4].op = "noteRevisions" /\ q[5].op = "noteProcess"
    BY <1>2, PreludeOps
  <2> QED BY <2>1 DEF Aspects
<1>6. ASSUME k > f PROVE q[k].op \notin Aspects
  <2>1. CASE s.how = "stopStart"
    <3>1. k \in {f + 1, f + 2, f + 3} /\ f + 1 + 1 = f + 2
      BY <1>1, <1>6, <2>1
    <3>2. q[k].op \in {"stop", "stopped", "start"}
      BY <1>2, <1>4, <2>1, <3>1
    <3> QED BY <3>2 DEF Aspects
  <2>2. CASE s.how \in {"restart", "start", "deploy", "rollback"}
    <3>1. k = f + 1
      BY <1>1, <1>6, <2>2
    <3>2. q[k].op \in {"restart", "start", "deploy"}
      BY <1>2, <1>4, <2>2, <3>1
    <3> QED BY <3>2 DEF Aspects
  <2> QED BY <2>1, <2>2 DEF Hows
<1>7. k \in 1..5 \/ k \in 6..f \/ k > f
  BY <1>1
<1>8. q[k].op \in Aspects => k \in 6..f
  BY <1>5, <1>6, <1>7
<1>9. k \in 6..f => q[k] = Lead(s.change)[k] /\ q[k].op \in s.change
  BY <1>2, <1>3
<1> QED BY <1>8, <1>9 DEF f, q

\* What is known of the spec, where it is and what the platform breaks.
LEMMA Setting ==
  ASSUME AsWritten, FInv
  PROVE  /\ scenario \in Specs /\ scenario.how \in Hows /\ scenario.change \in SUBSET Aspects
         /\ fault = Sound \/ fault \in Broken(scenario)
         /\ Len(Script(scenario)) \in Nat /\ pc \in Nat /\ pc >= 1
         /\ pc <= Len(Script(scenario)) + 1
         /\ verdict = "running" => pc \in 1..Len(Script(scenario))
         /\ Base(scenario) \in Nat /\ Deed(scenario) \in Nat /\ Base(scenario) >= 6
         /\ Base(scenario) <= Deed(scenario) /\ Deed(scenario) <= Len(Script(scenario))
         /\ Second(scenario) \in Nat /\ Third(scenario) \in Nat /\ Second(scenario) >= 6
         /\ Third(scenario) >= Second(scenario) + 2
         /\ scenario.how = "stopStart" =>
              /\ Base(scenario) = Third(scenario) /\ Deed(scenario) = Third(scenario)
              /\ Third(scenario) = Second(scenario) + 2
         /\ scenario.how # "stopStart" /\ scenario.how # "rollback" => Base(scenario) = Deed(scenario)
         /\ scenario.how = "rollback" => Deed(scenario) = Base(scenario) + 3
<1>1. scenario \in Specs
  BY DEF AsWritten, FInv, TInv, TypeOK
<1>2. scenario.how \in Hows /\ scenario.change \in SUBSET Aspects
  BY <1>1, KindsOfSpecs
<1>3. fault = Sound \/ fault \in Broken(scenario)
  BY DEF FInv, TInv, TypeOK
<1>4. /\ Len(Script(scenario)) \in Nat /\ pc \in Nat /\ pc >= 1
      /\ verdict = "running" => pc \in 1..Len(Script(scenario))
  BY AtTyped DEF FInv
<1>5. pc <= Len(Script(scenario)) + 1
  BY <1>4 DEF FInv, TInv, TypeOK
<1>6. Deed(scenario) <= Len(Script(scenario))
  BY <1>2, Places
<1> DEFINE f == Len(Lead(scenario.change))
<1>7. /\ f \in Nat /\ f >= 5
      /\ Second(scenario) = f + 1
      /\ Third(scenario) = f + IF scenario.how = "rollback" THEN 4 ELSE 3
      /\ scenario.how = "stopStart" =>
           Base(scenario) = Third(scenario) /\ Deed(scenario) = Third(scenario)
      /\ scenario.how = "rollback" =>
           Base(scenario) = Second(scenario) /\ Deed(scenario) = Third(scenario)
      /\ scenario.how \in {"restart", "start", "deploy"} =>
           Base(scenario) = Second(scenario) /\ Deed(scenario) = Second(scenario)
  BY <1>2, Positions
<1> HIDE DEF f
<1> QED BY <1>1, <1>2, <1>3, <1>4, <1>5, <1>6, <1>7 DEF Hows

\* The instances that never stop are those of a spec that stops and starts.
LEMMA NeverStopsHere ==
  ASSUME AsWritten, FInv, fault.kind = "neverStops"
  PROVE  scenario.how = "stopStart" /\ NoneLeft
<1>1. /\ scenario \in Specs /\ scenario.how \in Hows
      /\ fault = Sound \/ fault \in Broken(scenario)
  BY Setting
<1>2. fault \in Broken(scenario)
  <2>1. Sound.kind = "none"
    BY DEF Sound
  <2> QED BY <1>1, <2>1
<1>3. \/ scenario.how = "start" \/ scenario.how = "rollback"
      \/ (scenario.how \in {"stopStart", "restart", "deploy"} /\ scenario.change = {})
      \/ (scenario.how \in {"stopStart", "restart", "deploy"} /\ scenario.change # {})
  BY <1>1 DEF Hows
<1>4. scenario.how = "stopStart"
  BY <1>1, <1>2, <1>3, KindsOfFaults
<1> QED BY <1>4 DEF FInv, IInv

\* The fields of an unmoved spec and of what a step may leave as it was.
Unmoved ==
  /\ UNCHANGED <<scenario, fault, noted, app, revs>>
  /\ web'.rev = web.rev /\ web'.runs = web.runs /\ old'.runs = old.runs

\* Where nothing is launched and nothing noted, a spec that stays where it is keeps
\* what is known of it.
LEMMA StaysKnown ==
  ASSUME AsWritten, FInv, Unmoved, pc' = pc, errs' \in Nat, errs' >= errs,
         verdict' = verdict \/ verdict' = "failed", web'.want = web.want,
         deploying' = deploying \/ fault.kind # "neverDeploys",
         fault.kind = "neverStops" /\ pc > 2 => web'.up = web.up
  PROVE  SInv'
<1> USE DEF Unmoved
<1>1. errs \in Nat /\ pc \in Nat
  BY Setting, RevisionsAssumption DEF FInv, TInv, TypeOK
<1>2. StageInv'
  BY DEF FInv, SInv, StageInv
<1>3. AppInv'
  BY DEF FInv, SInv, AppInv
<1>4. NotedInv'
  BY <1>1 DEF FInv, SInv, NotedInv
<1>5. AfterInv'
  <2>1. pc > Deed(scenario) => Aftermath
    BY DEF FInv, SInv, AfterInv
  <2>2. Aftermath => Aftermath'
    BY DEF Aftermath, Back
  <2> QED BY <2>1, <2>2 DEF AfterInv
<1>6. StuckInv'
  BY DEF FInv, SInv, StuckInv, Refuted, Back
<1>7. UpInv'
  BY DEF FInv, SInv, UpInv
<1>8. PassInv'
  BY DEF FInv, SInv, PassInv
<1> QED BY <1>2, <1>3, <1>4, <1>5, <1>6, <1>7, <1>8 DEF SInv

\* So does one that goes on, past a step that is not a check it had to fail.
LEMMA MovesOn ==
  ASSUME AsWritten, FInv, verdict = "running", Advance,
         UNCHANGED <<scenario, fault, noted, revs, deploying>>,
         web'.rev = web.rev, web'.runs = web.runs, web'.up = web.up, old'.runs = old.runs,
         errs' \in Nat, errs' >= errs,
         Spot.op \notin Launching \cup {"noteRevisions", "noteProcess"},
         app' = (IF Spot.op \in Aspects THEN app \cup {Spot.op} ELSE app),
         pc > Deed(scenario) => ~Refuted(Spot),
         fault.kind = "neverStops" =>
           (pc = 2 => web.up = Instances) /\ pc + 1 # Third(scenario)
  PROVE  SInv'
<1> DEFINE b == Base(scenario)
           d == Deed(scenario)
           l == Len(Script(scenario))
<1>1. /\ scenario \in Specs /\ scenario.how \in Hows /\ scenario.change \in SUBSET Aspects
      /\ l \in Nat /\ pc \in 1..l /\ b \in Nat /\ d \in Nat /\ b >= 6 /\ b <= d /\ d <= l
      /\ Third(scenario) \in Nat
  BY Setting
<1>2. pc' = pc + 1 /\ (verdict' = "passed" => pc = l) /\ errs \in Nat
  BY RevisionsAssumption DEF Advance, FInv, TInv, TypeOK
<1>3. pc \notin {1, b, d, 4, 5}
  <2>1. \A i \in 1..5 : Script(scenario)[i] = Prelude[i]
    BY <1>1, Places
  <2>2. Script(scenario)[4].op = "noteRevisions" /\ Script(scenario)[5].op = "noteProcess"
    BY <2>1, PreludeOps
  <2>3. /\ Script(scenario)[1].op = "start" /\ Script(scenario)[b].op \in Launching
        /\ Script(scenario)[d].op \in Launching
    BY <1>1, StartPlaces
  <2> QED BY <2>2, <2>3 DEF Spot, Launching
<1>4. pc <= b => \A i \in 6..Len(Lead(scenario.change)) :
                    i < pc + 1 => Lead(scenario.change)[i].op \in app'
  <2> SUFFICES ASSUME pc <= b, NEW i \in 6..Len(Lead(scenario.change)), i < pc + 1
               PROVE  Lead(scenario.change)[i].op \in app'
    OBVIOUS
  <2>1. CASE i < pc
    BY <2>1 DEF FInv, SInv, AppInv
  <2>2. CASE i = pc
    <3>1. Spot = Lead(scenario.change)[pc]
      BY <1>1, <2>2, ChangePlaces DEF Spot
    <3>2. Lead(scenario.change)[pc].op \in Aspects
      BY <1>1, <2>2, ChangesMade
    <3> QED BY <2>2, <3>1, <3>2
  <2> QED BY <1>1, <2>1, <2>2
<1>5. pc <= b => app' \subseteq scenario.change
  <2>1. pc <= b => (Spot.op \in Aspects => Spot.op \in scenario.change)
    BY <1>1, ChangePlaces DEF Spot
  <2> QED BY <2>1 DEF FInv, SInv, AppInv
<1> HIDE DEF b, d, l
<1>6. StageInv'
  BY <1>1, <1>2, <1>3 DEF FInv, SInv, StageInv, b, d
<1>7. AppInv'
  BY <1>1, <1>2, <1>4, <1>5 DEF AppInv, b
<1>8. NotedInv'
  BY <1>1, <1>2, <1>3 DEF FInv, SInv, NotedInv
<1>9. AfterInv'
  <2>1. pc > d => Aftermath
    BY DEF FInv, SInv, AfterInv, d
  <2>2. Aftermath => Aftermath'
    BY DEF Aftermath, Back
  <2>3. pc' > d => pc > d
    BY <1>1, <1>2, <1>3
  <2> QED BY <2>1, <2>2, <2>3 DEF AfterInv, d
<1>10. StuckInv'
  <2> SUFFICES ASSUME NEW k \in (d + 1)..l, Refuted(Script(scenario)[k]) PROVE pc + 1 <= k
    BY <1>2 DEF StuckInv, Refuted, Back, d, l
  <2>1. pc <= k
    BY DEF FInv, SInv, StuckInv, d, l
  <2>2. pc # k
    BY <1>1 DEF Spot, d
  <2> QED BY <1>1, <2>1, <2>2
<1>11. UpInv'
  BY <1>1, <1>2 DEF FInv, SInv, UpInv
<1>12. PassInv'
  BY <1>2 DEF PassInv, l
<1> QED BY <1>6, <1>7, <1>8, <1>9, <1>10, <1>11, <1>12 DEF SInv

\* The step a broken promise refutes, by what the step does.
LEMMA RefutedStep ==
  ASSUME NEW st, Refuted(st)
  PROVE  /\ st.op \in {"same", "kept", "longer", "isNew", "records", "linked", "serves",
                      "deployed"}
         /\ st.op = "same" => fault.kind \in {"spurious", "startsAnew"} /\ noted.revs = <<{}>>
         /\ st.op = "kept" => fault.kind \in {"spurious", "startsAnew"} /\ noted.guid = 1
         /\ st.op = "longer" => fault.kind = "missed" /\ noted.revs = <<{}>> /\ st.by = 1
         /\ st.op = "isNew" => fault.kind = "missed" /\ noted.guid = 1
         /\ st.op = "linked" => fault.kind = "unlinked"
         /\ st.op = "deployed" => fault.kind = "neverDeploys"
         /\ st.op = "records" =>
              \/ (fault.kind = "missed" /\ st.a = "sidecar" /\ st.new = TRUE)
              \/ (fault.kind = "reuses" /\ st.a = "command" /\ st.new = FALSE)
              \/ (fault.kind = "records" /\ ~Back /\ st.a = fault.a /\ st.new = TRUE)
              \/ (fault.kind = "records" /\ Back /\ st.a = fault.a /\ st.new = FALSE)
         /\ st.op = "serves" =>
              \/ (fault.kind = "runs" /\ ~Back /\ st.a = fault.a /\ st.new = TRUE)
              \/ (fault.kind = "runs" /\ Back /\ st.a = fault.a /\ st.new = FALSE)
<1>1. /\ \A op : Does(op).op = op
      /\ Longer(1).op = "longer" /\ Longer(1).by = 1
      /\ \A a : Records(a, TRUE).op = "records" /\ Records(a, TRUE).a = a
      /\ \A a : Records(a, FALSE).op = "records" /\ Records(a, FALSE).a = a
      /\ \A a : Serves(a, TRUE).op = "serves" /\ Serves(a, TRUE).a = a
      /\ \A a : Serves(a, FALSE).op = "serves" /\ Serves(a, FALSE).a = a
  BY DEF Does, Longer, Records, Serves
<1>2. \A a : /\ Records(a, TRUE).new = TRUE /\ Records(a, FALSE).new = FALSE
             /\ Serves(a, TRUE).new = TRUE /\ Serves(a, FALSE).new = FALSE
  BY Zenon DEF Records, Serves
<1> DEFINE rt(a) == Records(a, TRUE)
           rf(a) == Records(a, FALSE)
           vt(a) == Serves(a, TRUE)
           vf(a) == Serves(a, FALSE)
<1>3. \/ fault.kind \in {"spurious", "startsAnew"} /\ st = Does("same") /\ noted.revs = <<{}>>
      \/ fault.kind \in {"spurious", "startsAnew"} /\ st = Does("kept") /\ noted.guid = 1
      \/ fault.kind = "missed" /\ st = Longer(1) /\ noted.revs = <<{}>>
      \/ fault.kind = "missed" /\ st = Does("isNew") /\ noted.guid = 1
      \/ fault.kind = "missed" /\ st = rt("sidecar")
      \/ fault.kind = "reuses" /\ st = rf("command")
      \/ fault.kind = "unlinked" /\ st = Does("linked")
      \/ fault.kind = "records" /\ ~Back /\ st = rt(fault.a)
      \/ fault.kind = "records" /\ Back /\ st = rf(fault.a)
      \/ fault.kind = "runs" /\ ~Back /\ st = vt(fault.a)
      \/ fault.kind = "runs" /\ Back /\ st = vf(fault.a)
      \/ fault.kind = "neverDeploys" /\ st = Does("deployed")
  BY Zenon DEF Refuted
<1>4. /\ \A a : rt(a).op = "records" /\ rt(a).a = a /\ rt(a).new = TRUE
      /\ \A a : rf(a).op = "records" /\ rf(a).a = a /\ rf(a).new = FALSE
      /\ \A a : vt(a).op = "serves" /\ vt(a).a = a /\ vt(a).new = TRUE
      /\ \A a : vf(a).op = "serves" /\ vf(a).a = a /\ vf(a).new = FALSE
  BY <1>1, <1>2, Zenon
<1> HIDE DEF rt, rf, vt, vf
<1> QED BY <1>1, <1>3, <1>4

\* Where the promise broken is about revisions, the spec is at one of theirs.
LEMMA KnownAfter ==
  ASSUME AsWritten, FInv, pc > Deed(scenario)
  PROVE  /\ Aftermath /\ Len(revs) \in Nat
         /\ fault.kind = "reuses" => Back /\ "command" \in scenario.change
<1>1. /\ Deed(scenario) \in Nat /\ Deed(scenario) >= 6 /\ pc \in Nat /\ scenario \in Specs
      /\ fault = Sound \/ fault \in Broken(scenario)
      /\ scenario.how \in Hows
  BY Setting
<1>2. Len(revs) \in Nat
  BY DEF FInv, TInv, TypeOK
<1>3. Aftermath
  BY DEF FInv, SInv, AfterInv
<1>5. ASSUME fault.kind = "reuses" PROVE Back /\ "command" \in scenario.change
  <2>1. fault \in Broken(scenario)
    <3>1. Sound.kind = "none"
      BY DEF Sound
    <3> QED BY <1>1, <1>5, <3>1
  <2>2. \/ scenario.how = "start" \/ scenario.how = "rollback"
        \/ (scenario.how \in {"stopStart", "restart", "deploy"} /\ scenario.change = {})
        \/ (scenario.how \in {"stopStart", "restart", "deploy"} /\ scenario.change # {})
    BY <1>1 DEF Hows
  <2>3. scenario.how = "rollback"
    BY <1>1, <1>5, <2>1, <2>2, KindsOfFaults
  <2> QED BY <1>1, <2>3, KindsOfSpecs DEF Back
<1> QED BY <1>2, <1>3, <1>5

LEMMA CountNotices ==
  ASSUME AsWritten, FInv, verdict = "running", pc > Deed(scenario), Advance,
         NEW e \in BOOLEAN, Count(e), Read(e)
  PROVE  ~Refuted(Spot)
<1> SUFFICES ASSUME Refuted(Spot) PROVE FALSE
  OBVIOUS
<1>1. Aftermath /\ Len(revs) \in Nat
  BY KnownAfter
<1>2. /\ Spot.op \in {"same", "longer"} /\ pc \in Nat
      /\ IF Spot.op = "same" THEN ReadRevisions(e) = noted.revs
         ELSE Len(ReadRevisions(e)) = Len(noted.revs) + Spot.by
  <2>1. pc \in Nat
    BY Setting
  <2>2. ~Fail
    BY <2>1 DEF Advance, Fail
  <2> QED BY <2>1, <2>2 DEF Count, AtStep, Verdict
<1>4. CASE Spot.op = "same"
  <2>1. fault.kind \in {"spurious", "startsAnew"} /\ noted.revs = <<{}>>
    BY <1>4, RefutedStep
  <2>2. Len(revs) = 2
    BY <1>1, <2>1 DEF Aftermath
  <2>3. ReadRevisions(e) = <<{}>>
    BY <1>2, <1>4, <2>1
  <2>4. Len(<<{}>>) = 1 /\ <<{}>> # <<>>
    OBVIOUS
  <2> QED BY <2>2, <2>3, <2>4 DEF ReadRevisions
<1>5. CASE Spot.op = "longer"
  <2>1. fault.kind = "missed" /\ noted.revs = <<{}>> /\ Spot.by = 1
    BY <1>5, RefutedStep
  <2>2. Len(revs) = 1
    BY <1>1, <2>1 DEF Aftermath
  <2>3. Len(ReadRevisions(e)) = 2
    BY <1>2, <1>5, <2>1
  <2> QED BY <2>2, <2>3 DEF ReadRevisions
<1> QED BY <1>2, <1>4, <1>5

LEMMA KeepNotices ==
  ASSUME AsWritten, FInv, verdict = "running", pc > Deed(scenario), Advance,
         NEW e \in BOOLEAN, Keep(e)
  PROVE  ~Refuted(Spot)
<1> SUFFICES ASSUME Refuted(Spot) PROVE FALSE
  OBVIOUS
<1>1. Spot.op = "kept" /\ ReadRevision(e) = noted.guid
  <2>1. pc \in Nat
    BY Setting
  <2>2. ~Fail
    BY <2>1 DEF Advance, Fail
  <2>3. Spot.op \in {"kept", "commandKept"} /\ Spot.op # "commandKept"
    BY RefutedStep DEF Keep, AtStep
  <2> QED BY <2>2, <2>3 DEF Keep, Verdict
<1>2. fault.kind \in {"spurious", "startsAnew"} /\ noted.guid = 1
  BY <1>1, RefutedStep
<1>3. web.rev = 2
  BY <1>2, KnownAfter DEF Aftermath
<1> QED BY <1>1, <1>2, <1>3 DEF ReadRevision

LEMMA InspectNotices ==
  ASSUME AsWritten, FInv, verdict = "running", pc > Deed(scenario), Advance, Inspect
  PROVE  ~Refuted(Spot)
<1> SUFFICES ASSUME Refuted(Spot) PROVE FALSE
  OBVIOUS
<1>1. /\ Aftermath /\ Len(revs) \in Nat
      /\ fault.kind = "reuses" => Back /\ "command" \in scenario.change
  BY KnownAfter
<1>2. Spot.op \in {"records", "isNew", "linked", "originalEnv"} /\ Newest
  <2>1. pc \in Nat
    BY Setting
  <2>2. ~Fail
    BY <2>1 DEF Advance, Fail
  <2> QED BY <2>1, <2>2 DEF Inspect, AtStep, Verdict
<1>3. CASE Spot.op = "isNew"
  <2>1. fault.kind = "missed" /\ noted.guid = 1
    BY <1>3, RefutedStep
  <2> QED BY <1>1, <1>2, <1>3, <2>1 DEF Newest, Aftermath
<1>4. CASE Spot.op = "linked"
  <2>1. fault.kind = "unlinked"
    BY <1>4, RefutedStep
  <2> QED BY <1>1, <1>2, <1>4, <2>1 DEF Newest, Aftermath
<1>5. CASE Spot.op = "records"
  <2>1. (Spot.a \in revs[Len(revs)]) = Spot.new
    <3>1. Newest = ((Spot.a \in Last(revs)) = Spot.new)
      BY <1>5 DEF Newest
    <3> QED BY <1>2, <3>1, Zenon DEF Last
  <2>2. \/ (fault.kind = "missed" /\ Spot.a = "sidecar" /\ Spot.new = TRUE)
        \/ (fault.kind = "reuses" /\ Spot.a = "command" /\ Spot.new = FALSE)
        \/ (fault.kind = "records" /\ ~Back /\ Spot.a = fault.a /\ Spot.new = TRUE)
        \/ (fault.kind = "records" /\ Back /\ Spot.a = fault.a /\ Spot.new = FALSE)
    BY <1>5, RefutedStep
  <2>3. /\ Spot.new = TRUE => Spot.a \in revs[Len(revs)]
        /\ Spot.new = FALSE => Spot.a \notin revs[Len(revs)]
    BY <2>1, Zenon
  <2>4. CASE fault.kind = "missed"
    <3>1. Len(revs) = 1 /\ revs[1] = {}
      BY <1>1, <2>4 DEF Aftermath
    <3>2. revs[Len(revs)] = {} /\ Spot.a \in revs[Len(revs)]
      BY <2>2, <2>3, <2>4, <3>1
    <3> QED BY <3>2
  <2>5. CASE fault.kind = "reuses"
    <3>1. Len(revs) = 2 /\ revs[2] = scenario.change
      BY <1>1, <2>5 DEF Aftermath
    <3>2. revs[Len(revs)] = scenario.change /\ "command" \notin revs[Len(revs)]
      BY <2>2, <2>3, <2>5, <3>1
    <3> QED BY <1>1, <2>5, <3>2
  <2>6. CASE fault.kind = "records"
    <3>1. fault.a \in revs[Len(revs)] <=> Back
      BY <1>1, <2>6 DEF Aftermath
    <3> QED BY <2>2, <2>3, <2>6, <3>1
  <2> QED BY <2>2, <2>4, <2>5, <2>6
<1>6. Spot.op # "originalEnv"
  BY RefutedStep
<1> QED BY <1>2, <1>3, <1>4, <1>5, <1>6

LEMMA CurlNotices ==
  ASSUME AsWritten, FInv, verdict = "running", pc > Deed(scenario), Advance, Curl
  PROVE  ~Refuted(Spot)
<1> SUFFICES ASSUME Refuted(Spot) PROVE FALSE
  OBVIOUS
<1>1. Aftermath
  BY KnownAfter
<1>2. Spot.op = "serves" /\ ~Fail
  <2>1. pc \in Nat
    BY Setting
  <2> QED BY <2>1 DEF Curl, AtStep, Advance, Fail
<1>3. PICK s \in Serving : (Spot.a \in s) = Spot.new
  BY <1>2 DEF Curl, Verdict
<1>4. \/ (fault.kind = "runs" /\ ~Back /\ Spot.a = fault.a /\ Spot.new = TRUE)
      \/ (fault.kind = "runs" /\ Back /\ Spot.a = fault.a /\ Spot.new = FALSE)
  BY <1>2, RefutedStep
<1>5. s = web.runs \/ s = old.runs
  BY DEF Serving
<1>6. /\ fault.a \in web.runs <=> Back
      /\ fault.a \in old.runs <=> Back
  BY <1>1, <1>4 DEF Aftermath
<1>7. /\ Spot.new = TRUE => Spot.a \in s
      /\ Spot.new = FALSE => Spot.a \notin s
  BY <1>3, Zenon
<1> QED BY <1>4, <1>5, <1>6, <1>7

LEMMA WaitNotices ==
  ASSUME AsWritten, FInv, verdict = "running", pc > Deed(scenario), Advance, Wait
  PROVE  ~Refuted(Spot)
<1> SUFFICES ASSUME Refuted(Spot) PROVE FALSE
  OBVIOUS
<1>1. Aftermath
  BY KnownAfter
<1>2. Spot.op \in {"stopped", "allUp", "deployed"} /\ Awaited
  BY DEF Wait, AtStep, Waits
<1>3. Spot.op = "deployed" /\ fault.kind = "neverDeploys"
  BY <1>2, RefutedStep
<1>4. ~deploying
  BY <1>2, <1>3 DEF Awaited
<1> QED BY <1>1, <1>3, <1>4 DEF Aftermath

\* What a start does, by what is new and by what the platform breaks.
LEMMA LaunchSplit ==
  ASSUME NEW s, NEW revert, Launch(s, revert)
  PROVE  /\ app' = s /\ web'.runs = Mixed("runs", s, web.runs)
         /\ revs = <<>> \/ Breaks("spurious") =>
              revs' = Append(revs, Mixed("records", s, web.runs))
         /\ s # revs[web.rev] /\ ~Breaks("missed") /\ ~Breaks("reuses") =>
              revs' = Append(revs, Mixed("records", s, web.runs))
         /\ revs # <<>> /\ ~Breaks("spurious") /\ (Breaks("missed") \/ Breaks("reuses")) =>
              revs' = revs
         /\ Breaks("unlinked") /\ ~Breaks("reuses") => web'.rev = web.rev
         /\ revs = <<>> \/ Breaks("spurious") =>
              (~Breaks("unlinked") /\ ~Breaks("reuses") => web'.rev = Len(revs) + 1)
         /\ s # revs[web.rev] /\ ~Breaks("missed") /\ ~Breaks("reuses") /\ ~Breaks("unlinked") =>
              web'.rev = Len(revs) + 1
<1> DEFINE isNew == IF Breaks("spurious") \/ revs = <<>> THEN TRUE
                    ELSE s # revs[web.rev] /\ ~Breaks("missed") /\ ~Breaks("reuses")
           rev == CASE isNew /\ ~Breaks("unlinked") -> Len(revs) + 1
                    [] Breaks("reuses") -> revert
                    [] OTHER -> web.rev
<1>1. /\ revs' = IF isNew THEN Append(revs, Mixed("records", s, web.runs)) ELSE revs
      /\ app' = s
      /\ web' = [rev |-> rev, runs |-> Mixed("runs", s, web.runs), want |-> Instances, up |-> 0]
  BY DEF Launch
<1>2. Breaks("unlinked") /\ ~Breaks("reuses") => rev = web.rev
  <2> HIDE DEF isNew
  <2> QED OBVIOUS
<1>3. ~Breaks("unlinked") /\ ~Breaks("reuses") /\ isNew => rev = Len(revs) + 1
  <2> HIDE DEF isNew
  <2> QED OBVIOUS
<1>4. web'.rev = rev /\ web'.runs = Mixed("runs", s, web.runs)
  BY <1>1
<1> HIDE DEF rev
<1> QED BY <1>1, <1>2, <1>3, <1>4

\* The first start makes the app's first revision.
LEMMA FirstStart ==
  ASSUME AsWritten, FInv, pc = 1, StartApp, errs' = errs
  PROVE  SInv'
<1>1. /\ Base(scenario) \in Nat /\ Deed(scenario) \in Nat /\ Base(scenario) >= 6
      /\ Base(scenario) <= Deed(scenario) /\ Third(scenario) >= 8
      /\ scenario.change \in SUBSET Aspects /\ Third(scenario) \in Nat
  BY Setting
<1>2. /\ revs = <<>> /\ Len(revs) = 0 /\ app = {} /\ web.want = 0 /\ web.runs = {}
      /\ old.runs = {}
  BY DEF FInv, SInv, StageInv
<1>3. /\ Launch({}, 0) /\ LeaveOld(TRUE) /\ Advance /\ UNCHANGED <<scenario, fault, noted>>
  BY <1>2 DEF StartApp, chosen
<1>4. ~Breaks("spurious") /\ ~Breaks("unlinked") /\ ~Breaks("reuses") /\ ~Breaks("records")
      /\ ~Breaks("runs")
  BY <1>2 DEF Breaks
<1>5. revs' = <<{}>> /\ web'.rev = 1 /\ web'.runs = {} /\ app' = {}
  <2>1. Mixed("records", {}, web.runs) = {} /\ Mixed("runs", {}, web.runs) = {}
    BY <1>4 DEF Mixed
  <2>2. Append(<<>>, {}) = <<{}>>
    OBVIOUS
  <2>3. revs' = Append(revs, {}) /\ web'.rev = Len(revs) + 1 /\ web'.runs = {} /\ app' = {}
    BY <1>2, <1>3, <1>4, <2>1, LaunchSplit
  <2> QED BY <1>2, <2>2, <2>3
<1>6. old'.runs = {}
  BY <1>2, <1>3 DEF LeaveOld
<1>7. pc' = 2 /\ (verdict' = "passed" => 1 = Len(Script(scenario)))
  BY <1>3 DEF Advance
<1>8. StageInv' /\ AppInv' /\ NotedInv' /\ AfterInv' /\ UpInv' /\ PassInv'
  <2>1. StageInv'
    BY <1>1, <1>3, <1>5, <1>6, <1>7 DEF StageInv
  <2>2. AppInv'
    BY <1>1, <1>3, <1>5, <1>7 DEF AppInv
  <2>3. NotedInv' /\ AfterInv' /\ UpInv'
    BY <1>1, <1>3, <1>7 DEF NotedInv, AfterInv, UpInv
  <2>4. PassInv'
    <3> DEFINE d == Deed(scenario)
               l == Len(Script(scenario))
    <3>1. l \in Nat /\ d <= l /\ d \in Nat /\ d >= 6
      BY Setting
    <3>2. 1 # l
      <4> HIDE DEF d, l
      <4> QED BY <3>1
    <3>3. verdict' # "passed"
      BY <1>7, <3>2, Zenon
    <3> QED BY <3>3 DEF PassInv
  <2> QED BY <2>1, <2>2, <2>3, <2>4
<1>9. StuckInv'
  <2>1. Len(Script(scenario)) \in Nat
    BY Setting
  <2> QED BY <1>1, <1>3, <1>7, <2>1 DEF StuckInv
<1> QED BY <1>8, <1>9 DEF SInv

\* What a start after the first one leaves behind is what its revisions, its process
\* and what is left of before amount to.
LEMMA Launched ==
  ASSUME AsWritten, FInv, verdict = "running", Advance, UNCHANGED <<scenario, fault, noted>>,
         errs' \in Nat, errs' >= errs, fault.kind # "neverStops",
         \/ pc = Base(scenario) /\ pc < Deed(scenario) /\ revs' = <<{}, scenario.change>>
            /\ web'.rev = 2 /\ web'.runs = scenario.change /\ old'.runs = {}
         \/ pc = Deed(scenario) /\ Aftermath'
  PROVE  SInv'
<1>1. /\ Base(scenario) \in Nat /\ Deed(scenario) \in Nat /\ Base(scenario) >= 6
      /\ Base(scenario) <= Deed(scenario) /\ Len(Script(scenario)) \in Nat
      /\ pc \in Nat /\ errs \in Nat
  BY Setting, RevisionsAssumption DEF FInv, TInv, TypeOK
<1>2. pc' = pc + 1 /\ (verdict' = "passed" => pc = Len(Script(scenario)))
  BY DEF Advance
<1>3. StageInv' /\ AppInv' /\ AfterInv'
  BY <1>1, <1>2 DEF StageInv, AppInv, AfterInv
<1>4. NotedInv'
  BY <1>1, <1>2 DEF FInv, SInv, NotedInv
<1>5. StuckInv'
  BY <1>1, <1>2 DEF StuckInv
<1>6. UpInv' /\ PassInv'
  BY <1>2 DEF UpInv, PassInv
<1> QED BY <1>3, <1>4, <1>5, <1>6 DEF SInv

\* No start but the first finds instances that never stop.
LEMMA NeverStopsWaits ==
  ASSUME AsWritten, FInv, pc = Base(scenario) \/ pc = Deed(scenario)
  PROVE  fault.kind # "neverStops"
<1> SUFFICES ASSUME fault.kind = "neverStops" PROVE FALSE
  OBVIOUS
<1>1. scenario.how = "stopStart"
  BY NeverStopsHere
<1>2. pc = Third(scenario) /\ Third(scenario) \in Nat
  BY <1>1, Setting
<1> QED BY <1>2 DEF FInv, SInv, UpInv

\* By the time the app is started again every change has been asked for.
LEMMA ChangesAsked ==
  ASSUME AsWritten, FInv, pc = Base(scenario)
  PROVE  app = scenario.change
<1>1. /\ scenario.how \in Hows /\ scenario.change \in SUBSET Aspects
      /\ Base(scenario) \in Nat
  BY Setting
<1>2. Len(Lead(scenario.change)) \in Nat /\ Len(Lead(scenario.change)) < Base(scenario)
  BY <1>1, Positions DEF Hows
<1>3. /\ app \subseteq scenario.change
      /\ \A i \in 6..Len(Lead(scenario.change)) : i < pc => Lead(scenario.change)[i].op \in app
  BY <1>1 DEF FInv, SInv, AppInv
<1>4. ASSUME NEW a \in scenario.change PROVE a \in app
  <2>1. PICK i \in 6..Len(Lead(scenario.change)) : Lead(scenario.change)[i].op = a
    BY <1>1, ChangesMade
  <2>2. i < pc
    BY <1>1, <1>2
  <2> QED BY <1>3, <2>1, <2>2
<1> QED BY <1>3, <1>4

LEMMA Appends ==
  \A x, y, z : Append(<<x>>, y) = <<x, y>> /\ Append(<<x, y>>, z) = <<x, y, z>>
<1> TAKE x, y, z
<1> DEFINE S == {x, y, z}
<1>1. /\ <<x>> \in Seq(S) /\ <<x, y>> \in Seq(S) /\ <<x, y, z>> \in Seq(S)
      /\ y \in S /\ z \in S
  OBVIOUS
<1> HIDE DEF S
<1>2. Append(<<x>>, y) = <<x, y>>
  <2>1. Append(<<x>>, y) \in Seq(S) /\ Len(Append(<<x>>, y)) = 2
    BY <1>1
  <2>2. \A i \in 1..2 : Append(<<x>>, y)[i] = <<x, y>>[i]
    BY <1>1
  <2> QED BY <1>1, <2>1, <2>2, SeqEqual
<1>3. Append(<<x, y>>, z) = <<x, y, z>>
  <2>1. Append(<<x, y>>, z) \in Seq(S) /\ Len(Append(<<x, y>>, z)) = 3
    BY <1>1
  <2>2. \A i \in 1..3 : Append(<<x, y>>, z)[i] = <<x, y, z>>[i]
    BY <1>1
  <2> QED BY <1>1, <2>1, <2>2, SeqEqual
<1> QED BY <1>2, <1>3

\* The start the spec is about, but for a rollback: app has been changed, the revision
\* before is the app as made, and so are the settings that run.
LEMMA DeedLaunches ==
  ASSUME AsWritten, FInv, pc = Base(scenario), scenario.how # "rollback",
         UNCHANGED <<scenario, fault>>, Launch(app, 0), NEW still \in BOOLEAN, LeaveOld(still),
         fault.kind = "neverDeploys" => deploying'
  PROVE  Aftermath'
<1> DEFINE c == scenario.change
<1>1. /\ scenario \in Specs /\ scenario.how \in Hows /\ c \in SUBSET Aspects
      /\ fault = Sound \/ fault \in Broken(scenario)
      /\ Base(scenario) \in Nat /\ Base(scenario) >= 6
  BY Setting
<1>2. revs = <<{}>> /\ web.rev = 1 /\ web.runs = {}
  BY <1>1 DEF FInv, SInv, StageInv
<1>3. Len(revs) = 1 /\ revs # <<>> /\ revs[web.rev] = {} /\ revs[1] = {}
  <2>1. Len(<<{}>>) = 1 /\ <<{}>> # <<>> /\ <<{}>>[1] = {}
    OBVIOUS
  <2> QED BY <1>2, <2>1
<1>4. \A k : Breaks(k) <=> fault.kind = k
  BY <1>3 DEF Breaks
<1>5. Launch(c, 0)
  BY ChangesAsked
<1>6. \A m : Append(revs, m) = <<{}, m>>
  BY <1>2, Appends, Zenon
<1>7. \A m : Len(<<{}, m>>) = 2 /\ <<{}, m>>[2] = m /\ <<{}, m>>[1] = {}
  OBVIOUS
<1>8. old'.runs = {}
  BY <1>2 DEF LeaveOld
<1>9. ~Back'
  BY DEF Back
<1>10. /\ scenario.how = "start" => fault.kind \in {"none", "startsAnew"}
       /\ c = {} => fault.kind \in {"none", "spurious", "startsAnew"}
       /\ c # {} => fault.kind \in {"none", "startsAnew", "missed", "unlinked", "records", "runs",
                                    "neverStops", "neverDeploys"}
       /\ fault.kind \in {"startsAnew", "missed", "unlinked"} => c # {}
       /\ fault.kind \in {"records", "runs"} => c # {} /\ fault.a \in c
  <2>1. Sound.kind = "none"
    BY DEF Sound
  <2>2. \/ scenario.how = "start"
        \/ (scenario.how \in {"stopStart", "restart", "deploy"} /\ c = {})
        \/ (scenario.how \in {"stopStart", "restart", "deploy"} /\ c # {})
    BY <1>1 DEF Hows
  <2>3. scenario.how = "start" => c # {}
    BY <1>1, KindsOfSpecs
  <2> HIDE DEF c
  <2>4. CASE fault = Sound
    BY <2>1, <2>4
  <2>5. CASE fault \in Broken(scenario)
    BY <1>1, <2>2, <2>3, <2>5, KindsOfFaults DEF c
  <2> QED BY <1>1, <2>4, <2>5
<1> HIDE DEF c
<1>11. CASE fault.kind \in {"spurious", "startsAnew"}
  <2>1. revs' = Append(revs, Mixed("records", c, web.runs))
    <3>1. fault.kind = "startsAnew" => c # revs[web.rev]
      BY <1>3, <1>10
    <3> QED BY <1>4, <1>5, <1>11, <3>1, LaunchSplit
  <2>2. Len(revs') = 2
    BY <1>6, <1>7, <2>1
  <2>3. web'.rev = 2
    <3>1. fault.kind = "startsAnew" => c # revs[web.rev]
      BY <1>3, <1>10
    <3>2. web'.rev = Len(revs) + 1
      BY <1>4, <1>5, <1>11, <3>1, LaunchSplit
    <3> QED BY <1>3, <3>2
  <2> QED BY <1>11, <2>2, <2>3 DEF Aftermath
<1>12. CASE fault.kind = "missed"
  <2>1. revs' = revs
    BY <1>3, <1>4, <1>5, <1>12, LaunchSplit
  <2> QED BY <1>3, <1>12, <2>1 DEF Aftermath
<1>13. CASE fault.kind \in {"unlinked", "records", "runs"}
  <2>1. c # revs[web.rev]
    BY <1>3, <1>10, <1>13
  <2>2. /\ revs' = Append(revs, Mixed("records", c, web.runs))
        /\ web'.runs = Mixed("runs", c, web.runs)
        /\ fault.kind = "unlinked" => web'.rev = web.rev
    BY <1>4, <1>5, <1>13, <2>1, LaunchSplit
  <2>3. Len(revs') = 2 /\ revs'[2] = Mixed("records", c, web.runs)
    BY <1>6, <1>7, <2>2
  <2>4. /\ fault.kind = "records" => fault.a \notin revs'[2]
        /\ fault.kind = "runs" => fault.a \notin web'.runs
    BY <1>2, <1>4, <2>2, <2>3 DEF Mixed
  <2> QED BY <1>2, <1>8, <1>9, <1>13, <2>2, <2>3, <2>4 DEF Aftermath
<1>14. CASE fault.kind \in {"none", "neverStops", "neverDeploys"}
  BY <1>14 DEF Aftermath
<1> QED BY <1>10, <1>11, <1>12, <1>13, <1>14

\* The deployment a rollback is to undo breaks no promise.
LEMMA RollbackDeploys ==
  ASSUME AsWritten, FInv, pc = Base(scenario), scenario.how = "rollback",
         Launch(app, 0), LeaveOld(TRUE)
  PROVE  /\ revs' = <<{}, scenario.change>> /\ web'.rev = 2
         /\ web'.runs = scenario.change /\ old'.runs = {}
<1> DEFINE c == scenario.change
<1>1. scenario \in Specs /\ Base(scenario) \in Nat /\ Base(scenario) >= 6
  BY Setting
<1>2. revs = <<{}>> /\ web.rev = 1 /\ web.runs = {}
  BY <1>1 DEF FInv, SInv, StageInv
<1>3. Len(revs) = 1 /\ revs[web.rev] = {}
  <2>1. Len(<<{}>>) = 1 /\ <<{}>>[1] = {}
    OBVIOUS
  <2> QED BY <1>2, <2>1
<1>4. \A k : ~Breaks(k)
  BY <1>3 DEF Breaks
<1>5. Launch(c, 0) /\ c # {}
  BY <1>1, ChangesAsked, KindsOfSpecs
<1> HIDE DEF c
<1>6. \A k : Mixed(k, c, web.runs) = c
  BY <1>4 DEF Mixed
<1>7. c # revs[web.rev]
  BY <1>3, <1>5
<1>8. revs' = Append(revs, c) /\ web'.rev = Len(revs) + 1 /\ web'.runs = c
  BY <1>4, <1>5, <1>6, <1>7, LaunchSplit
<1>9. Append(<<{}>>, c) = <<{}, c>>
  BY Appends, Zenon
<1>10. old'.runs = {}
  BY <1>2 DEF LeaveOld
<1> QED BY <1>2, <1>3, <1>8, <1>9, <1>10 DEF c

\* Rolling back to the revision noted.
LEMMA RollsBack ==
  ASSUME AsWritten, FInv, pc = Deed(scenario), scenario.how = "rollback",
         UNCHANGED <<scenario, fault>>, noted.guid # 0,
         Launch(revs[noted.guid], noted.guid), LeaveOld(TRUE)
  PROVE  Aftermath'
<1> DEFINE c == scenario.change
<1>1. /\ scenario \in Specs
      /\ fault = Sound \/ fault \in Broken(scenario)
      /\ Base(scenario) \in Nat /\ Deed(scenario) \in Nat
      /\ Deed(scenario) = Base(scenario) + 3 /\ Base(scenario) >= 6
  BY Setting
<1>2. revs = <<{}, c>> /\ web.rev = 2 /\ web.runs = c /\ noted.guid = 1
  BY <1>1 DEF FInv, SInv, StageInv, NotedInv
<1>3. c # {}
  BY <1>1, KindsOfSpecs
<1>4. fault.kind \in {"none", "reuses", "unlinked", "records", "runs"}
      /\ (fault.kind \in {"records", "runs"} => fault.a \in c)
  <2>1. Sound.kind = "none"
    BY DEF Sound
  <2> QED BY <1>1, <2>1, KindsOfFaults
<1> HIDE DEF c
<1>5. Len(revs) = 2 /\ revs # <<>> /\ revs[1] = {} /\ revs[2] = c
  <2>1. Len(<<{}, c>>) = 2 /\ <<{}, c>> # <<>> /\ <<{}, c>>[1] = {} /\ <<{}, c>>[2] = c
    OBVIOUS
  <2> QED BY <1>2, <2>1
<1>6. \A k : Breaks(k) <=> fault.kind = k
  BY <1>5 DEF Breaks
<1>7. Launch({}, 1)
  BY <1>2, <1>5
<1>8. \A m : Append(revs, m) = <<{}, c, m>>
  BY <1>2, Appends, Zenon
<1>9. \A m : Len(<<{}, c, m>>) = 3 /\ <<{}, c, m>>[3] = m
  OBVIOUS
<1>10. old'.runs = c
  BY <1>2 DEF LeaveOld
<1>11. Back'
  BY DEF Back
<1>12. CASE fault.kind = "reuses"
  <2>1. revs' = revs
    BY <1>5, <1>6, <1>7, <1>12, LaunchSplit
  <2> QED BY <1>5, <1>12, <2>1 DEF Aftermath, c
<1>13. CASE fault.kind \in {"unlinked", "records", "runs"}
  <2>1. {} # revs[web.rev]
    BY <1>2, <1>3, <1>5
  <2>2. /\ revs' = Append(revs, Mixed("records", {}, web.runs))
        /\ web'.runs = Mixed("runs", {}, web.runs)
        /\ fault.kind = "unlinked" => web'.rev = web.rev
    BY <1>6, <1>7, <1>13, <2>1, LaunchSplit
  <2>3. Len(revs') = 3 /\ revs'[3] = Mixed("records", {}, web.runs)
    BY <1>8, <1>9, <2>2
  <2>4. /\ fault.kind = "records" => fault.a \in revs'[3]
        /\ fault.kind = "runs" => fault.a \in web'.runs
    BY <1>2, <1>4, <1>6, <2>2, <2>3 DEF Mixed
  <2> QED BY <1>2, <1>4, <1>10, <1>11, <1>13, <2>2, <2>3, <2>4 DEF Aftermath
<1>14. CASE fault.kind = "none"
  BY <1>14 DEF Aftermath
<1> QED BY <1>4, <1>12, <1>13, <1>14

\* Who may find that a deployment never ends, or that a start starts anew.
LEMMA KindsHere ==
  ASSUME AsWritten, FInv
  PROVE  /\ fault.kind = "neverDeploys" => scenario.how = "deploy"
         /\ scenario.how = "start" => fault.kind \in {"none", "startsAnew"}
<1>1. /\ scenario \in Specs /\ scenario.how \in Hows
      /\ fault = Sound \/ fault \in Broken(scenario)
  BY Setting
<1>2. Sound.kind = "none"
  BY DEF Sound
<1>3. CASE fault = Sound
  BY <1>2, <1>3
<1>4. CASE fault \in Broken(scenario)
  <2>1. \/ scenario.how = "start" \/ scenario.how = "rollback"
        \/ (scenario.how \in {"stopStart", "restart", "deploy"} /\ scenario.change = {})
        \/ (scenario.how \in {"stopStart", "restart", "deploy"} /\ scenario.change # {})
    BY <1>1 DEF Hows
  <2> QED BY <1>1, <1>4, <2>1, KindsOfFaults
<1> QED BY <1>1, <1>3, <1>4

\* Where a spec is that starts its app.
LEMMA StartsHere ==
  ASSUME AsWritten, FInv, verdict = "running", Spot.op \in Launching
  PROVE  /\ \/ pc = 1 /\ Spot.op = "start"
            \/ pc = Base(scenario) /\ scenario.how # "rollback"
               /\ Spot.op \in {"start", "restart", "deploy"}
            \/ pc = Base(scenario) /\ scenario.how = "rollback" /\ Spot.op = "deploy"
            \/ pc = Deed(scenario) /\ scenario.how = "rollback" /\ Spot.op = "rollback"
         /\ pc = Base(scenario) /\ scenario.how # "rollback" =>
              /\ pc = Deed(scenario)
              /\ Spot.op = "start" => scenario.how \in {"start", "stopStart"}
              /\ scenario.how = "deploy" => Spot.op = "deploy"
         /\ pc = Base(scenario) /\ scenario.how = "rollback" => pc < Deed(scenario)
<1>1. /\ scenario.how \in Hows /\ scenario.change \in SUBSET Aspects
      /\ pc \in 1..Len(Script(scenario)) /\ Base(scenario) \in Nat
      /\ Deed(scenario) \in Nat
      /\ scenario.how # "rollback" => Base(scenario) = Deed(scenario)
      /\ scenario.how = "rollback" => Deed(scenario) = Base(scenario) + 3
  BY Setting
<1>2. \/ pc = 1 /\ Spot.op = "start"
      \/ pc = Base(scenario) /\ scenario.how # "rollback"
         /\ Spot.op \in {"start", "restart", "deploy"}
      \/ pc = Base(scenario) /\ scenario.how = "rollback" /\ Spot.op = "deploy"
      \/ pc = Deed(scenario) /\ scenario.how = "rollback" /\ Spot.op = "rollback"
  BY <1>1, StartPlaces DEF Spot
<1>3. /\ scenario.how = "restart" => Script(scenario)[Deed(scenario)].op = "restart"
      /\ scenario.how = "deploy" => Script(scenario)[Deed(scenario)].op = "deploy"
  BY <1>1, StartPlaces
<1>4. pc = Base(scenario) /\ scenario.how # "rollback" =>
        /\ pc = Deed(scenario)
        /\ Spot.op = "start" => scenario.how \in {"start", "stopStart"}
        /\ scenario.how = "deploy" => Spot.op = "deploy"
  BY <1>1, <1>3 DEF Spot, Hows
<1> QED BY <1>1, <1>2, <1>4

\* What a step that starts the app leaves known.
LEMMA StartAppKnown ==
  ASSUME AsWritten, FInv, StartApp
  PROVE  SInv'
<1>1. /\ verdict = "running" /\ Spot.op = "start" /\ Spot.op \in Launching
      /\ Advance /\ UNCHANGED <<scenario, fault, noted, errs, deploying>>
  BY DEF StartApp, AtStep, Launching, chosen
<1>2. errs \in Nat
  BY RevisionsAssumption DEF FInv, TInv, TypeOK
<1>3. CASE pc = 1
  BY <1>1, <1>3, FirstStart
<1>4. CASE pc # 1
  <2>1. /\ pc = Base(scenario) /\ pc = Deed(scenario) /\ scenario.how # "rollback"
        /\ scenario.how \in {"start", "stopStart"}
    BY <1>1, <1>4, StartsHere
  <2>2. fault.kind # "neverStops" /\ fault.kind # "neverDeploys"
    BY <2>1, NeverStopsWaits, KindsHere
  <2>3. Aftermath'
    <3>1. CASE web.want = 0 \/ fault.kind = "startsAnew"
      <4>1. Launch(app, 0) /\ LeaveOld(TRUE)
        BY <3>1 DEF StartApp
      <4> QED BY <1>1, <2>1, <2>2, <4>1, DeedLaunches
    <3>2. CASE web.want # 0 /\ fault.kind # "startsAnew"
      <4>1. scenario.how = "start"
        <5> SUFFICES ASSUME scenario.how = "stopStart" PROVE FALSE
          BY <2>1
        <5>1. /\ Third(scenario) \in Nat /\ Second(scenario) \in Nat /\ pc = Third(scenario)
              /\ Third(scenario) = Second(scenario) + 2 /\ Second(scenario) >= 6
              /\ scenario.how \in Hows /\ scenario.change \in SUBSET Aspects
          BY <2>1, Setting
        <5>2. Script(scenario)[pc - 1] = Does("stopped")
          <6>1. pc - 1 = Second(scenario) + 1
            BY <5>1
          <6> QED BY <5>1, <6>1, Places
        <5>3. Script(scenario)[pc - 1].op = "stopped"
          BY <5>2 DEF Does
        <5>4. HasJust("stopped")
          BY <1>1, <5>1, <5>3 DEF HasJust
        <5>5. NoneLeft
          BY DEF FInv, IInv
        <5> QED BY <3>2, <5>4, <5>5 DEF NoneLeft
      <4>2. fault.kind = "none"
        BY <3>2, <4>1, KindsHere
      <4> QED BY <1>1, <4>2 DEF Aftermath
    <3> QED BY <3>1, <3>2
  <2> QED BY <1>1, <1>2, <2>1, <2>2, <2>3, Launched
<1> QED BY <1>3, <1>4

LEMMA RestartAppKnown ==
  ASSUME AsWritten, FInv, RestartApp
  PROVE  SInv'
<1>1. /\ verdict = "running" /\ Spot.op = "restart" /\ Spot.op \in Launching
      /\ Advance /\ UNCHANGED <<scenario, fault, noted, errs, deploying>>
      /\ Launch(app, 0) /\ LeaveOld(linger) /\ linger \in BOOLEAN
  BY DEF RestartApp, AtStep, Launching, chosen, FInv, TInv, TypeOK
<1>2. errs \in Nat
  BY RevisionsAssumption DEF FInv, TInv, TypeOK
<1>3. /\ pc = Base(scenario) /\ pc = Deed(scenario) /\ scenario.how # "rollback"
      /\ scenario.how # "deploy"
  BY <1>1, StartsHere
<1>4. fault.kind # "neverStops" /\ fault.kind # "neverDeploys"
  BY <1>3, NeverStopsWaits, KindsHere
<1>5. Aftermath'
  BY <1>1, <1>3, <1>4, DeedLaunches
<1> QED BY <1>1, <1>2, <1>3, <1>4, <1>5, Launched

LEMMA CreateDeploymentKnown ==
  ASSUME AsWritten, FInv, CreateDeployment
  PROVE  SInv'
<1>1. /\ verdict = "running" /\ Spot.op = "deploy" /\ Spot.op \in Launching
      /\ Advance /\ UNCHANGED <<scenario, fault, noted, errs>>
      /\ Launch(app, 0) /\ LeaveOld(TRUE) /\ deploying'
  BY DEF CreateDeployment, AtStep, Launching, chosen
<1>2. errs \in Nat /\ TRUE \in BOOLEAN
  BY RevisionsAssumption DEF FInv, TInv, TypeOK
<1>3. pc = Base(scenario)
  BY <1>1, StartsHere
<1>4. fault.kind # "neverStops"
  BY <1>3, NeverStopsWaits
<1>5. CASE scenario.how = "rollback"
  <2>1. pc < Deed(scenario)
    BY <1>1, <1>3, <1>5, StartsHere
  <2>2. /\ revs' = <<{}, scenario.change>> /\ web'.rev = 2
        /\ web'.runs = scenario.change /\ old'.runs = {}
    BY <1>1, <1>3, <1>5, RollbackDeploys
  <2> QED BY <1>1, <1>2, <1>3, <1>4, <2>1, <2>2, Launched
<1>6. CASE scenario.how # "rollback"
  <2>1. pc = Deed(scenario)
    BY <1>1, <1>3, <1>6, StartsHere
  <2>2. Aftermath'
    BY <1>1, <1>2, <1>3, <1>6, DeedLaunches
  <2> QED BY <1>1, <1>2, <1>4, <2>1, <2>2, Launched
<1> QED BY <1>5, <1>6

LEMMA RollbackKnown ==
  ASSUME AsWritten, FInv, RollbackDeployment
  PROVE  SInv'
<1>1. /\ verdict = "running" /\ Spot.op = "rollback" /\ Spot.op \in Launching
      /\ UNCHANGED <<scenario, fault, noted, errs>>
  BY DEF RollbackDeployment, AtStep, Launching, chosen
<1>2. errs \in Nat
  BY RevisionsAssumption DEF FInv, TInv, TypeOK
<1>3. pc = Deed(scenario) /\ scenario.how = "rollback"
  BY <1>1, StartsHere
<1>4. CASE noted.guid # 0
  <2>1. /\ Advance /\ Launch(revs[noted.guid], noted.guid) /\ LeaveOld(TRUE)
    BY <1>4 DEF RollbackDeployment
  <2>2. Aftermath'
    BY <1>1, <1>3, <1>4, <2>1, RollsBack
  <2>3. fault.kind # "neverStops"
    BY <1>3, NeverStopsWaits
  <2> QED BY <1>1, <1>2, <1>3, <2>1, <2>2, <2>3, Launched
<1>5. CASE noted.guid = 0
  <2>1. Fail /\ UNCHANGED <<app, revs, web, old, deploying>>
    BY <1>5 DEF RollbackDeployment, platform
  <2>2. Unmoved /\ pc' = pc /\ verdict' = "failed"
    BY <1>1, <2>1 DEF Fail, Unmoved
  <2> QED BY <1>1, <1>2, <2>1, <2>2, StaysKnown
<1> QED BY <1>4, <1>5

\* Where a spec is whose instances never stop.
LEMMA UpHere ==
  ASSUME AsWritten, FInv, verdict = "running", fault.kind = "neverStops"
  PROVE  /\ pc = 2 => Spot.op = "allUp"
         /\ pc + 1 = Third(scenario) => Spot.op = "stopped"
<1>1. scenario.how = "stopStart"
  BY NeverStopsHere
<1>2. /\ scenario.how \in Hows /\ scenario.change \in SUBSET Aspects /\ pc \in Nat
      /\ Second(scenario) \in Nat /\ Third(scenario) = Second(scenario) + 2
  BY <1>1, Setting
<1>3. pc = 2 => Spot.op = "allUp"
  BY <1>2, Places, PreludeOps DEF Spot
<1>4. pc + 1 = Third(scenario) => Spot = Does("stopped")
  <2>1. pc + 1 = Third(scenario) => pc = Second(scenario) + 1
    BY <1>2
  <2> QED BY <1>1, <1>2, <2>1, Places DEF Spot
<1> QED BY <1>3, <1>4 DEF Does

\* What a step that only looks leaves known.
LEMMA LooksKnown ==
  ASSUME AsWritten, FInv, verdict = "running", Advance \/ Fail,
         UNCHANGED <<chosen, noted, platform>>, errs' \in Nat, errs' >= errs,
         Spot.op \notin Launching \cup {"noteRevisions", "noteProcess"} \cup Aspects,
         Advance /\ pc > Deed(scenario) => ~Refuted(Spot),
         Advance /\ fault.kind = "neverStops" =>
           /\ Spot.op = "allUp" => web.up = Instances
           /\ Spot.op = "stopped" => web.up = 0
  PROVE  SInv'
<1>1. UNCHANGED <<scenario, fault, noted, app, revs, web, old, deploying>>
  BY DEF chosen, platform
<1>2. CASE Fail
  <2>1. Unmoved /\ pc' = pc /\ verdict' = "failed"
    BY <1>1, <1>2 DEF Fail, Unmoved
  <2> QED BY <1>1, <2>1, StaysKnown
<1>3. CASE Advance
  <2>1. ASSUME fault.kind = "neverStops"
        PROVE  (pc = 2 => web.up = Instances) /\ pc + 1 # Third(scenario)
    <3>1. /\ pc = 2 => Spot.op = "allUp"
          /\ pc + 1 = Third(scenario) => Spot.op = "stopped"
      BY <2>1, UpHere
    <3>2. pc + 1 = Third(scenario) => pc > 2
      <4>1. pc \in Nat /\ Third(scenario) \in Nat /\ Third(scenario) >= Second(scenario) + 2
            /\ Second(scenario) >= 6 /\ Second(scenario) \in Nat
        BY Setting
      <4> QED BY <4>1
    <3>3. pc > 2 => web.up = Instances
      BY <2>1 DEF FInv, SInv, UpInv
    <3>4. Instances # 0
      BY RevisionsAssumption
    <3> QED BY <1>3, <2>1, <3>1, <3>2, <3>3, <3>4
  <2> QED BY <1>1, <1>3, <2>1, MovesOn
<1> QED BY <1>2, <1>3

LEMMA WaitKnown ==
  ASSUME AsWritten, FInv, Wait \/ Timeout
  PROVE  SInv'
<1>1. /\ verdict = "running" /\ Spot.op \in {"stopped", "allUp", "deployed"}
      /\ Advance \/ Fail
      /\ UNCHANGED <<chosen, noted, errs, platform>>
  BY DEF Wait, Timeout, AtStep, Waits
<1>2. errs \in Nat /\ pc \in Nat
  BY Setting, RevisionsAssumption DEF FInv, TInv, TypeOK
<1>3. Advance => Wait
  BY <1>2 DEF Timeout, Fail, Advance
<1>4. Advance /\ pc > Deed(scenario) => ~Refuted(Spot)
  BY <1>1, <1>3, WaitNotices
<1>5. ASSUME Advance, fault.kind = "neverStops"
      PROVE  /\ Spot.op = "allUp" => web.up = Instances
             /\ Spot.op = "stopped" => web.up = 0
  <2>1. old.up = 0 /\ web.up \in Nat
    BY <1>5, NeverStopsHere DEF NoneLeft
  <2>2. /\ Spot.op = "allUp" => Running = Instances
        /\ Spot.op = "stopped" => Running = 0
    BY <1>3, <1>5 DEF Wait, Awaited
  <2> QED BY <2>1, <2>2 DEF Running
<1>6. Spot.op \notin Launching \cup {"noteRevisions", "noteProcess"} \cup Aspects
  BY <1>1 DEF Launching, Aspects
<1> QED BY <1>1, <1>2, <1>4, <1>5, <1>6, LooksKnown

LEMMA ChecksKnown ==
  ASSUME AsWritten, FInv, Inspect \/ Curl
  PROVE  SInv'
<1>1. /\ verdict = "running"
      /\ Spot.op \in {"records", "isNew", "linked", "originalEnv", "serves"}
      /\ Advance \/ Fail
      /\ UNCHANGED <<chosen, noted, errs, platform>>
  BY DEF Inspect, Curl, AtStep, Verdict
<1>2. errs \in Nat
  BY RevisionsAssumption DEF FInv, TInv, TypeOK
<1>3. Advance /\ pc > Deed(scenario) => ~Refuted(Spot)
  BY <1>1, InspectNotices, CurlNotices
<1>4. /\ Spot.op \notin Launching \cup {"noteRevisions", "noteProcess"} \cup Aspects
      /\ Spot.op # "allUp" /\ Spot.op # "stopped"
  BY <1>1 DEF Launching, Aspects
<1> QED BY <1>1, <1>2, <1>3, <1>4, LooksKnown

LEMMA NotesKnown ==
  ASSUME AsWritten, FInv, NEW e \in BOOLEAN, NoteRevisions(e) \/ NoteProcess(e),
         Read(e), UNCHANGED <<chosen, platform>>
  PROVE  SInv'
<1>1. UNCHANGED <<scenario, fault, app, revs, web, old, deploying>>
  BY DEF chosen, platform
<1>2. /\ Base(scenario) \in Nat /\ Deed(scenario) \in Nat /\ Base(scenario) >= 6
      /\ Base(scenario) <= Deed(scenario) /\ pc \in Nat
      /\ Third(scenario) \in Nat /\ Third(scenario) >= 8
      /\ Len(Script(scenario)) \in Nat
      /\ scenario.how \in Hows /\ scenario.change \in SUBSET Aspects
      /\ verdict = "running" => pc \in 1..Len(Script(scenario))
  BY Setting
<1>3. /\ verdict = "running" /\ Advance
      /\ NoteRevisions(e) => Spot.op = "noteRevisions"
      /\ NoteProcess(e) => Spot.op = "noteProcess"
  BY DEF NoteRevisions, NoteProcess, AtStep
<1>4. /\ NoteRevisions(e) => pc = 4
      /\ NoteProcess(e) => pc = 5
  BY <1>2, <1>3, ScriptSteps DEF Spot
<1>5. pc' = pc + 1 /\ (verdict' = "passed" => pc = Len(Script(scenario)))
  BY <1>3 DEF Advance
<1>6. revs = <<{}>> /\ web.rev = 1 /\ web.runs = {} /\ old.runs = {}
  BY <1>2, <1>4 DEF FInv, SInv, StageInv
<1>8. StageInv' /\ AfterInv' /\ UpInv'
  <2>1. StageInv'
    BY <1>1, <1>2, <1>4, <1>5, <1>6 DEF StageInv
  <2>2. AfterInv'
    BY <1>1, <1>2, <1>4, <1>5 DEF AfterInv
  <2>3. UpInv'
    BY <1>1, <1>2, <1>4, <1>5 DEF FInv, SInv, UpInv
  <2> QED BY <2>1, <2>2, <2>3
<1>9. AppInv'
  BY <1>1, <1>2, <1>4, <1>5 DEF FInv, SInv, AppInv
<1>10. NotedInv'
  <2>1. CASE NoteRevisions(e)
    <3>1. noted'.revs = ReadRevisions(e)
      BY <2>1 DEF NoteRevisions, FInv, SInv, NotedInv
    <3>2. pc' = 5
      BY <1>4, <1>5, <2>1
    <3>3. noted'.revs \in {<<{}>>, <<>>}
      BY <1>6, <3>1 DEF ReadRevisions
    <3> QED BY <3>2, <3>3 DEF NotedInv
  <2>2. CASE NoteProcess(e)
    <3>1. noted'.guid = ReadRevision(e) /\ noted'.revs = noted.revs
      BY <2>2 DEF NoteProcess, FInv, SInv, NotedInv
    <3>2. noted.revs \in {<<{}>>, <<>>}
      BY <1>4, <2>2 DEF FInv, SInv, NotedInv
    <3> QED BY <1>6, <3>1, <3>2 DEF ReadRevision, NotedInv
  <2> QED BY <1>3, <2>1, <2>2
<1>11. StuckInv'
  BY <1>1, <1>2, <1>4, <1>5 DEF StuckInv
<1>12. PassInv'
  BY <1>1, <1>5 DEF PassInv
<1> QED BY <1>8, <1>9, <1>10, <1>11, <1>12 DEF SInv

LEMMA ReadsKnown ==
  ASSUME AsWritten, FInv, Reads
  PROVE  SInv'
<1>1. PICK e \in BOOLEAN :
        /\ NoteRevisions(e) \/ NoteProcess(e) \/ Count(e) \/ Keep(e)
        /\ Read(e) /\ UNCHANGED <<chosen, platform>>
  BY DEF Reads
<1>2. CASE NoteRevisions(e) \/ NoteProcess(e)
  BY <1>1, <1>2, NotesKnown
<1>3. CASE Count(e) \/ Keep(e)
  <2>1. /\ verdict = "running" /\ Spot.op \in {"same", "longer", "kept", "commandKept"}
        /\ Advance \/ Fail
        /\ UNCHANGED noted
        /\ Count(e) \/ Keep(e)
    BY <1>3 DEF Count, Keep, AtStep, Verdict
  <2>2. errs' \in Nat /\ errs' >= errs
    <3>1. errs \in Nat
      BY RevisionsAssumption DEF FInv, TInv, TypeOK
    <3> QED BY <1>1, <3>1 DEF Read
  <2>4. Advance /\ pc > Deed(scenario) => ~Refuted(Spot)
    BY <1>1, <2>1, CountNotices, KeepNotices
  <2>5. /\ Spot.op \notin Launching \cup {"noteRevisions", "noteProcess"} \cup Aspects
        /\ Spot.op # "allUp" /\ Spot.op # "stopped"
    BY <2>1 DEF Launching, Aspects
  <2> QED BY <1>1, <2>1, <2>2, <2>4, <2>5, LooksKnown
<1> QED BY <1>1, <1>2, <1>3

\* A change asked for, and an app that is stopped.
LEMMA AsksKnown ==
  ASSUME AsWritten, FInv, Change \/ StopApp
  PROVE  SInv'
<1>1. /\ verdict = "running" /\ Advance
      /\ UNCHANGED <<scenario, fault, noted, errs, revs, old, deploying>>
      /\ web'.rev = web.rev /\ web'.runs = web.runs /\ web'.up = web.up
      /\ Spot.op \in Aspects \cup {"stop"}
      /\ app' = IF Spot.op \in Aspects THEN app \cup {Spot.op} ELSE app
  <2>1. CASE Change
    <3>1. PICK a \in Aspects : Alter(a)
      BY <2>1 DEF Change, CreateAndAssociateNewDroplet, UpdateEnvironmentVariables,
                  SetCommandOnProcess, CreateSidecar, Aspects
    <3> QED BY <3>1 DEF Alter, AtStep, chosen
  <2>2. CASE StopApp
    <3>1. /\ verdict = "running" /\ Spot.op = "stop" /\ web' = [web EXCEPT !.want = 0]
          /\ Advance /\ UNCHANGED <<scenario, fault, noted, errs, app, revs, old, deploying>>
      BY <2>2 DEF StopApp, AtStep, chosen
    <3>2. web \in [rev : 0..3, runs : SUBSET Aspects, want : {0, Instances}, up : 0..Instances]
      BY DEF FInv, TInv, TypeOK
    <3> QED BY <3>1, <3>2 DEF Aspects
  <2> QED BY <2>1, <2>2
<1>2. errs \in Nat
  BY RevisionsAssumption DEF FInv, TInv, TypeOK
<1>3. Spot.op \notin Launching \cup {"noteRevisions", "noteProcess", "allUp", "stopped"}
  BY <1>1 DEF Launching, Aspects
<1>4. ~Refuted(Spot)
  BY <1>1, RefutedStep DEF Aspects
<1>5. ASSUME fault.kind = "neverStops" PROVE pc # 2 /\ pc + 1 # Third(scenario)
  BY <1>1, <1>3, <1>5, UpHere
<1> QED BY <1>1, <1>2, <1>3, <1>4, <1>5, MovesOn

\* What the platform does by itself.
LEMMA PlatformKnown ==
  ASSUME AsWritten, FInv, Platform
  PROVE  SInv'
<1>1. UNCHANGED <<scenario, fault, pc, verdict, noted, errs, app, revs>>
  BY DEF Platform, StartOne, StopOne, StopOld, Deployed, chosen, driver
<1>2. /\ web \in [rev : 0..3, runs : SUBSET Aspects, want : {0, Instances}, up : 0..Instances]
      /\ old \in [runs : SUBSET Aspects, up : 0..Instances]
      /\ errs \in Nat /\ Instances \in Nat
  BY RevisionsAssumption DEF FInv, TInv, TypeOK
<1>3. /\ web'.rev = web.rev /\ web'.runs = web.runs /\ web'.want = web.want
      /\ old'.runs = old.runs
      /\ deploying' = deploying \/ fault.kind # "neverDeploys"
  BY <1>2 DEF Platform, StartOne, StopOne, StopOld, Deployed
<1>4. fault.kind = "neverStops" /\ pc > 2 => web'.up = web.up
  <2> SUFFICES ASSUME fault.kind = "neverStops", pc > 2 PROVE web'.up = web.up
    OBVIOUS
  <2>1. web.up = Instances
    BY DEF FInv, SInv, UpInv
  <2>2. ~StartOne /\ ~StopOne
    BY <1>2, <2>1 DEF StartOne, StopOne
  <2> QED BY <2>2 DEF Platform, StopOld, Deployed
<1>5. Unmoved
  BY <1>1, <1>3 DEF Unmoved
<1> QED BY <1>1, <1>2, <1>3, <1>4, <1>5, StaysKnown

LEMMA InitKnown == Init => SInv
<1> SUFFICES ASSUME Init PROVE SInv
  OBVIOUS
<1>1. scenario.how \in Hows /\ scenario.change \in SUBSET Aspects
  BY ScenarioTyped DEF Init
<1>2. /\ Base(scenario) \in Nat /\ Deed(scenario) \in Nat /\ Base(scenario) >= 6
      /\ Deed(scenario) >= 6 /\ Third(scenario) \in Nat /\ Third(scenario) >= 6
  BY <1>1, Positions DEF Hows
<1>3. /\ pc = 1 /\ verdict = "running" /\ revs = <<>> /\ app = {}
      /\ web.want = 0 /\ web.runs = {} /\ old.runs = {}
  BY DEF Init
<1>4. Len(Script(scenario)) \in Nat
  BY <1>1, ScriptSteps
<1>5. StageInv /\ AppInv /\ NotedInv
  BY <1>2, <1>3 DEF StageInv, AppInv, NotedInv
<1>6. AfterInv /\ StuckInv /\ UpInv /\ PassInv
  BY <1>2, <1>3, <1>4 DEF AfterInv, StuckInv, UpInv, PassInv
<1> QED BY <1>5, <1>6 DEF SInv

LEMMA NextKnown ==
  ASSUME AsWritten
  PROVE  FInv /\ [Next]_vars => FInv'
<1> SUFFICES ASSUME FInv, [Next]_vars PROVE FInv'
  OBVIOUS
<1>1. TInv' /\ IInv'
  BY NextTyped, NextInv DEF FInv
<1>2. errs \in Nat /\ errs' \in Nat
  BY <1>1, RevisionsAssumption DEF FInv, TInv, TypeOK
<1>3. SInv'
  <2>1. CASE Platform
    BY <2>1, PlatformKnown
  <2>2. CASE Driver
    BY <2>2, StartAppKnown, RestartAppKnown, CreateDeploymentKnown, RollbackKnown, AsksKnown,
       WaitKnown, ReadsKnown, ChecksKnown DEF Driver
  <2>3. CASE Hiccup
    <3>1. Unmoved /\ pc' = pc /\ verdict' = "failed" /\ errs' >= errs
          /\ web'.want = web.want /\ web'.up = web.up /\ deploying' = deploying
      BY <1>2, <2>3 DEF Hiccup, Fail, chosen, platform, Unmoved
    <3> QED BY <1>2, <3>1, StaysKnown
  <2>4. CASE UNCHANGED vars
    <3>1. Unmoved /\ pc' = pc /\ verdict' = verdict /\ errs' >= errs
          /\ web'.want = web.want /\ web'.up = web.up /\ deploying' = deploying
      BY <1>2, <2>4 DEF vars, chosen, driver, platform, Unmoved
    <3> QED BY <1>2, <3>1, StaysKnown
  <2> QED BY <2>1, <2>2, <2>3, <2>4 DEF Next
<1> QED BY <1>1, <1>3 DEF FInv

\* A spec of revisions.go that passes has noticed every broken promise it has a check
\* for (revisions.go:74-432), however many instances there are, however the platform's
\* steps fall between the spec's, and whichever requests fail; but for the number of
\* revisions, where both reads of BeforeEach had come back empty (revisions.go:58-59).
THEOREM NoFaultGoesUnnoticed ==
  ASSUME AsWritten
  PROVE  Spec => []NoFaultPasses
<1>1. Init => FInv
  BY InitTyped, InitInv, InitKnown DEF FInv
<1>2. FInv /\ [Next]_vars => FInv'
  BY NextKnown
<1>3. FInv => NoFaultPasses
  <2> SUFFICES ASSUME FInv, verdict = "passed", fault # Sound, fault \notin Unseen(scenario),
                      ~(NothingNoted /\ fault.kind \in {"missed", "spurious", "startsAnew"})
               PROVE  FALSE
    BY DEF NoFaultPasses
  <2>1. /\ scenario \in Specs /\ fault \in Broken(scenario) /\ pc \in Nat
        /\ Deed(scenario) \in Nat /\ Deed(scenario) >= 6
        /\ Len(Script(scenario)) \in Nat /\ Deed(scenario) <= Len(Script(scenario))
        /\ Third(scenario) \in Nat
    BY Setting
  <2>2. pc = Len(Script(scenario)) + 1
    BY DEF FInv, SInv, PassInv
  <2>3. fault.kind # "neverStops"
    <3> SUFFICES ASSUME fault.kind = "neverStops" PROVE FALSE
      OBVIOUS
    <3>1. Deed(scenario) = Third(scenario)
      BY NeverStopsHere, Setting
    <3>2. pc < Third(scenario)
      BY DEF FInv, SInv, UpInv
    <3> QED BY <2>1, <2>2, <3>1, <3>2
  <2>4. \/ noted.revs = <<{}>> \/ noted.guid = 1
        \/ fault.kind \notin {"missed", "spurious", "startsAnew"}
    <3>1. noted.revs \in {<<{}>>, <<>>} /\ noted.guid \in {0, 1}
      BY <2>1, <2>2 DEF FInv, SInv, NotedInv
    <3> QED BY <3>1 DEF NothingNoted
  <2>5. PICK k \in (Deed(scenario) + 1)..Len(Script(scenario)) : Refuted(Script(scenario)[k])
    BY <2>1, <2>3, <2>4, SomeCheckFails
  <2>6. pc <= k
    BY <2>5 DEF FInv, SInv, StuckInv
  <2> QED BY <2>1, <2>2, <2>5, <2>6
<1> QED BY <1>1, <1>2, <1>3, PTL DEF Spec

=============================================================================
