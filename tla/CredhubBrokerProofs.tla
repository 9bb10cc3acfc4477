------------------------ MODULE CredhubBrokerProofs ------------------------
(***************************************************************************)
(* The safety properties of the credhub broker, for any set of bindings    *)
(* and any clock.  Each speaks of a binding at rest; what makes them       *)
(* inductive is what the two sides hold in the middle of a request, and    *)
(* that CredHub has no name but those of binds: who is alone with a name   *)
(* was so at every step before.                                            *)
(***************************************************************************)
EXTENDS CredhubBroker, TLAPS

\* A name in CredHub, in the map or looked up was made for a binding; the map has a
\* binding's own, and an unbind looks up no other unless the map is torn.
NameInv ==
  /\ torn => raced
  /\ \A n \in store : \E c \in Bindings : cred[c] = n
  /\ \A b \in Bindings : /\ NameMap[b] \in {0, cred[b]}
                         /\ ~raced => target[b] \in {0, cred[b]}

\* The Cloud Controller waits for the request that is under way, and for no other.
TurnInv(b) ==
  /\ pc[b] \in BindSteps <=> view[b] = "binding"
  /\ pc[b] \in UnbindSteps <=> view[b] = "unbinding"
  /\ view[b] = "new" \/ pc[b] = "decode" => cred[b] = 0 /\ b \notin AppGuid
  /\ pc[b] \in BindSteps \ {"decode"} \/ view[b] = "bound" => cred[b] # 0
  /\ pc[b] = "grant" => b \in AppGuid

\* What a bind and an unbind have done so far.
CredentialInv(b) ==
  Alone(b) /\ ~raced =>
    /\ pc[b] \in {"write", "writing", "grant", "created"} \/ view[b] = "bound"
         => cred[b] \in store
    /\ (pc[b] = "created" \/ view[b] = "bound") /\ b \in AppGuid
         => <<cred[b], b>> \in granted
    /\ pc[b] = "deleted" \/ view[b] = "unbound" => cred[b] \notin store

\* The name is in the map from the end of the write on, while the process lives.
MapInv(b) ==
  Alone(b) /\ ~raced /\ ~crashed /\ pc[b] \notin {"write", "writing"} /\ cred[b] \in store
    => NameMap[b] = cred[b]

IInv ==
  /\ TypeOK /\ NameInv
  /\ \A b \in Bindings : TurnInv(b) /\ CredentialInv(b) /\ MapInv(b)

-----------------------------------------------------------------------------
LEMMA InitIInv == Init => IInv
<1> SUFFICES ASSUME Init PROVE IInv
  OBVIOUS
<1>1. TypeOK
  <2>1. {up, torn, crashed, raced} \subseteq BOOLEAN
    BY DEF Init
  <2>2. pc \in [Bindings -> {"idle"}] /\ view \in [Bindings -> {"new"}]
    BY DEF Init
  <2>3. /\ NameMap \in [Bindings -> Names] /\ target \in [Bindings -> Names]
        /\ cred \in [Bindings -> Names]
        /\ AppGuid \subseteq AppBindings
        /\ store \subseteq Times /\ granted \subseteq Times \X AppBindings
    BY DEF Init, Names
  <2> QED BY <2>1, <2>2, <2>3 DEF TypeOK, Views
<1>2. NameInv
  BY DEF Init, NameInv
<1>3. \A b \in Bindings : TurnInv(b) /\ CredentialInv(b) /\ MapInv(b)
  BY DEF Init, TurnInv, CredentialInv, MapInv, BindSteps, UnbindSteps
<1> QED BY <1>1, <1>2, <1>3 DEF IInv

\* Who is alone with a name after a step was so before it.
LEMMA AloneBefore ==
  ASSUME NEW b \in Bindings, Alone(b)', cred[b] # 0, TypeOK,
         \A c \in Bindings : cred'[c] = cred[c] \/ cred[c] = 0
  PROVE  Alone(b)
<1>1. cred'[b] = cred[b]
  OBVIOUS
<1>2. ASSUME NEW c \in Bindings \ {b} PROVE cred[c] # cred[b]
  BY <1>1 DEF Alone
<1> QED BY <1>2 DEF Alone

LEMMA AskBindIInv ==
  ASSUME IInv, NEW a \in Bindings, AskBind(a)
  PROVE  IInv'
<1>1. TypeOK'
  BY CredhubAssumption DEF IInv, NameInv, TurnInv, AskBind, To, Known, TypeOK, Names, Views, BindSteps, UnbindSteps, credhub
<1>2. NameInv'
  BY CredhubAssumption DEF IInv, NameInv, TurnInv, AskBind, To, Known, TypeOK, Names, Views, BindSteps, UnbindSteps, credhub
<1>3. ASSUME NEW b \in Bindings
      PROVE  TurnInv(b)' /\ CredentialInv(b)' /\ MapInv(b)'
  <2>1. TurnInv(b)'
    BY CredhubAssumption DEF IInv, TurnInv, AskBind, To, Known, TypeOK, Names, Views, BindSteps, UnbindSteps, credhub
  <2>2. CredentialInv(b)'
    BY CredhubAssumption DEF IInv, NameInv, TurnInv, CredentialInv, Alone, AskBind, To, Known, TypeOK, Names, Views, BindSteps, UnbindSteps, credhub
  <2>3. MapInv(b)'
    BY CredhubAssumption DEF IInv, NameInv, TurnInv, MapInv, Alone, AskBind, To, Known, TypeOK, Names, Views, BindSteps, UnbindSteps, credhub
  <2> QED BY <2>1, <2>2, <2>3
<1> QED BY <1>1, <1>2, <1>3 DEF IInv

LEMMA AskUnbindIInv ==
  ASSUME IInv, NEW a \in Bindings, AskUnbind(a)
  PROVE  IInv'
<1>1. TypeOK'
  BY CredhubAssumption DEF IInv, NameInv, TurnInv, AskUnbind, To, Known, TypeOK, Names, Views, BindSteps, UnbindSteps, credhub
<1>2. NameInv'
  BY CredhubAssumption DEF IInv, NameInv, TurnInv, AskUnbind, To, Known, TypeOK, Names, Views, BindSteps, UnbindSteps, credhub
<1>3. ASSUME NEW b \in Bindings
      PROVE  TurnInv(b)' /\ CredentialInv(b)' /\ MapInv(b)'
  <2>1. TurnInv(b)'
    BY CredhubAssumption DEF IInv, TurnInv, AskUnbind, To, Known, TypeOK, Names, Views, BindSteps, UnbindSteps, credhub
  <2>2. CredentialInv(b)'
    BY CredhubAssumption DEF IInv, NameInv, TurnInv, CredentialInv, Alone, AskUnbind, To, Known, TypeOK, Names, Views, BindSteps, UnbindSteps, credhub
  <2>3. MapInv(b)'
    BY CredhubAssumption DEF IInv, NameInv, TurnInv, MapInv, Alone, AskUnbind, To, Known, TypeOK, Names, Views, BindSteps, UnbindSteps, credhub
  <2> QED BY <2>1, <2>2, <2>3
<1> QED BY <1>1, <1>2, <1>3 DEF IInv

LEMMA DecodeIInv ==
  ASSUME IInv, NEW a \in Bindings, Decode(a)
  PROVE  IInv'
<1>1. TypeOK'
  BY CredhubAssumption DEF IInv, NameInv, TurnInv, Decode, To, TypeOK, Names, Views, BindSteps, UnbindSteps, credhub
<1>2. NameInv'
  BY CredhubAssumption DEF IInv, NameInv, TurnInv, Decode, To, TypeOK, Names, Views, BindSteps, UnbindSteps, credhub
<1>3. ASSUME NEW b \in Bindings
      PROVE  TurnInv(b)' /\ CredentialInv(b)' /\ MapInv(b)'
  <2>1. TurnInv(b)'
    BY CredhubAssumption DEF IInv, TurnInv, Decode, To, TypeOK, Names, Views, BindSteps, UnbindSteps, credhub
  <2>2. CredentialInv(b)'
    <3>1. CASE b = a
      BY <3>1, CredhubAssumption DEF IInv, TurnInv, CredentialInv, Decode, To, TypeOK, BindSteps, Views
    <3>2. CASE b # a
      <4>1. /\ pc'[b] = pc[b] /\ view' = view /\ cred'[b] = cred[b]
            /\ b \in AppGuid' <=> b \in AppGuid
            /\ UNCHANGED <<store, granted, raced>>
        BY <3>2 DEF IInv, Decode, To, TypeOK, credhub
      <4>2. CASE cred[b] = 0
        BY <4>1, <4>2, CredhubAssumption DEF IInv, TurnInv, CredentialInv, TypeOK, BindSteps
      <4>3. CASE cred[b] # 0
        <5>1. \A c \in Bindings : cred'[c] = cred[c] \/ cred[c] = 0
          BY DEF IInv, TurnInv, Decode, TypeOK
        <5>2. Alone(b)' => Alone(b)
          BY <4>3, <5>1, AloneBefore DEF IInv
        <5> QED BY <4>1, <5>2 DEF IInv, CredentialInv
      <4> QED BY <4>2, <4>3
    <3> QED BY <3>1, <3>2
  <2>3. MapInv(b)'
    BY CredhubAssumption DEF IInv, NameInv, TurnInv, MapInv, Alone, Decode, To, TypeOK, Names, Views, BindSteps, UnbindSteps, credhub
  <2> QED BY <2>1, <2>2, <2>3
<1> QED BY <1>1, <1>2, <1>3 DEF IInv

LEMMA SetJSONIInv ==
  ASSUME IInv, NEW a \in Bindings, SetJSON(a)
  PROVE  IInv'
<1>1. TypeOK'
  BY CredhubAssumption DEF IInv, NameInv, TurnInv, SetJSON, To, TypeOK, Names, Views, BindSteps, UnbindSteps, credhub
<1>2. NameInv'
  BY CredhubAssumption DEF IInv, NameInv, TurnInv, SetJSON, To, TypeOK, Names, Views, BindSteps, UnbindSteps, credhub
<1>3. ASSUME NEW b \in Bindings
      PROVE  TurnInv(b)' /\ CredentialInv(b)' /\ MapInv(b)'
  <2>1. TurnInv(b)'
    BY CredhubAssumption DEF IInv, TurnInv, SetJSON, To, TypeOK, Names, Views, BindSteps, UnbindSteps, credhub
  <2>2. CredentialInv(b)'
    BY CredhubAssumption DEF IInv, NameInv, TurnInv, CredentialInv, Alone, SetJSON, To, TypeOK, Names, Views, BindSteps, UnbindSteps, credhub
  <2>3. MapInv(b)'
    BY CredhubAssumption DEF IInv, NameInv, TurnInv, MapInv, Alone, SetJSON, To, TypeOK, Names, Views, BindSteps, UnbindSteps, credhub
  <2> QED BY <2>1, <2>2, <2>3
<1> QED BY <1>1, <1>2, <1>3 DEF IInv

LEMMA StartWriteIInv ==
  ASSUME IInv, NEW a \in Bindings, StartWrite(a)
  PROVE  IInv'
<1>1. TypeOK'
  BY CredhubAssumption DEF IInv, NameInv, TurnInv, StartWrite, To, TypeOK, Names, Views, BindSteps, UnbindSteps, credhub
<1>2. NameInv'
  BY CredhubAssumption DEF IInv, NameInv, TurnInv, StartWrite, To, TypeOK, Names, Views, BindSteps, UnbindSteps, credhub
<1>3. ASSUME NEW b \in Bindings
      PROVE  TurnInv(b)' /\ CredentialInv(b)' /\ MapInv(b)'
  <2>1. TurnInv(b)'
    BY CredhubAssumption DEF IInv, TurnInv, StartWrite, To, TypeOK, Names, Views, BindSteps, UnbindSteps, credhub
  <2>2. CredentialInv(b)'
    BY CredhubAssumption DEF IInv, NameInv, TurnInv, CredentialInv, Alone, StartWrite, To, TypeOK, Names, Views, BindSteps, UnbindSteps, credhub
  <2>3. MapInv(b)'
    BY CredhubAssumption DEF IInv, NameInv, TurnInv, MapInv, Alone, StartWrite, To, TypeOK, Names, Views, BindSteps, UnbindSteps, credhub
  <2> QED BY <2>1, <2>2, <2>3
<1> QED BY <1>1, <1>2, <1>3 DEF IInv

LEMMA EndWriteIInv ==
  ASSUME IInv, NEW a \in Bindings, EndWrite(a)
  PROVE  IInv'
<1>1. TypeOK'
  BY CredhubAssumption DEF IInv, NameInv, TurnInv, EndWrite, To, Permit, TypeOK, Names, Views, BindSteps, UnbindSteps, credhub
<1>2. NameInv'
  BY CredhubAssumption DEF IInv, NameInv, TurnInv, EndWrite, To, Permit, TypeOK, Names, Views, BindSteps, UnbindSteps, credhub
<1>3. ASSUME NEW b \in Bindings
      PROVE  TurnInv(b)' /\ CredentialInv(b)' /\ MapInv(b)'
  <2>1. TurnInv(b)'
    BY CredhubAssumption DEF IInv, TurnInv, EndWrite, To, Permit, TypeOK, Names, Views, BindSteps, UnbindSteps, credhub
  <2>2. CredentialInv(b)'
    BY CredhubAssumption DEF IInv, NameInv, TurnInv, CredentialInv, Alone, EndWrite, To, Permit, TypeOK, Names, Views, BindSteps, UnbindSteps, credhub
  <2>3. MapInv(b)'
    BY CredhubAssumption DEF IInv, NameInv, TurnInv, MapInv, Alone, EndWrite, To, Permit, TypeOK, Names, Views, BindSteps, UnbindSteps, credhub
  <2> QED BY <2>1, <2>2, <2>3
<1> QED BY <1>1, <1>2, <1>3 DEF IInv

LEMMA AddPermissionIInv ==
  ASSUME IInv, NEW a \in Bindings, AddPermission(a)
  PROVE  IInv'
<1>1. TypeOK'
  BY CredhubAssumption DEF IInv, NameInv, TurnInv, AddPermission, To, TypeOK, Names, Views, BindSteps, UnbindSteps, credhub
<1>2. NameInv'
  BY CredhubAssumption DEF IInv, NameInv, TurnInv, AddPermission, To, TypeOK, Names, Views, BindSteps, UnbindSteps, credhub
<1>3. ASSUME NEW b \in Bindings
      PROVE  TurnInv(b)' /\ CredentialInv(b)' /\ MapInv(b)'
  <2>1. TurnInv(b)'
    BY CredhubAssumption DEF IInv, TurnInv, AddPermission, To, TypeOK, Names, Views, BindSteps, UnbindSteps, credhub
  <2>2. CredentialInv(b)'
    BY CredhubAssumption DEF IInv, NameInv, TurnInv, CredentialInv, Alone, AddPermission, To, TypeOK, Names, Views, BindSteps, UnbindSteps, credhub
  <2>3. MapInv(b)'
    BY CredhubAssumption DEF IInv, NameInv, TurnInv, MapInv, Alone, AddPermission, To, TypeOK, Names, Views, BindSteps, UnbindSteps, credhub
  <2> QED BY <2>1, <2>2, <2>3
<1> QED BY <1>1, <1>2, <1>3 DEF IInv

LEMMA ReadNameIInv ==
  ASSUME IInv, NEW a \in Bindings, ReadName(a)
  PROVE  IInv'
<1>1. TypeOK'
  BY CredhubAssumption DEF IInv, NameInv, TurnInv, ReadName, To, TypeOK, Names, Views, BindSteps, UnbindSteps, credhub
<1>2. NameInv'
  BY CredhubAssumption DEF IInv, NameInv, TurnInv, ReadName, To, TypeOK, Names, Views, BindSteps, UnbindSteps, credhub
<1>3. ASSUME NEW b \in Bindings
      PROVE  TurnInv(b)' /\ CredentialInv(b)' /\ MapInv(b)'
  <2>1. TurnInv(b)'
    BY CredhubAssumption DEF IInv, TurnInv, ReadName, To, TypeOK, Names, Views, BindSteps, UnbindSteps, credhub
  <2>2. CredentialInv(b)'
    BY CredhubAssumption DEF IInv, NameInv, TurnInv, CredentialInv, Alone, ReadName, To, TypeOK, Names, Views, BindSteps, UnbindSteps, credhub
  <2>3. MapInv(b)'
    BY CredhubAssumption DEF IInv, NameInv, TurnInv, MapInv, Alone, ReadName, To, TypeOK, Names, Views, BindSteps, UnbindSteps, credhub
  <2> QED BY <2>1, <2>2, <2>3
<1> QED BY <1>1, <1>2, <1>3 DEF IInv

LEMMA DeleteIInv ==
  ASSUME IInv, NEW a \in Bindings, Delete(a)
  PROVE  IInv'
<1>1. TypeOK'
  BY CredhubAssumption DEF IInv, NameInv, TurnInv, Delete, To, Remove, TypeOK, Names, Views, BindSteps, UnbindSteps, credhub
<1>2. NameInv'
  BY CredhubAssumption DEF IInv, NameInv, TurnInv, Delete, To, Remove, TypeOK, Names, Views, BindSteps, UnbindSteps, credhub
<1>3. ASSUME NEW b \in Bindings
      PROVE  TurnInv(b)' /\ CredentialInv(b)' /\ MapInv(b)'
  <2>1. TurnInv(b)'
    BY CredhubAssumption DEF IInv, TurnInv, Delete, To, Remove, TypeOK, Names, Views, BindSteps, UnbindSteps, credhub
  <2>2. CredentialInv(b)'
    BY CredhubAssumption DEF IInv, NameInv, TurnInv, CredentialInv, Alone, Delete, To, Remove, TypeOK, Names, Views, BindSteps, UnbindSteps, credhub
  <2>3. MapInv(b)'
    BY CredhubAssumption DEF IInv, NameInv, TurnInv, MapInv, Alone, Delete, To, Remove, TypeOK, Names, Views, BindSteps, UnbindSteps, credhub
  <2> QED BY <2>1, <2>2, <2>3
<1> QED BY <1>1, <1>2, <1>3 DEF IInv

LEMMA RespondIInv ==
  ASSUME IInv, NEW a \in Bindings, Respond(a)
  PROVE  IInv'
<1>1. TypeOK'
  BY CredhubAssumption DEF IInv, NameInv, TurnInv, Respond, To, Known, TypeOK, Names, Views, BindSteps, UnbindSteps, credhub
<1>2. NameInv'
  BY CredhubAssumption DEF IInv, NameInv, TurnInv, Respond, To, Known, TypeOK, Names, Views, BindSteps, UnbindSteps, credhub
<1>3. ASSUME NEW b \in Bindings
      PROVE  TurnInv(b)' /\ CredentialInv(b)' /\ MapInv(b)'
  <2>1. TurnInv(b)'
    BY CredhubAssumption DEF IInv, TurnInv, Respond, To, Known, TypeOK, Names, Views, BindSteps, UnbindSteps, credhub
  <2>2. CredentialInv(b)'
    BY CredhubAssumption DEF IInv, NameInv, TurnInv, CredentialInv, Alone, Respond, To, Known, TypeOK, Names, Views, BindSteps, UnbindSteps, credhub
  <2>3. MapInv(b)'
    BY CredhubAssumption DEF IInv, NameInv, TurnInv, MapInv, Alone, Respond, To, Known, TypeOK, Names, Views, BindSteps, UnbindSteps, credhub
  <2> QED BY <2>1, <2>2, <2>3
<1> QED BY <1>1, <1>2, <1>3 DEF IInv

LEMMA PanicsIInv ==
  ASSUME IInv, NEW a \in Bindings, Panics(a)
  PROVE  IInv'
<1>1. TypeOK'
  BY CredhubAssumption DEF IInv, NameInv, TurnInv, Panics, To, Known, TypeOK, Names, Views, BindSteps, UnbindSteps, credhub
<1>2. NameInv'
  BY CredhubAssumption DEF IInv, NameInv, TurnInv, Panics, To, Known, TypeOK, Names, Views, BindSteps, UnbindSteps, credhub
<1>3. ASSUME NEW b \in Bindings
      PROVE  TurnInv(b)' /\ CredentialInv(b)' /\ MapInv(b)'
  <2>1. TurnInv(b)'
    BY CredhubAssumption DEF IInv, TurnInv, Panics, To, Known, TypeOK, Names, Views, BindSteps, UnbindSteps, credhub
  <2>2. CredentialInv(b)'
    BY CredhubAssumption DEF IInv, NameInv, TurnInv, CredentialInv, Alone, Panics, To, Known, TypeOK, Names, Views, BindSteps, UnbindSteps, credhub
  <2>3. MapInv(b)'
    BY CredhubAssumption DEF IInv, NameInv, TurnInv, MapInv, Alone, Panics, To, Known, TypeOK, Names, Views, BindSteps, UnbindSteps, credhub
  <2> QED BY <2>1, <2>2, <2>3
<1> QED BY <1>1, <1>2, <1>3 DEF IInv

LEMMA SetFailsIInv ==
  ASSUME IInv, NEW a \in Bindings, SetFails(a)
  PROVE  IInv'
<1>1. TypeOK'
  BY CredhubAssumption DEF IInv, NameInv, TurnInv, SetFails, Dies, TypeOK, Names, Views, BindSteps, UnbindSteps, credhub
<1>2. NameInv'
  BY CredhubAssumption DEF IInv, NameInv, TurnInv, SetFails, Dies, TypeOK, Names, Views, BindSteps, UnbindSteps, credhub
<1>3. ASSUME NEW b \in Bindings
      PROVE  TurnInv(b)' /\ CredentialInv(b)' /\ MapInv(b)'
  <2>1. TurnInv(b)'
    BY CredhubAssumption DEF IInv, TurnInv, SetFails, Dies, TypeOK, Names, Views, BindSteps, UnbindSteps, credhub
  <2>2. CredentialInv(b)'
    BY CredhubAssumption DEF IInv, NameInv, TurnInv, CredentialInv, Alone, SetFails, Dies, TypeOK, Names, Views, BindSteps, UnbindSteps, credhub
  <2>3. MapInv(b)'
    BY CredhubAssumption DEF IInv, NameInv, TurnInv, MapInv, Alone, SetFails, Dies, TypeOK, Names, Views, BindSteps, UnbindSteps, credhub
  <2> QED BY <2>1, <2>2, <2>3
<1> QED BY <1>1, <1>2, <1>3 DEF IInv

LEMMA GrantFailsIInv ==
  ASSUME IInv, NEW a \in Bindings, GrantFails(a)
  PROVE  IInv'
<1>1. TypeOK'
  <2>1. cred[a] \in store => cred[a] \in Times
    BY DEF IInv, TypeOK
  <2>2. a \in AppBindings
    BY DEF IInv, TurnInv, TypeOK, GrantFails
  <2>3. granted' \subseteq Times \X AppBindings
    BY <2>1, <2>2 DEF IInv, TypeOK, GrantFails
  <2> QED BY <2>3 DEF IInv, GrantFails, Dies, TypeOK, Names, Views, BindSteps, UnbindSteps
<1>2. NameInv'
  BY CredhubAssumption DEF IInv, NameInv, TurnInv, GrantFails, Dies, TypeOK, Names, Views, BindSteps, UnbindSteps, credhub
<1>3. ASSUME NEW b \in Bindings
      PROVE  TurnInv(b)' /\ CredentialInv(b)' /\ MapInv(b)'
  <2>1. TurnInv(b)'
    BY CredhubAssumption DEF IInv, TurnInv, GrantFails, Dies, TypeOK, Names, Views, BindSteps, UnbindSteps, credhub
  <2>2. CredentialInv(b)'
    BY CredhubAssumption DEF IInv, NameInv, TurnInv, CredentialInv, Alone, GrantFails, Dies, TypeOK, Names, Views, BindSteps, UnbindSteps, credhub
  <2>3. MapInv(b)'
    BY CredhubAssumption DEF IInv, NameInv, TurnInv, MapInv, Alone, GrantFails, Dies, TypeOK, Names, Views, BindSteps, UnbindSteps, credhub
  <2> QED BY <2>1, <2>2, <2>3
<1> QED BY <1>1, <1>2, <1>3 DEF IInv

LEMMA DeleteFailsIInv ==
  ASSUME IInv, NEW a \in Bindings, DeleteFails(a)
  PROVE  IInv'
<1>1. TypeOK'
  BY CredhubAssumption DEF IInv, NameInv, TurnInv, DeleteFails, Dies, Remove, TypeOK, Names, Views, BindSteps, UnbindSteps, credhub
<1>2. NameInv'
  BY CredhubAssumption DEF IInv, NameInv, TurnInv, DeleteFails, Dies, Remove, TypeOK, Names, Views, BindSteps, UnbindSteps, credhub
<1>3. ASSUME NEW b \in Bindings
      PROVE  TurnInv(b)' /\ CredentialInv(b)' /\ MapInv(b)'
  <2>1. TurnInv(b)'
    BY CredhubAssumption DEF IInv, TurnInv, DeleteFails, Dies, Remove, TypeOK, Names, Views, BindSteps, UnbindSteps, credhub
  <2>2. CredentialInv(b)'
    BY CredhubAssumption DEF IInv, NameInv, TurnInv, CredentialInv, Alone, DeleteFails, Dies, Remove, TypeOK, Names, Views, BindSteps, UnbindSteps, credhub
  <2>3. MapInv(b)'
    BY CredhubAssumption DEF IInv, NameInv, TurnInv, MapInv, Alone, DeleteFails, Dies, Remove, TypeOK, Names, Views, BindSteps, UnbindSteps, credhub
  <2> QED BY <2>1, <2>2, <2>3
<1> QED BY <1>1, <1>2, <1>3 DEF IInv

LEMMA MapRaceIInv ==
  ASSUME IInv, NEW a \in Bindings, NEW c \in Bindings, MapRace(a, c)
  PROVE  IInv'
<1>1. TypeOK'
  BY CredhubAssumption DEF IInv, NameInv, TurnInv, MapRace, Dies, Meet, TypeOK, Names, Views, BindSteps, UnbindSteps, credhub
<1>2. NameInv'
  BY CredhubAssumption DEF IInv, NameInv, TurnInv, MapRace, Dies, Meet, TypeOK, Names, Views, BindSteps, UnbindSteps, credhub
<1>3. ASSUME NEW b \in Bindings
      PROVE  TurnInv(b)' /\ CredentialInv(b)' /\ MapInv(b)'
  <2>1. TurnInv(b)'
    BY CredhubAssumption DEF IInv, TurnInv, MapRace, Dies, Meet, TypeOK, Names, Views, BindSteps, UnbindSteps, credhub
  <2>2. CredentialInv(b)'
    BY CredhubAssumption DEF IInv, NameInv, TurnInv, CredentialInv, Alone, MapRace, Dies, Meet, TypeOK, Names, Views, BindSteps, UnbindSteps, credhub
  <2>3. MapInv(b)'
    BY CredhubAssumption DEF IInv, NameInv, TurnInv, MapInv, Alone, MapRace, Dies, Meet, TypeOK, Names, Views, BindSteps, UnbindSteps, credhub
  <2> QED BY <2>1, <2>2, <2>3
<1> QED BY <1>1, <1>2, <1>3 DEF IInv

LEMMA MapTornIInv ==
  ASSUME IInv, NEW a \in Bindings, NEW c \in Bindings, MapTorn(a, c)
  PROVE  IInv'
<1>1. TypeOK'
  BY CredhubAssumption DEF IInv, NameInv, TurnInv, MapTorn, Meet, TypeOK, Names, Views, BindSteps, UnbindSteps, credhub
<1>2. NameInv'
  BY CredhubAssumption DEF IInv, NameInv, TurnInv, MapTorn, Meet, TypeOK, Names, Views, BindSteps, UnbindSteps, credhub
<1>3. ASSUME NEW b \in Bindings
      PROVE  TurnInv(b)' /\ CredentialInv(b)' /\ MapInv(b)'
  <2>1. TurnInv(b)'
    BY CredhubAssumption DEF IInv, TurnInv, MapTorn, Meet, TypeOK, Names, Views, BindSteps, UnbindSteps, credhub
  <2>2. CredentialInv(b)'
    BY CredhubAssumption DEF IInv, NameInv, TurnInv, CredentialInv, Alone, MapTorn, Meet, TypeOK, Names, Views, BindSteps, UnbindSteps, credhub
  <2>3. MapInv(b)'
    BY CredhubAssumption DEF IInv, NameInv, TurnInv, MapInv, Alone, MapTorn, Meet, TypeOK, Names, Views, BindSteps, UnbindSteps, credhub
  <2> QED BY <2>1, <2>2, <2>3
<1> QED BY <1>1, <1>2, <1>3 DEF IInv

LEMMA RestartIInv ==
  ASSUME IInv, Restart
  PROVE  IInv'
<1>1. TypeOK'
  BY CredhubAssumption DEF IInv, NameInv, TurnInv, Restart, TypeOK, Names, Views, BindSteps, UnbindSteps, credhub
<1>2. NameInv'
  BY CredhubAssumption DEF IInv, NameInv, TurnInv, Restart, TypeOK, Names, Views, BindSteps, UnbindSteps, credhub
<1>3. ASSUME NEW b \in Bindings
      PROVE  TurnInv(b)' /\ CredentialInv(b)' /\ MapInv(b)'
  <2>1. TurnInv(b)'
    BY CredhubAssumption DEF IInv, TurnInv, Restart, TypeOK, Names, Views, BindSteps, UnbindSteps, credhub
  <2>2. CredentialInv(b)'
    BY CredhubAssumption DEF IInv, NameInv, TurnInv, CredentialInv, Alone, Restart, TypeOK, Names, Views, BindSteps, UnbindSteps, credhub
  <2>3. MapInv(b)'
    BY CredhubAssumption DEF IInv, NameInv, TurnInv, MapInv, Alone, Restart, TypeOK, Names, Views, BindSteps, UnbindSteps, credhub
  <2> QED BY <2>1, <2>2, <2>3
<1> QED BY <1>1, <1>2, <1>3 DEF IInv

LEMMA StutterIInv == IInv /\ UNCHANGED vars => IInv'
BY DEF IInv, TypeOK, NameInv, TurnInv, CredentialInv, MapInv, Alone, vars, broker, credhub

LEMMA NextIInv == IInv /\ [Next]_vars => IInv'
<1> SUFFICES ASSUME IInv, [Next]_vars PROVE IInv'
  OBVIOUS
<1>1. ASSUME NEW b \in Bindings, AskBind(b) PROVE IInv'
  BY <1>1, AskBindIInv
<1>2. ASSUME NEW b \in Bindings, AskUnbind(b) PROVE IInv'
  BY <1>2, AskUnbindIInv
<1>3. ASSUME NEW b \in Bindings, Decode(b) PROVE IInv'
  BY <1>3, DecodeIInv
<1>4. ASSUME NEW b \in Bindings, SetJSON(b) PROVE IInv'
  BY <1>4, SetJSONIInv
<1>5. ASSUME NEW b \in Bindings, StartWrite(b) PROVE IInv'
  BY <1>5, StartWriteIInv
<1>6. ASSUME NEW b \in Bindings, EndWrite(b) PROVE IInv'
  BY <1>6, EndWriteIInv
<1>7. ASSUME NEW b \in Bindings, AddPermission(b) PROVE IInv'
  BY <1>7, AddPermissionIInv
<1>8. ASSUME NEW b \in Bindings, ReadName(b) PROVE IInv'
  BY <1>8, ReadNameIInv
<1>9. ASSUME NEW b \in Bindings, Delete(b) PROVE IInv'
  BY <1>9, DeleteIInv
<1>10. ASSUME NEW b \in Bindings, Respond(b) PROVE IInv'
  BY <1>10, RespondIInv
<1>11. ASSUME NEW b \in Bindings, Panics(b) PROVE IInv'
  BY <1>11, PanicsIInv
<1>12. ASSUME NEW b \in Bindings, SetFails(b) PROVE IInv'
  BY <1>12, SetFailsIInv
<1>13. ASSUME NEW b \in Bindings, GrantFails(b) PROVE IInv'
  BY <1>13, GrantFailsIInv
<1>14. ASSUME NEW b \in Bindings, DeleteFails(b) PROVE IInv'
  BY <1>14, DeleteFailsIInv
<1>15. ASSUME NEW b \in Bindings, NEW c \in Bindings, MapRace(b, c) PROVE IInv'
  BY <1>15, MapRaceIInv
<1>16. ASSUME NEW b \in Bindings, NEW c \in Bindings, MapTorn(b, c) PROVE IInv'
  BY <1>16, MapTornIInv
<1>17. CASE Restart
  BY <1>17, RestartIInv
<1>18. CASE UNCHANGED vars
  BY <1>18, StutterIInv
<1> QED
  BY <1>1, <1>2, <1>3, <1>4, <1>5, <1>6, <1>7, <1>8, <1>9,
     <1>10, <1>11, <1>12, <1>13, <1>14, <1>15, <1>16, <1>17, <1>18 DEF Next, Handler

\* The invariant of every behaviour.
THEOREM Invariant == Spec => []IInv
BY InitIInv, NextIInv, PTL DEF Spec

-----------------------------------------------------------------------------
\* Every variable keeps its type: CredHub has no credential without a name.
THEOREM TypeCorrect == Spec => []TypeOK
<1>1. IInv => TypeOK
  BY DEF IInv
<1> QED BY <1>1, Invariant, PTL

\* A binding that is answered has its credential and the permission it asked for,
\* whatever happens to the others (main.go:120-142), but for a name made twice, a map
\* torn unnoticed and a request not read.
THEOREM BoundIsServed == Spec => []BoundHasCredential
<1>1. IInv => BoundHasCredential
  BY DEF IInv, CredentialInv, BoundHasCredential
<1> QED BY <1>1, Invariant, PTL

\* An unbind that is answered has deleted the credential (main.go:156-163), but for a
\* name made twice and a map torn unnoticed.
THEOREM UnbindIsDone == Spec => []UnbindDeletes
<1>1. IInv => UnbindDeletes
  BY DEF IInv, CredentialInv, UnbindDeletes
<1> QED BY <1>1, Invariant, PTL

\* A name is forgotten in a death or in a torn map only (main.go:129, main.go:166).
THEOREM NameIsKept == Spec => []ForgottenNeedsDeath
<1>1. IInv => ForgottenNeedsDeath
  BY DEF IInv, MapInv, ForgottenNeedsDeath
<1> QED BY <1>1, Invariant, PTL
=============================================================================
