--------------------------- MODULE CredhubBroker ---------------------------
(***************************************************************************)
(* The credhub service broker (assets/credhub-service-broker/main.go): a   *)
(* bind stores a credential in CredHub under a name made from the time,    *)
(* writes the name to NameMap and lets the app read it; an unbind looks    *)
(* the name up and deletes the credential.  Handlers run concurrently and  *)
(* share the map without a lock.  Go's runtime, when it notices, ends the  *)
(* process; when it does not, the map is worth nothing from then on.  So   *)
(* does every error of CredHub end the process; a new one starts with an   *)
(* empty map.  A request that cannot be read is taken for one without app. *)
(*                                                                         *)
(* The Cloud Controller binds each guid once and may unbind what is bound, *)
(* or what it does not know to be gone, as often as it likes.  Cloud       *)
(* Controller and CredHub are external.                                    *)
(***************************************************************************)
EXTENDS Integers

CONSTANTS
  Bindings,    \* service binding guids
  AppBindings, \* those whose request names an app (app_guid)
  Times        \* what the clock may show: it may stand still, and be set back

ASSUME CredhubAssumption == AppBindings \subseteq Bindings /\ Times \subseteq Nat \ {0}

VARIABLES
  up,      \* whether the broker's process runs
  NameMap, \* binding -> name, 0 for none
  torn,    \* whether accesses of this process's map have met unnoticed
  pc,      \* where the handler of a binding's request is
  AppGuid, \* the bindings whose app a bind has read in its request
  target,  \* the name an unbind has looked up
  store,   \* the names of CredHub's credentials
  granted, \* <<name, binding>>: the binding's app may read the name's credential
  view,    \* the Cloud Controller's view of a binding
  cred,    \* the name made for a binding, 0 before
  crashed, \* whether a process has died
  raced    \* whether a process's map has been torn

broker == <<up, NameMap, torn, pc, AppGuid, target>>
credhub == <<store, granted>>
vars == <<broker, credhub, view, cred, crashed, raced>>

BindSteps == {"decode", "set", "write", "writing", "grant", "created"}
UnbindSteps == {"reading", "delete", "deleted"}
Views == {"new", "binding", "bound", "unbinding", "unbound", "unknown"}
Names == Times \cup {0}

TypeOK ==
  /\ {up, torn, crashed, raced} \subseteq BOOLEAN
  /\ NameMap \in [Bindings -> Names] /\ target \in [Bindings -> Names]
  /\ cred \in [Bindings -> Names]
  /\ pc \in [Bindings -> {"idle"} \cup BindSteps \cup UnbindSteps]
  /\ AppGuid \subseteq AppBindings
  /\ store \subseteq Times /\ granted \subseteq Times \X AppBindings
  /\ view \in [Bindings -> Views]

Init ==
  /\ up = TRUE /\ torn = FALSE /\ crashed = FALSE /\ raced = FALSE
  /\ NameMap = [b \in Bindings |-> 0] /\ target = [b \in Bindings |-> 0]
  /\ cred = [b \in Bindings |-> 0]
  /\ pc = [b \in Bindings |-> "idle"]
  /\ AppGuid = {} /\ store = {} /\ granted = {}
  /\ view = [b \in Bindings |-> "new"]

To(b, step) == pc' = [pc EXCEPT ![b] = step]
Known(b, v) == view' = [view EXCEPT ![b] = v]

-----------------------------------------------------------------------------
(* Requests of the Cloud Controller. *)

AskBind(b) ==
  /\ up /\ view[b] = "new"
  /\ To(b, "decode") /\ Known(b, "binding")
  /\ UNCHANGED <<up, NameMap, torn, AppGuid, target, credhub, cred, crashed, raced>>

AskUnbind(b) ==
  /\ up /\ view[b] \in {"bound", "unknown"}
  /\ To(b, "reading") /\ Known(b, "unbinding")
  /\ UNCHANGED <<up, NameMap, torn, AppGuid, target, credhub, cred, crashed, raced>>

-----------------------------------------------------------------------------
(* Bind. *)

\* Lines 113-120: a body that cannot be read is printed, and names no app.
Decode(b) ==
  /\ pc[b] = "decode" /\ To(b, "set")
  /\ AppGuid' \in {AppGuid, AppGuid \cup ({b} \cap AppBindings)}
  /\ \E t \in Times : cred' = [cred EXCEPT ![b] = t]
  /\ UNCHANGED <<up, NameMap, torn, target, credhub, view, crashed, raced>>

\* Faulty: stored under the name the map has.
SetJSONUnnamed(b) ==
  /\ pc[b] = "set" /\ To(b, "write")
  /\ store' = store \cup {NameMap[b]}
  /\ UNCHANGED <<up, NameMap, torn, AppGuid, target, granted, view, cred, crashed, raced>>

\* What has the name already is overwritten, and keeps its permissions.
SetJSON(b) ==
  /\ pc[b] = "set" /\ To(b, "write")
  /\ store' = store \cup {cred[b]}
  /\ UNCHANGED <<up, NameMap, torn, AppGuid, target, granted, view, cred, crashed, raced>>

StartWrite(b) ==
  /\ pc[b] = "write" /\ To(b, "writing")
  /\ UNCHANGED <<up, NameMap, torn, AppGuid, target, credhub, view, cred, crashed, raced>>

Permit(b) == To(b, IF b \in AppGuid THEN "grant" ELSE "created")

\* Faulty: the name is not kept.
EndWriteNowhere(b) ==
  /\ pc[b] = "writing" /\ Permit(b)
  /\ UNCHANGED <<up, NameMap, torn, AppGuid, target, credhub, view, cred, crashed, raced>>

\* Faulty: the map has one name for the service instance.
EndWriteForAll(b) ==
  /\ pc[b] = "writing" /\ Permit(b)
  /\ NameMap' = [c \in Bindings |-> cred[b]]
  /\ UNCHANGED <<up, torn, AppGuid, target, credhub, view, cred, crashed, raced>>

EndWrite(b) ==
  /\ pc[b] = "writing" /\ Permit(b)
  /\ NameMap' = [NameMap EXCEPT ![b] = cred[b]]
  /\ UNCHANGED <<up, torn, AppGuid, target, credhub, view, cred, crashed, raced>>

\* CredHub refuses it for a name it does not have.
AddPermission(b) ==
  /\ pc[b] = "grant" /\ cred[b] \in store /\ To(b, "created")
  /\ granted' = granted \cup {<<cred[b], b>>}
  /\ UNCHANGED <<up, NameMap, torn, AppGuid, target, store, view, cred, crashed, raced>>

-----------------------------------------------------------------------------
(* UnBind. *)

\* A torn map answers nothing, or any name that was ever written.
ReadName(b) ==
  /\ pc[b] = "reading" /\ To(b, "delete")
  /\ \E n \in IF torn THEN {0} \cup {cred[c] : c \in Bindings} ELSE {NameMap[b]} :
       target' = [target EXCEPT ![b] = n]
  /\ UNCHANGED <<up, NameMap, torn, AppGuid, credhub, view, cred, crashed, raced>>

\* The credential goes with its permissions.
Remove(n) ==
  /\ store' = store \ {n}
  /\ granted' = {g \in granted : g[1] # n}

\* Faulty: CredHub's answer is not looked at.
DeleteBlindly(b) ==
  /\ pc[b] = "delete" /\ To(b, "deleted")
  /\ Remove(target[b])
  /\ UNCHANGED <<up, NameMap, torn, AppGuid, target, view, cred, crashed, raced>>

\* The entry of NameMap stays.
Delete(b) ==
  /\ pc[b] = "delete" /\ target[b] \in store /\ To(b, "deleted")
  /\ Remove(target[b])
  /\ UNCHANGED <<up, NameMap, torn, AppGuid, target, view, cred, crashed, raced>>

-----------------------------------------------------------------------------
(* Answers. *)

\* WriteResponse; the answer may be lost on its way.
Respond(b) ==
  /\ pc[b] \in {"created", "deleted"} /\ To(b, "idle")
  /\ \/ Known(b, IF pc[b] = "created" THEN "bound" ELSE "unbound")
     \/ Known(b, "unknown")
  /\ UNCHANGED <<up, NameMap, torn, AppGuid, target, credhub, cred, crashed, raced>>

\* What is called on no client (credhub.New has failed) panics, and so may an access
\* of a torn map; a panic ends this request only.
Panics(b) ==
  /\ pc[b] \in {"set", "reading"} \/ (torn /\ pc[b] = "writing")
  /\ To(b, "idle") /\ Known(b, "unknown")
  /\ UNCHANGED <<up, NameMap, torn, AppGuid, target, credhub, cred, crashed, raced>>

-----------------------------------------------------------------------------
(* Deaths. *)

\* The process ends, and every request with it.
Dies ==
  /\ up' = FALSE /\ crashed' = TRUE
  /\ NameMap' = [b \in Bindings |-> 0] /\ torn' = FALSE
  /\ pc' = [b \in Bindings |-> "idle"] /\ target' = [b \in Bindings |-> 0]
  /\ view' = [b \in Bindings |-> IF view[b] \in {"binding", "unbinding"} THEN "unknown"
                                                                         ELSE view[b]]
  /\ UNCHANGED <<AppGuid, cred, raced>>

\* handleError: CredHub refuses, or has done it and the answer is lost.
SetFails(b) ==
  /\ pc[b] = "set" /\ Dies
  /\ store' \in {store, store \cup {cred[b]}} /\ UNCHANGED granted

GrantFails(b) ==
  /\ pc[b] = "grant" /\ Dies
  /\ \/ UNCHANGED granted
     \/ cred[b] \in store /\ granted' = granted \cup {<<cred[b], b>>}
  /\ UNCHANGED store

DeleteFails(b) ==
  /\ pc[b] = "delete" /\ Dies
  /\ Remove(target[b]) \/ UNCHANGED credhub

Meet(b, c) == b # c /\ pc[b] = "writing" /\ pc[c] \in {"writing", "reading"}

\* fatal error: concurrent map writes, or map read and map write.
MapRace(b, c) == Meet(b, c) /\ Dies /\ UNCHANGED credhub

\* The runtime's check is best effort: two accesses that meet may go unnoticed.
MapTorn(b, c) ==
  /\ Meet(b, c) /\ torn' = TRUE /\ raced' = TRUE
  /\ UNCHANGED <<up, NameMap, pc, AppGuid, target, credhub, view, cred, crashed>>

Restart ==
  /\ ~up /\ up' = TRUE
  /\ UNCHANGED <<NameMap, torn, pc, AppGuid, target, credhub, view, cred, crashed, raced>>

-----------------------------------------------------------------------------
Handler(b) ==
  \/ Decode(b) \/ SetJSON(b) \/ StartWrite(b) \/ EndWrite(b) \/ AddPermission(b)
  \/ ReadName(b) \/ Delete(b) \/ Respond(b) \/ Panics(b)
  \/ SetFails(b) \/ GrantFails(b) \/ DeleteFails(b)

Next ==
  \/ \E b \in Bindings : AskBind(b) \/ AskUnbind(b) \/ Handler(b)
  \/ \E b, c \in Bindings : MapRace(b, c) \/ MapTorn(b, c)
  \/ Restart

Spec == Init /\ [][Next]_vars

-----------------------------------------------------------------------------
(* Properties. *)

\* No other bind was named at the same reading of the clock.
Alone(b) == \A c \in Bindings \ {b} : cred[c] # cred[b]

\* A binding the Cloud Controller was given has its credential, which its app may
\* read, whatever other binds and unbinds, crashes and lost answers there were
\* (main.go:120-142).  Three things may break it, and nothing else: a clock that
\* shows one time twice, a map torn unnoticed, and a request whose body was not read.
BoundHasCredential ==
  \A b \in Bindings :
    view[b] = "bound" /\ Alone(b) /\ ~raced
      => cred[b] \in store /\ (b \in AppGuid => <<cred[b], b>> \in granted)

\* An unbind that is answered has deleted the credential (main.go:156-163): also when
\* the name was forgotten in a restart, where it must not be answered.  A torn map and
\* a name made twice are excepted.
UnbindDeletes ==
  \A b \in Bindings : view[b] = "unbound" /\ Alone(b) /\ ~raced => cred[b] \notin store

\* A credential nobody can delete any more, its name forgotten, needs a death of the
\* broker (main.go:166), or the race of two accesses of the map (main.go:129): an
\* answer that is lost or a client that fails is not enough.
ForgottenNeedsDeath ==
  \A b \in Bindings :
    pc[b] = "idle" /\ cred[b] \in store /\ NameMap[b] # cred[b] /\ Alone(b)
      => crashed \/ raced
=============================================================================
