--------------------------- MODULE AsyncOperation ---------------------------
(***************************************************************************)
(* What the broker's README promises under "Fetching Status": since an     *)
(* operation on an instance has begun, last_operation gives the configured *)
(* "in_progress" response until it has been asked more than                *)
(* max_fetch_service_instance_requests times, and the "finished" response  *)
(* from then on.  An instance the broker does not know is "failed".  The   *)
(* configuration may change the number and may write an instance, with the *)
(* requests it has seen; a reset reads data.json again and forgets the     *)
(* instances.                                                              *)
(***************************************************************************)
EXTENDS Integers

CONSTANTS
  Instances,
  Limit,        \* the largest number ever configured
  NoOperation

VARIABLES
  asked,  \* per instance: the requests since its operation began
  max,    \* max_fetch_service_instance_requests
  said    \* per instance: the last response since its operation began, or was written

vars == <<asked, max, said>>

\* Counts are not told apart above Limit.
Count(n) == IF n > Limit THEN n ELSE n + 1

Init ==
  /\ asked = [i \in Instances |-> NoOperation]
  /\ max \in 0..Limit
  /\ said = [i \in Instances |-> "nothing"]

Start(i) ==
  /\ asked' = [asked EXCEPT ![i] = 0]
  /\ said' = [said EXCEPT ![i] = "nothing"]
  /\ UNCHANGED max

Answer(i, response) ==
  /\ asked' = [asked EXCEPT ![i] = Count(@)]
  /\ said' = [said EXCEPT ![i] = response]
  /\ UNCHANGED max

AnswerInProgress(i) ==
  asked[i] # NoOperation /\ asked[i] + 1 <= max /\ Answer(i, "in_progress")

AnswerFinished(i) ==
  asked[i] # NoOperation /\ asked[i] + 1 > max /\ Answer(i, "finished")

AnswerFailed(i) ==
  /\ asked[i] = NoOperation
  /\ said' = [said EXCEPT ![i] = "failed"]
  /\ UNCHANGED <<asked, max>>

\* The instances in S are written, with some count of requests each.
Configure(S) ==
  /\ max' \in 0..Limit
  /\ \E counts \in [Instances -> 0..(Limit + 1)] :
       asked' = [i \in Instances |-> IF i \in S THEN counts[i] ELSE asked[i]]
  /\ said' = [i \in Instances |-> IF i \in S THEN "written" ELSE said[i]]

\* data.json is read again; what it does not know of S any more is not asked for.
Forget(S) ==
  /\ max' \in 0..Limit
  /\ asked' = [i \in Instances |-> IF i \in S THEN NoOperation ELSE asked[i]]
  /\ UNCHANGED said

Next ==
  \/ \E i \in Instances :
       Start(i) \/ AnswerInProgress(i) \/ AnswerFinished(i) \/ AnswerFailed(i)
  \/ \E S \in SUBSET Instances : Configure(S) \/ Forget(S)

Spec == Init /\ [][Next]_vars
=============================================================================
