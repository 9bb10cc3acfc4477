--------------------------- MODULE MCAsyncBroker ---------------------------
(* One instance (no handler touches another one's), a synchronous and an    *)
(* asynchronous plan and the maximum of data.json.  POST /config may make   *)
(* updates refuse, take every entry of provision away, raise the maximum    *)
(* and let an operation that is finished not say so, or write the instance  *)
(* with requests counted.                                                   *)
EXTENDS AsyncBroker, TLC

CONSTANTS sync, async, default, none, i1

const_Plans == {sync, async}
B(status, only) == [status |-> status, async_only |-> only]
F(in_progress, finished) == [in_progress |-> in_progress, finished |-> finished]
const_DataJson ==
  [behaviors |-> [a \in Actions |->
     sync :> none @@ async :> B("202", TRUE) @@ default :> B("200", FALSE)],
   fetch |-> sync :> none @@ async :> none @@ default :> F("in progress", "succeeded"),
   max |-> 1]
Unsent ==
  [behaviors |-> [a \in Actions |-> none], fetch |-> none, max |-> none,
   instances |-> i1 :> none]
const_Configurations ==
  { [Unsent EXCEPT !.behaviors["update"] =
       sync :> B("400", FALSE) @@ async :> B("202", FALSE) @@ default :> none],
    [Unsent EXCEPT !.behaviors["provision"] = [k \in Keys |-> none]],
    [Unsent EXCEPT !.max = 2, !.fetch =
       sync :> none @@ async :> F("500", "in progress") @@ default :> F("500", "failed")],
    [Unsent EXCEPT !.instances =
       i1 :> [plan_id |-> sync, fetch_count |-> 1, deleted |-> FALSE]] }
=============================================================================
