----------------------------- MODULE Dictionary -----------------------------
(***************************************************************************)
(* What the data layer promises its callers: a map from keys to values     *)
(* whose operations take effect in one step, at some moment between their  *)
(* call and their return.                                                  *)
(***************************************************************************)
EXTENDS FiniteSets

CONSTANTS Threads, Keys, Vals, NoVal, InitMaps

Request ==
    [op : {"insert", "update", "remove", "lookup"}, key : Keys, val : Vals]

VARIABLES
    map,      \* the value of every key, NoVal where there is none
    req,      \* the request of a thread that is in a call
    stage,    \* "idle", "called" or "done"
    res       \* what the call of a thread in stage "done" returns

vars == <<map, req, stage, res>>

Init ==
    /\ map \in InitMaps
    /\ req \in [Threads -> Request]
    /\ stage = [t \in Threads |-> "idle"]
    /\ res = [t \in Threads |-> "pending"]

Call(t) ==
    /\ stage[t] = "idle"
    /\ stage' = [stage EXCEPT ![t] = "called"]
    /\ \E r \in Request : req' = [req EXCEPT ![t] = r]
    /\ res' = [res EXCEPT ![t] = "pending"]
    /\ UNCHANGED map

(* insert fails on a key that is there; update and remove fail on one that *)
(* is not; lookup answers with the value.                                  *)
Outcome(r, v) ==
    CASE r.op = "insert" -> IF v = NoVal THEN <<"ok", r.val>> ELSE <<"no", v>>
      [] r.op = "update" -> IF v = NoVal THEN <<"no", NoVal>> ELSE <<"ok", r.val>>
      [] r.op = "remove" -> IF v = NoVal THEN <<"no", NoVal>> ELSE <<"ok", NoVal>>
      [] r.op = "lookup" -> IF v = NoVal THEN <<"no", NoVal>> ELSE <<v, v>>

TakeEffect(t) ==
    /\ stage[t] = "called"
    /\ LET k == req[t].key
           o == Outcome(req[t], map[k])
       IN  /\ map' = [map EXCEPT ![k] = o[2]]
           /\ res' = [res EXCEPT ![t] = o[1]]
    /\ stage' = [stage EXCEPT ![t] = "done"]
    /\ UNCHANGED req

Return(t) ==
    /\ stage[t] = "done"
    /\ stage' = [stage EXCEPT ![t] = "idle"]
    /\ UNCHANGED <<map, req, res>>

Next == \E t \in Threads : Call(t) \/ TakeEffect(t) \/ Return(t)

Spec == Init /\ [][Next]_vars
=============================================================================
