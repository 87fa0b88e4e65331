----------------------------- MODULE MCListScan -----------------------------
(* An instance of ListScan: a list of thin nodes, which removals merge in  *)
(* both directions, and a full one, which an insertion splits.             *)
EXTENDS ListScan, TLC

CONSTANTS t1, t2, s1, a, b, none

Fill(K) == [k \in Keys |-> IF k \in K THEN a ELSE none]

Node(m, K) == [min |-> m, entries |-> Fill(K)]

Calls(op, K) == {[op |-> op, key |-> k, val |-> b] : k \in K}

MCKeys == 0 .. 9

MixedList == <<Node(0, {0}), Node(2, {2}), Node(4, {4}), Node(5, {5, 6, 7, 8})>>

(* One thread changes the structure of the list.                           *)
MixedProgram ==
    t1 :> <<Calls("remove", {2, 4}), Calls("remove", {0, 2}) \cup Calls("insert", {9})>>
    @@ t2 :> <<Calls("insert", {3}) \cup Calls("lookup", {4})>>

Mixed == {[layout |-> MixedList, program |-> MixedProgram]}
=============================================================================
