---------------------------- MODULE MCDataLayer ----------------------------
(* Instances of DataLayer: the keys, the initial list and who calls what.  *)
EXTENDS DataLayerMap, TLC

CONSTANTS t1, t2, t3, a, b, none

Fill(K) == [k \in Keys |-> IF k \in K THEN a ELSE none]

Node(m, K) == [min |-> m, entries |-> Fill(K)]

R(op, k) == [op |-> op, key |-> k, val |-> b]

Scenario(list, calls) == [layout |-> list, program |-> calls]

Calls(ops, K) == {R(op, k) : op \in ops, k \in K}

(* A few keys each. *)
Keys5 == 0 .. 4
Keys7 == 0 .. 6
Keys10 == 0 .. 9

(* The list of LinkedList::initialize: the head with key 0, and the tail.  *)
FreshList == <<Node(0, {0})>>

(* Two writers that split the same nodes, and a reader.                    *)
SplitProgram ==
    t1 :> <<Calls({"insert"}, {2}), Calls({"insert"}, {3})>>
    @@ t2 :> <<Calls({"insert"}, {1, 3, 4}) \cup Calls({"update"}, {2})>>
    @@ t3 :> <<Calls({"lookup"}, {2, 3})>>

(* One thread empties nodes, which merge with the next or the previous     *)
(* one; the other uses the head.                                           *)
ShortList == <<Node(0, {0}), Node(2, {2}), Node(4, {4})>>

MergeProgram ==
    t1 :> <<Calls({"remove"}, {2, 4}), Calls({"remove"}, {2, 4})>>
    @@ t2 :> <<Calls({"insert"}, {1}) \cup Calls({"lookup"}, {2})>>
    @@ t3 :> << >>

SplitAndMerge ==
    {Scenario(FreshList, SplitProgram), Scenario(ShortList, MergeProgram)}

(* Everything the search layer points to can be merged away.               *)
EmptyTreeProgram ==
    t1 :> <<Calls({"remove"}, {4}), Calls({"remove"}, {2})>>
    @@ t2 :> <<Calls({"lookup"}, {3})>>

EmptyTree == {Scenario(ShortList, EmptyTreeProgram)}

(* Nodes so thin that a removal merges them, and one that is not.          *)
ThinList == <<Node(0, {0}), Node(2, {2}), Node(4, {4}), Node(5, {5, 6})>>

(* A call that enters the list at a node that was merged away.             *)
DeletedJumpProgram ==
    t1 :> <<Calls({"remove"}, {2}), Calls({"lookup"}, {4})>>
    @@ t2 :> <<Calls({"lookup"}, {0})>>

DeletedJump == {Scenario(ThinList, DeletedJumpProgram)}

(* Two threads that remove keys of their own from neighbouring nodes.      *)
UnevenList == <<Node(0, {0}), Node(2, {2}), Node(3, {3, 4}), Node(5, {5, 6})>>

RemoversProgram ==
    t1 :> <<Calls({"remove"}, {4}), Calls({"remove"}, {3})>>
    @@ t2 :> <<Calls({"remove"}, {2})>>

TwoRemovers == {Scenario(UnevenList, RemoversProgram)}

(* A node that a removal finds empty fills up before the merge.            *)
GapList == <<Node(0, {0, 1}), Node(2, {2, 3}), Node(4, {}), Node(8, {8, 9})>>

FillingProgram ==
    t1 :> <<Calls({"remove"}, {2})>>
    @@ t2 :> [i \in 1 .. 4 |-> Calls({"insert"}, {i + 3})] \o <<Calls({"lookup"}, 4 .. 7)>>

FillingUp == {Scenario(GapList, FillingProgram)}
=============================================================================
