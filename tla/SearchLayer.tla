---------------------------- MODULE SearchLayer ----------------------------
(***************************************************************************)
(* ArtRowexIndex (hydralist/src/SearchLayer.h): one replica of the search  *)
(* layer.  The radix tree is abstracted to the map it stores, from the     *)
(* minimum key of a list node to the node; the two words the wrapper keeps *)
(* beside the tree, curMin and numInserts, are modelled as they are.       *)
(* A replica is a value: the operators below return the new replica, and   *)
(* the modules that own one say when it changes.                           *)
(***************************************************************************)
EXTENDS Integers

CONSTANTS
    Keys,          \* the keys a list node can have as its minimum
    MaxKey,        \* ULLONG_MAX, above every key
    Nodes,         \* the list nodes the index can point to
    NoNode,        \* nullptr
    CounterRange   \* 2^32, the range of the uint32_t numInserts

ASSUME KeyAssumption ==
    /\ Keys \subseteq Nat
    /\ MaxKey \in Nat
    /\ \A k \in Keys : k < MaxKey

ASSUME NodeAssumption == NoNode \notin Nodes

ASSUME CounterAssumption == CounterRange \in Nat \ {0, 1, 2}

Replica == [idx : [Keys -> Nodes \cup {NoNode}],
            curMin : Keys \cup {MaxKey},
            numInserts : 0 .. CounterRange - 1]

(* The constructor. *)
EmptyReplica == [idx |-> [k \in Keys |-> NoNode],
                 curMin |-> MaxKey,
                 numInserts |-> 0]

(* insert: Tree::insert replaces the leaf of a key that is already there;  *)
(* numInserts counts the call, not the new leaf.  The tree, curMin and     *)
(* numInserts change one after the other, the tree first.  A reader asks   *)
(* isEmpty, then curMin, then the tree, so one that sees the old words and *)
(* the new tree asked before an update in one step and searched after it:  *)
(* a key above the old curMin is above the new one.                        *)
SLInsert(sl, key, ptr) ==
    [idx |-> [sl.idx EXCEPT ![key] = ptr],
     curMin |-> IF key < sl.curMin THEN key ELSE sl.curMin,
     numInserts |-> (sl.numInserts + 1) % CounterRange]

(* Variant: a counter that does not wrap. *)
SLRemoveSigned(sl, key, ptr) ==
    [sl EXCEPT !.idx[key] = IF @ = ptr THEN NoNode ELSE @,
               !.numInserts = @ - 1]

(* remove: Tree::remove takes the leaf out only when it holds this very    *)
(* pointer; numInserts is decremented either way and curMin never rises.   *)
SLRemove(sl, key, ptr) ==
    [sl EXCEPT !.idx[key] = IF @ = ptr THEN NoNode ELSE @,
               !.numInserts = (@ - 1) % CounterRange]

IsEmpty(sl) == sl.numInserts < 2

Present(sl) == {k \in Keys : sl.idx[k] # NoNode}

(* The nearest key at or below key, and the nearest above it.              *)
Floor(sl, key) ==
    {k \in Present(sl) : k <= key /\ \A j \in Present(sl) : j <= key => j <= k}

Ceiling(sl, key) ==
    {k \in Present(sl) : k > key /\ \A j \in Present(sl) : j > key => k <= j}

(* lookup: the nodes the call may return.  Tree::lookupNext ends at the    *)
(* neighbour of key on one side or the other, whichever its descent finds  *)
(* first; a key at or below curMin is answered without the tree.           *)
SLLookup(sl, key) ==
    IF key <= sl.curMin
      THEN {NoNode}
      ELSE LET k == IF key \in Present(sl) THEN {key}
                                           ELSE Floor(sl, key) \cup Ceiling(sl, key)
           IN  {sl.idx[j] : j \in k}
=============================================================================
