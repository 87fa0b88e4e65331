------------------------------ MODULE BTreeOLC ------------------------------
(***************************************************************************)
(* The B-tree with optimistic lock coupling of BTreeOLC/BTreeOLC.h: insert *)
(* splits full nodes on its way down and starts again after each split;    *)
(* lookup and scan take no lock and check the versions of the nodes they   *)
(* read.  A read that the next check of the same node validates is one     *)
(* step with that check.  A node's contents change in one step, under its  *)
(* lock: a torn read is of a locked node, and fails its check.             *)
(***************************************************************************)
EXTENDS Integers, Sequences, FiniteSets

CONSTANTS
    Writers, Readers,
    Keys, Values,
    NoValue,
    LeafMax,         \* BTreeLeaf::maxEntries
    InnerMax,        \* BTreeInner::maxEntries
    Range,           \* the range of a scan
    Loads,           \* what happens to a tree: [setup, left, new, asked]
    SetupValue,      \* the value of the insertions of the setup, not in Values
    MaxVersion       \* a bound on the version of a node

VARIABLES
    heap,       \* the nodes, in the order of their allocation
    root,
    map,        \* the map the tree stands for
    load,       \* the keys still to insert before the others start; after that
                \* the insertions left, their keys, and the keys the readers ask for
    th          \* th[t]: the operation of thread t

vars == <<heap, root, map, load, th>>

Threads == Writers \cup Readers

Leaf(keys, vals) == [leaf |-> TRUE, keys |-> keys, vals |-> vals, kids |-> <<>>, version |-> 0]
Inner(keys, kids) == [leaf |-> FALSE, keys |-> keys, vals |-> <<>>, kids |-> kids, version |-> 0]

Idle == [pc |-> "idle"]

Init ==
    /\ heap = <<Leaf(<<>>, <<>>)>>
    /\ root = 1
    /\ map = [k \in Keys |-> NoValue]
    /\ load \in Loads
    /\ th = [t \in Threads |-> Idle]

Locked(v) == v % 2 = 1

LowerBound(keys, k) == 1 + Cardinality({i \in DOMAIN keys : keys[i] < k})

IsFull(nd) == IF nd.leaf THEN Len(nd.keys) = LeafMax ELSE Len(nd.keys) = InnerMax - 1

InsertAt(s, i, x) == SubSeq(s, 1, i - 1) \o <<x>> \o SubSeq(s, i, Len(s))

(* BTreeLeaf::insert; a key that is there gets the new payload.            *)
LeafInsert(nd, k, v) ==
    LET pos == LowerBound(nd.keys, k) IN
    IF pos <= Len(nd.keys) /\ nd.keys[pos] = k THEN [nd EXCEPT !.vals[pos] = v]
    ELSE [nd EXCEPT !.keys = InsertAt(@, pos, k), !.vals = InsertAt(@, pos, v)]

(* BTreeInner::insert: the new child goes to the right of the old one.     *)
InnerInsert(nd, k, child) ==
    LET pos == LowerBound(nd.keys, k) IN
    [nd EXCEPT !.keys = InsertAt(@, pos, k), !.kids = InsertAt(@, pos + 1, child)]

(* split: m is the count that stays; an inner node gives its key m + 1 to  *)
(* the parent.                                                             *)
SplitLeaf(nd) ==
    LET n == Len(nd.keys)
        m == n - (n - n \div 2)
    IN [left |-> [nd EXCEPT !.keys = SubSeq(@, 1, m), !.vals = SubSeq(@, 1, m)],
        sep |-> nd.keys[m],
        right |-> Leaf(SubSeq(nd.keys, m + 1, n), SubSeq(nd.vals, m + 1, n))]

SplitInner(nd) ==
    LET n == Len(nd.keys)
        m == n - (n - n \div 2) - 1
    IN [left |-> [nd EXCEPT !.keys = SubSeq(@, 1, m), !.kids = SubSeq(@, 1, m + 1)],
        sep |-> nd.keys[m + 1],
        right |-> Inner(SubSeq(nd.keys, m + 2, n), SubSeq(nd.kids, m + 2, n + 1))]

-----------------------------------------------------------------------------
Set(t, s) == th' = [th EXCEPT ![t] = s]
Goto(t, l) == Set(t, [th[t] EXCEPT !.pc = l])
Tree == <<heap, root, map>>

(* A call, and every restart.                                              *)
Begin(op, k, v) ==
    [pc |-> "root", op |-> op, key |-> k, val |-> v, node |-> 0, version |-> 0,
     parent |-> 0, versionParent |-> 0, result |-> <<>>, seen |-> {map}]

Restart(t) ==
    Set(t, [th[t] EXCEPT !.pc = "root", !.node = 0, !.version = 0,
                         !.parent = 0, !.versionParent = 0, !.result = <<>>])

Starting ==
    \/ load.setup # <<>>
    \/ \E w \in Writers : th[w].pc # "idle" /\ th[w].val = SetupValue

CallSetup(t) ==
    /\ load.setup # <<>> /\ \A w \in Writers : th[w].pc = "idle"
    /\ Set(t, Begin("insert", Head(load.setup), SetupValue))
    /\ load' = [load EXCEPT !.setup = Tail(@)]
    /\ UNCHANGED Tree

CallInsert(t) ==
    /\ th[t].pc = "idle" /\ ~Starting /\ load.left > 0
    /\ \E k \in load.new, v \in Values : Set(t, Begin("insert", k, v))
    /\ load' = [load EXCEPT !.left = @ - 1]
    /\ UNCHANGED Tree

CallRead(t) ==
    /\ th[t].pc \in {"idle", "done"} /\ ~Starting
    /\ \E op \in {"lookup", "scan"}, k \in load.asked : Set(t, Begin(op, k, NoValue))
    /\ UNCHANGED <<Tree, load>>

ReadRoot(t) ==
    /\ th[t].pc = "root"
    /\ Set(t, [th[t] EXCEPT !.pc = "version", !.node = root])
    /\ UNCHANGED <<Tree, load>>

(* readLockOrRestart of a node, and for the root that it is still the root.*)
ReadVersion(t) ==
    LET n == th[t].node IN
    /\ th[t].pc = "version"
    /\ IF Locked(heap[n].version) \/ (th[t].parent = 0 /\ n # root) THEN Restart(t)
       ELSE Set(t, [th[t] EXCEPT !.version = heap[n].version,
                      !.pc = IF ~heap[n].leaf THEN "inner"
                             ELSE IF th[t].op = "insert" THEN "insert" ELSE "read"])
    /\ UNCHANGED <<Tree, load>>

ParentUnchanged(t) == th[t].parent = 0 \/ heap[th[t].parent].version = th[t].versionParent
NodeUnchanged(t) == heap[th[t].node].version = th[t].version

(* An inner node: insert splits a full one; else the parent is checked.    *)
VisitInner(t) ==
    /\ th[t].pc = "inner"
    /\ IF th[t].op = "insert" /\ IsFull(heap[th[t].node]) THEN Goto(t, "lockParent")
       ELSE IF ParentUnchanged(t) THEN Goto(t, "child") ELSE Restart(t)
    /\ UNCHANGED <<Tree, load>>

ReadChild(t) ==
    LET nd == heap[th[t].node] IN
    /\ th[t].pc = "child"
    /\ IF NodeUnchanged(t)
         THEN Set(t, [th[t] EXCEPT !.pc = "version", !.parent = th[t].node,
                        !.versionParent = th[t].version,
                        !.node = nd.kids[LowerBound(nd.keys, th[t].key)]])
         ELSE Restart(t)
    /\ UNCHANGED <<Tree, load>>
-----------------------------------------------------------------------------
(* The locks are taken with one compare-and-exchange on the version read.  *)
Bump(h, n) == [h EXCEPT ![n].version = @ + 1]
CanBump(n) == heap[n].version < MaxVersion

LockParent(t) ==
    LET p == th[t].parent IN
    /\ th[t].pc = "lockParent"
    /\ IF p = 0 THEN Goto(t, "lockNode") /\ UNCHANGED heap
       ELSE IF ParentUnchanged(t)
         THEN CanBump(p) /\ heap' = Bump(heap, p) /\ Goto(t, "lockNode")
         ELSE Restart(t) /\ UNCHANGED heap
    /\ UNCHANGED <<root, map, load>>

LockNode(t) ==
    LET n == th[t].node
        p == th[t].parent
    IN /\ th[t].pc = "lockNode"
       /\ IF NodeUnchanged(t)
            THEN CanBump(n) /\ heap' = Bump(heap, n) /\ Goto(t, "split")
            ELSE heap' = (IF p = 0 THEN heap ELSE Bump(heap, p)) /\ Restart(t)
       /\ UNCHANGED <<root, map, load>>

(* The split; without a parent the node must still be the root (it always  *)
(* is, for its version was read while it was), and a new root is made.     *)
SplitNode(t) ==
    LET n == th[t].node
        p == th[t].parent
        s == IF heap[n].leaf THEN SplitLeaf(heap[n]) ELSE SplitInner(heap[n])
        new == Len(heap) + 1
    IN /\ th[t].pc = "split"
       /\ IF p = 0 /\ n # root
            THEN heap' = Bump(heap, n) /\ Restart(t) /\ UNCHANGED root
            ELSE /\ IF p = 0
                      THEN /\ heap' = [heap EXCEPT ![n] = s.left]
                                        \o <<s.right, Inner(<<s.sep>>, <<n, new>>)>>
                           /\ root' = new + 1
                      ELSE /\ heap' = Append([heap EXCEPT ![n] = s.left,
                                                 ![p] = InnerInsert(@, s.sep, new)], s.right)
                           /\ UNCHANGED root
                 /\ Goto(t, "unlockNode")
       /\ UNCHANGED <<map, load>>

UnlockNode(t) ==
    /\ th[t].pc = "unlockNode"
    /\ heap' = Bump(heap, th[t].node)
    /\ IF th[t].parent = 0 THEN Restart(t) ELSE Goto(t, "unlockParent")
    /\ UNCHANGED <<root, map, load>>

UnlockParent(t) ==
    /\ th[t].pc = "unlockParent"
    /\ heap' = Bump(heap, th[t].parent)
    /\ Restart(t)
    /\ UNCHANGED <<root, map, load>>

(* Variant: the leaf is locked whatever happened since it was read. *)
LockLeafBlindly(t) ==
    LET n == th[t].node IN
    /\ th[t].pc = "insert"
    /\ IF IsFull(heap[n]) THEN Goto(t, "lockParent") /\ UNCHANGED heap
       ELSE IF ~Locked(heap[n].version)
         THEN CanBump(n) /\ heap' = Bump(heap, n) /\ Goto(t, "checkLeaf")
         ELSE Restart(t) /\ UNCHANGED heap
    /\ UNCHANGED <<root, map, load>>

(* A leaf with room is locked alone, and its parent checked after that.    *)
LockLeaf(t) ==
    LET n == th[t].node IN
    /\ th[t].pc = "insert"
    /\ IF IsFull(heap[n]) THEN Goto(t, "lockParent") /\ UNCHANGED heap
       ELSE IF NodeUnchanged(t)
         THEN CanBump(n) /\ heap' = Bump(heap, n) /\ Goto(t, "checkLeaf")
         ELSE Restart(t) /\ UNCHANGED heap
    /\ UNCHANGED <<root, map, load>>

CheckLeafParent(t) ==
    /\ th[t].pc = "checkLeaf"
    /\ IF ParentUnchanged(t) THEN Goto(t, "store") /\ UNCHANGED heap
       ELSE heap' = Bump(heap, th[t].node) /\ Restart(t)
    /\ UNCHANGED <<root, map, load>>

(* The insertion, which every running read may see or not.                 *)
Store(t) ==
    LET n == th[t].node
        m == [map EXCEPT ![th[t].key] = th[t].val]
    IN /\ th[t].pc = "store"
       /\ heap' = Bump([heap EXCEPT ![n] = LeafInsert(@, th[t].key, th[t].val)], n)
       /\ map' = m
       /\ th' = [u \in Threads |-> IF u = t THEN Idle
                  ELSE IF u \in Readers /\ th[u].pc \notin {"idle", "done"}
                    THEN [th[u] EXCEPT !.seen = @ \cup {m}] ELSE th[u]]
       /\ UNCHANGED <<root, load>>
-----------------------------------------------------------------------------
(* lookup and scan in the leaf, then the checks of the parent and the leaf.*)
(* The bool of lookup is uninitialized when the key is absent; its callers *)
(* ignore it, and only the payload is modelled.                            *)
ReadLeaf(t) ==
    LET nd == heap[th[t].node]
        pos == LowerBound(nd.keys, th[t].key)
        last == IF th[t].op = "scan" THEN pos + Range - 1
                ELSE IF pos <= Len(nd.keys) /\ nd.keys[pos] = th[t].key THEN pos ELSE pos - 1
    IN /\ th[t].pc = "read"
       /\ Set(t, [th[t] EXCEPT !.pc = "checkParent",
                     !.result = SubSeq(nd.vals, pos, IF last < Len(nd.vals) THEN last ELSE Len(nd.vals))])
       /\ UNCHANGED <<Tree, load>>

(* Variant: only the leaf is checked. *)
CheckParentNever(t) ==
    /\ th[t].pc = "checkParent"
    /\ Goto(t, "checkNode")
    /\ UNCHANGED <<Tree, load>>

CheckParent(t) ==
    /\ th[t].pc = "checkParent"
    /\ IF ParentUnchanged(t) THEN Goto(t, "checkNode") ELSE Restart(t)
    /\ UNCHANGED <<Tree, load>>

(* Variant: a scan does not check its leaf. *)
CheckNodeLookup(t) ==
    /\ th[t].pc = "checkNode"
    /\ IF th[t].op = "scan" \/ NodeUnchanged(t) THEN Goto(t, "done") ELSE Restart(t)
    /\ UNCHANGED <<Tree, load>>

CheckNode(t) ==
    /\ th[t].pc = "checkNode"
    /\ IF NodeUnchanged(t) THEN Goto(t, "done") ELSE Restart(t)
    /\ UNCHANGED <<Tree, load>>

Next ==
    \/ \E t \in Writers :
        \/ CallSetup(t) \/ CallInsert(t) \/ LockParent(t) \/ LockNode(t) \/ SplitNode(t) \/ UnlockNode(t)
        \/ UnlockParent(t) \/ LockLeaf(t) \/ CheckLeafParent(t) \/ Store(t)
    \/ \E t \in Readers : CallRead(t) \/ ReadLeaf(t) \/ CheckParent(t) \/ CheckNode(t)
    \/ \E t \in Threads : ReadRoot(t) \/ ReadVersion(t) \/ VisitInner(t) \/ ReadChild(t)

Spec == Init /\ [][Next]_vars
-----------------------------------------------------------------------------
RECURSIVE Find(_, _)
Find(n, k) ==
    LET nd == heap[n]
        pos == LowerBound(nd.keys, k)
    IN IF ~nd.leaf THEN Find(nd.kids[pos], k)
       ELSE IF pos <= Len(nd.keys) /\ nd.keys[pos] = k THEN nd.vals[pos] ELSE NoValue

(* A search from the root finds what was last stored under a key: no split *)
(* and no insertion into a leaf that was split meanwhile loses a key or    *)
(* leaves it where the separators do not lead.                             *)
TreeIsMap == \A k \in Keys : Find(root, k) = map[k]

(* The values a scan of map m from k returns, if it reaches n entries.     *)
From(m, k, n) ==
    LET ks == {j \in Keys : j >= k /\ m[j] # NoValue}
        nth(i) == CHOOSE j \in ks : Cardinality({x \in ks : x <= j}) = i
    IN IF Cardinality(ks) < n THEN <<>> ELSE [i \in 1 .. n |-> m[nth(i)]]

(* lookup returns a payload the key had at some moment of the call, or     *)
(* finds nothing only if it was absent at some moment: the check of the    *)
(* parent after the leaf was read is what makes a split visible.           *)
LookupsLinearize ==
    \A r \in Readers : (th[r].pc = "done" /\ th[r].op = "lookup") =>
        \E m \in th[r].seen :
            th[r].result = IF m[th[r].key] = NoValue THEN <<>> ELSE <<m[th[r].key]>>

(* scan, which ends with its leaf, returns the entries that followed the   *)
(* key at one moment of the call, and none only if none followed it: "no   *)
(* more entries" for the loop of BTreeOLCIndex::scan (index.h).            *)
ScansAreSnapshots ==
    \A r \in Readers : (th[r].pc = "done" /\ th[r].op = "scan") =>
        \E m \in th[r].seen :
            /\ th[r].result = From(m, th[r].key, Len(th[r].result))
            /\ th[r].result = <<>> => \A k \in Keys : k >= th[r].key => m[k] = NoValue
=============================================================================
