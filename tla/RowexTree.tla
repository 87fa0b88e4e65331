----------------------------- MODULE RowexTree -----------------------------
(***************************************************************************)
(* The radix tree of a search layer (hydralist/lib/ARTROWEX): Tree::insert *)
(* and Tree::remove by the one worker thread of the replica, while user    *)
(* threads run Tree::lookupNext without locks.  The worker is the only     *)
(* writer of its tree, so its locks are always granted and its restarts    *)
(* never taken; what it does between two stores a reader can see is one    *)
(* step.  A reader reads one node per step.  Nodes are never reused here:  *)
(* module Epoche shows that none is freed under a reader.                  *)
(*                                                                         *)
(* A child is 0 (nullptr), the number of an inner node, or -t, the leaf    *)
(* with TID t (the code tags leaves with bit 63).                          *)
(***************************************************************************)
EXTENDS Integers, Sequences, FiniteSets, FiniteSetsExt

CONSTANTS
    Readers,
    Bytes,         \* the values of a key's byte, from 0
    KeyOf,         \* KeyOf[t]: the key of TID t, by loadKey; a sequence of keys
    MaxStored,     \* maxStoredPrefixLength
    Capacity,      \* the slots of N4, N16, N48 and N256
    CompactMax,    \* the most children with which a full node is compacted
    ShrinkAt,      \* the number of children at which remove refuses (0: never)
    Loads          \* what happens to a tree: [setup, left, tids, probes]

Tids == DOMAIN KeyOf
Keys == {KeyOf[t] : t \in Tids}
N4 == 1
N256 == 4
Root == 1
MaxByte == Max(Bytes)

VARIABLES
    heap,      \* the nodes, in the order of their allocation
    map,       \* the map the tree stands for: the TID of each key, 0 if none
    fix,       \* the prefix the worker still has to store in a node
    load,      \* the TIDs still to insert before the readers start; after that
               \* the operations left to the worker, on which TIDs, and the keys
               \* looked up
    rd         \* rd[r]: the lookup of reader r

vars == <<heap, map, fix, load, rd>>

IsLeaf(c) == c < 0
Children(nd) == {b \in Bytes : nd.kids[b] # 0}
Count(nd) == Cardinality(Children(nd))

With(kids, b, c) == [kids EXCEPT ![b] = c]
NoKids == [b \in Bytes |-> 0]

(* setPrefix, which stores the first bytes of a prefix of any length.      *)
Stored(s) == [i \in 1 .. MaxStored |-> IF i <= Len(s) THEN s[i] ELSE 0]

Node(kind, level, prefix, length, kids) ==
    [kind |-> kind, level |-> level, prefix |-> prefix, length |-> length, kids |-> kids,
     used |-> Cardinality({b \in Bytes : kids[b] # 0})]

NoFix == [node |-> 0]
Idle == [pc |-> "idle"]

Init ==
    /\ heap = <<Node(N256, 0, Stored(<<>>), 0, NoKids)>>
    /\ map = [k \in Keys |-> 0]
    /\ fix = NoFix
    /\ load \in Loads
    /\ rd = [r \in Readers |-> Idle]
-----------------------------------------------------------------------------
(* getLargestChild and getSmallestChild; 0 if there is none.               *)
LargestChild(n, b) ==
    LET s == {c \in Children(heap[n]) : c <= b} IN IF s = {} THEN 0 ELSE heap[n].kids[Max(s)]

SmallestChild(n, b) ==
    LET s == {c \in Children(heap[n]) : c >= b} IN IF s = {} THEN 0 ELSE heap[n].kids[Min(s)]

(* getAnyChildTid: a leaf below a node, leaves first.                      *)
RECURSIVE AnyTid(_)
AnyTid(n) ==
    LET kids == {heap[n].kids[b] : b \in Children(heap[n])}
        leaves == {c \in kids : IsLeaf(c)}
    IN IF leaves # {} THEN -Min(leaves) ELSE AnyTid(Max(kids))

(* The prefix checks compare the key with the stored bytes of the prefix,  *)
(* and beyond them with the key of some leaf below, loaded when the        *)
(* comparison passes the last stored byte.  i is a place in the prefix;    *)
(* First is where the comparison starts when it starts at level.           *)
First(nd, level) == (level + nd.length) - nd.level

PrefixByte(n, i, level) ==
    IF i >= MaxStored THEN KeyOf[AnyTid(n)][level + (i - First(heap[n], level)) + 1]
                      ELSE heap[n].prefix[i + 1]

Mismatches(n, k, level, end) ==
    {i \in First(heap[n], level) .. (end - 1) :
        PrefixByte(n, i, level) # k[level + (i - First(heap[n], level)) + 1]}

(* A comparison that starts beyond the byte at which the key is loaded     *)
(* reads a Key nobody has set.  Only a reader can be there, in a node      *)
(* whose prefix the worker has yet to cut.                                 *)
Unloaded(nd, level) == MaxStored < First(nd, level) /\ First(nd, level) < nd.length

(* The bytes a reader compares with: any, from such a Key.                 *)
SeenBytes(n, level) ==
    LET places == First(heap[n], level) .. (heap[n].length - 1)
    IN IF Unloaded(heap[n], level) THEN [places -> Bytes]
                                   ELSE {[i \in places |-> PrefixByte(n, i, level)]}

SkippedLevel(nd, level) == nd.length + level < nd.level

(* The level after a prefix that matches.                                  *)
Matched(nd, level, end) == level + Max({0, end - First(nd, level)})
-----------------------------------------------------------------------------
(* The descents of insert and remove: the place where the operation takes  *)
(* effect.  The worker finds no level skipped: it stored the prefixes.     *)
Place(what, node, parent, parentKey, level) ==
    [what |-> what, node |-> node, parent |-> parent, parentKey |-> parentKey, level |-> level]

(* checkPrefix of remove compares the stored bytes only.                   *)
RECURSIVE DescendOptimistic(_, _, _, _, _)
DescendOptimistic(k, node, parent, parentKey, level) ==
    LET nd == heap[node]
        bad == Mismatches(node, k, level, Min({nd.length, MaxStored}))
        next == Matched(nd, level, nd.length)
        child == nd.kids[k[next + 1]]
    IN IF bad # {} THEN Place("prefix", node, parent, parentKey, level)
       ELSE IF child <= 0 THEN Place("child", node, parent, parentKey, next)
       ELSE DescendOptimistic(k, child, node, k[next + 1], next + 1)

(* checkPrefixPessimistic of insert compares all of it.                    *)
RECURSIVE Descend(_, _, _, _, _)
Descend(k, node, parent, parentKey, level) ==
    LET nd == heap[node]
        bad == Mismatches(node, k, level, nd.length)
        next == Matched(nd, level, nd.length)
        child == nd.kids[k[next + 1]]
    IN IF bad # {} THEN Place("prefix", node, parent, parentKey, level)
       ELSE IF child <= 0 THEN Place("child", node, parent, parentKey, next)
       ELSE Descend(k, child, node, k[next + 1], next + 1)

(* What a lookup is judged by: met, the TIDs in the tree at some moment of *)
(* it, stable, those there all the time, and whether the children of its   *)
(* node have changed since it last looked for the largest.                 *)
Present == {map[k] : k \in Keys} \ {0}
Running(r) == rd[r].pc \notin {"idle", "done", "null", "abort"}

Note ==
    rd' = [r \in Readers |-> IF ~Running(r) THEN rd[r]
             ELSE [rd[r] EXCEPT !.met = @ \cup Present', !.stable = @ \cap Present',
                                !.turned = @ \/ heap'[rd[r].node].kids # heap[rd[r].node].kids]]

(* N::change stores a child of an existing node: the store that makes an   *)
(* operation visible.                                                      *)
Link(n, b, c) == heap' = [heap EXCEPT ![n].kids[b] = c]

LinkNew(n, b, node) ==
    heap' = Append([heap EXCEPT ![n].kids[b] = Len(heap) + 1], node)
-----------------------------------------------------------------------------
(* insert where a prefix differs: a new node takes the common part, then   *)
(* the old node's prefix is cut in a second store.                         *)
Split(p, k, t) ==
    LET nd == heap[p.node]
        i == Min(Mismatches(p.node, k, p.level, nd.length))
        next == p.level + (i - First(nd, p.level))
        cut == Node(N4, next, nd.prefix, next - p.level,
                    With(With(NoKids, k[next + 1], -t), PrefixByte(p.node, i, p.level), p.node))
        rest == [j \in 1 .. (nd.length - (next - p.level) - 1) |-> PrefixByte(p.node, i + j, p.level)]
    IN /\ LinkNew(p.parent, p.parentKey, cut)
       /\ fix' = [node |-> p.node, prefix |-> Stored(rest), length |-> Len(rest)]

(* insertAndUnlock: into a free slot, into a compacted copy when slots of  *)
(* removed children take up the room, or into a copy of the next kind.     *)
Add(p, b, t) ==
    LET nd == heap[p.node]
        room == nd.kind = N256 \/ nd.used < Capacity[nd.kind]
        kind == IF Count(nd) <= CompactMax[nd.kind] THEN nd.kind ELSE nd.kind + 1
    IN /\ IF room
            THEN heap' = [heap EXCEPT ![p.node].kids[b] = -t,
                                     ![p.node].used = IF nd.kind = N256 THEN @ ELSE @ + 1]
            ELSE LinkNew(p.parent, p.parentKey,
                         Node(kind, nd.level, nd.prefix, nd.length, With(nd.kids, b, -t)))
       /\ UNCHANGED fix

(* A leaf in the way is replaced if it has the same key, and else put      *)
(* below a new node with the bytes the two keys share.                     *)
Expand(p, k, t) ==
    LET b == k[p.level + 1]
        leaf == -heap[p.node].kids[b]
        level == p.level + 1
        fork == Min({i \in level .. Len(k) - 1 : KeyOf[leaf][i + 1] # k[i + 1]})
    IN /\ IF KeyOf[leaf] = k
            THEN Link(p.node, b, -t)
            ELSE LinkNew(p.node, b,
                   Node(N4, fork, Stored(SubSeq(k, level + 1, fork)), fork - level,
                        With(With(NoKids, k[fork + 1], -t), KeyOf[leaf][fork + 1], -leaf)))
       /\ UNCHANGED fix

Insert(t) ==
    LET k == KeyOf[t]
        p == Descend(k, Root, 0, 0, 0)
    IN /\ map' = [map EXCEPT ![k] = t]
       /\ CASE p.what = "prefix" -> Split(p, k, t)
            [] p.what = "child" /\ heap[p.node].kids[k[p.level + 1]] = 0 -> Add(p, k[p.level + 1], t)
            [] OTHER -> Expand(p, k, t)

(* addPrefixBefore: the prefix of the node above and the byte between go   *)
(* in front of the prefix of the child that takes its place.               *)
Joined(nd, b, child) ==
    LET stored(x) == SubSeq(x.prefix, 1, Min({x.length, MaxStored}))
    IN [prefix |-> Stored(stored(nd) \o (IF nd.length < MaxStored THEN <<b>> ELSE <<>>)
                            \o stored(child)),
        length |-> nd.length + 1 + child.length]

(* remove leaves a node of two children with one, which is linked in its   *)
(* place; an inner node gets its longer prefix in a second store.          *)
Collapse(p, b) ==
    LET nd == heap[p.node]
        other == CHOOSE c \in Children(nd) : c # b
        second == nd.kids[other]
        joined == Joined(nd, other, heap[second])
    IN /\ Link(p.parent, p.parentKey, second)
       /\ fix' = IF IsLeaf(second) THEN NoFix
                 ELSE [node |-> second, prefix |-> joined.prefix, length |-> joined.length]

(* Variant: the copy is made before the child is removed. *)
TakeCopyFirst(p, b) ==
    LET nd == heap[p.node]
        less == With(nd.kids, b, 0)
    IN /\ IF Count(nd) # ShrinkAt[nd.kind] \/ p.parent = 0
            THEN heap' = [heap EXCEPT ![p.node].kids = less]
            ELSE heap' = Append([heap EXCEPT ![p.node].kids = less,
                                             ![p.parent].kids[p.parentKey] = Len(heap) + 1],
                                Node(nd.kind - 1, nd.level, nd.prefix, nd.length, nd.kids))
       /\ UNCHANGED fix

(* removeAndUnlock: in place, or in a copy of the kind below when few      *)
(* children are left; the slot stays used.                                 *)
Take(p, b) ==
    LET nd == heap[p.node]
        less == With(nd.kids, b, 0)
    IN /\ IF Count(nd) # ShrinkAt[nd.kind] \/ p.parent = 0
            THEN heap' = [heap EXCEPT ![p.node].kids = less]
            ELSE heap' = Append([heap EXCEPT ![p.node].kids = less,
                                             ![p.parent].kids[p.parentKey] = Len(heap) + 1],
                                Node(nd.kind - 1, nd.level, nd.prefix, nd.length, less))
       /\ UNCHANGED fix

Remove(t) ==
    LET k == KeyOf[t]
        p == DescendOptimistic(k, Root, 0, 0, 0)
        b == k[p.level + 1]
    IN IF p.what = "child" /\ heap[p.node].kids[b] = -t
         THEN /\ IF Count(heap[p.node]) = 2 /\ p.node # Root THEN Collapse(p, b) ELSE Take(p, b)
              /\ map' = [map EXCEPT ![k] = 0]
         ELSE UNCHANGED <<heap, fix, map>>

Starting == load.setup # <<>>

Work ==
    /\ fix.node = 0
    /\ Starting \/ load.left > 0
    /\ \E t \in IF Starting THEN {Head(load.setup)} ELSE load.tids :
          Insert(t) \/ (~Starting /\ Remove(t))
    /\ load' = IF Starting THEN [load EXCEPT !.setup = Tail(@)]
                           ELSE [load EXCEPT !.left = @ - 1]
    /\ Note

(* The second store of a split or a collapse.                              *)
StorePrefix ==
    /\ fix.node # 0
    /\ heap' = [heap EXCEPT ![fix.node].prefix = fix.prefix, ![fix.node].length = fix.length]
    /\ fix' = NoFix
    /\ UNCHANGED <<map, load>>
    /\ Note
-----------------------------------------------------------------------------
NewLookup(r, k, node) ==
    [pc |-> "prefix", key |-> k, node |-> node, level |-> heap[node].level - heap[node].length,
     tid |-> 0, met |-> Present, stable |-> Present, turned |-> FALSE, skipped |-> FALSE,
     unloaded |-> FALSE]

(* lookupNext.                                                             *)
Call(r, k) ==
    /\ rd[r].pc \in {"idle", "done"}
    /\ ~Starting /\ Cardinality(Present) >= 2
    /\ rd' = [rd EXCEPT ![r] = NewLookup(r, k, Root)]
    /\ UNCHANGED <<heap, map, fix, load>>

Move(r, to) == rd' = [rd EXCEPT ![r] = to] /\ UNCHANGED <<heap, map, fix, load>>

(* On to a child, in the mode pc; a leaf ends the lookup, and a nullptr is *)
(* dereferenced.                                                           *)
Follow(r, c, pc) ==
    Move(r, IF c = 0 THEN [rd[r] EXCEPT !.pc = "null"]
            ELSE IF IsLeaf(c) THEN [rd[r] EXCEPT !.pc = "done", !.tid = -c]
            ELSE [rd[r] EXCEPT !.pc = pc, !.node = c])

(* checkPrefixCompare: below a smaller prefix the answer is the largest    *)
(* leaf, below a bigger one the smallest; a skipped level ends the match.  *)
SkipLevel(r) ==
    /\ rd[r].pc = "prefix" /\ SkippedLevel(heap[rd[r].node], rd[r].level)
    /\ Move(r, [rd[r] EXCEPT !.pc = "largest", !.skipped = TRUE])

ComparePrefix(r) ==
    LET nd == heap[rd[r].node]
        level == rd[r].level
        keyByte(i) == rd[r].key[level + (i - First(nd, level)) + 1]
    IN /\ rd[r].pc = "prefix" /\ ~SkippedLevel(nd, level)
       /\ \E seen \in SeenBytes(rd[r].node, level) :
            LET bad == {i \in DOMAIN seen : seen[i] # keyByte(i)}
                to == IF bad = {}
                        THEN [rd[r] EXCEPT !.pc = "child", !.level = Matched(nd, level, nd.length)]
                      ELSE [rd[r] EXCEPT !.pc = IF seen[Min(bad)] < keyByte(Min(bad))
                                                  THEN "max" ELSE "min"]
            IN Move(r, [to EXCEPT !.unloaded = @ \/ Unloaded(nd, level)])

(* The assertion of Key::operator[], or a fault in a build without it.     *)
ReadUnsetKey(r) ==
    /\ rd[r].pc = "prefix" /\ ~SkippedLevel(heap[rd[r].node], rd[r].level)
    /\ Unloaded(heap[rd[r].node], rd[r].level)
    /\ Move(r, [rd[r] EXCEPT !.pc = "abort"])

StartByte(r) == rd[r].key[rd[r].level + 1]

ReadChild(r) ==
    LET c == heap[rd[r].node].kids[StartByte(r)] IN
    /\ rd[r].pc = "child"
    /\ IF c = 0 THEN Move(r, [rd[r] EXCEPT !.pc = "largest"])
       ELSE IF IsLeaf(c) THEN Follow(r, c, "prefix")
       ELSE Move(r, [rd[r] EXCEPT !.pc = "prefix", !.node = c, !.level = @ + 1])

(* Variant: the leftmost leaf below the largest child. *)
ReadLargestThenMin(r) ==
    LET c == LargestChild(rd[r].node, StartByte(r)) IN
    /\ rd[r].pc = "largest"
    /\ IF c = 0 THEN Move(r, [rd[r] EXCEPT !.pc = "smallest", !.turned = FALSE])
       ELSE Follow(r, c, "min")

(* Variant: no second look for the smallest child. *)
ReadLargestOnly(r) ==
    /\ rd[r].pc = "largest"
    /\ Follow(r, LargestChild(rd[r].node, StartByte(r)), "max")

(* The match ended inside the tree: the largest child up to the key, or    *)
(* else the smallest one from it.                                          *)
ReadLargest(r) ==
    LET c == LargestChild(rd[r].node, StartByte(r)) IN
    /\ rd[r].pc = "largest"
    /\ IF c = 0 THEN Move(r, [rd[r] EXCEPT !.pc = "smallest", !.turned = FALSE])
       ELSE Follow(r, c, "max")

ReadSmallest(r) ==
    /\ rd[r].pc = "smallest"
    /\ Follow(r, SmallestChild(rd[r].node, StartByte(r)), "min")

DescendMax(r) ==
    /\ rd[r].pc = "max"
    /\ Follow(r, LargestChild(rd[r].node, MaxByte), "max")

DescendMin(r) ==
    /\ rd[r].pc = "min"
    /\ Follow(r, SmallestChild(rd[r].node, 0), "min")

Next ==
    \/ Work \/ StorePrefix
    \/ \E r \in Readers :
        \/ \E k \in load.probes : Call(r, k)
        \/ SkipLevel(r) \/ ComparePrefix(r) \/ ReadUnsetKey(r)
        \/ ReadChild(r) \/ ReadLargest(r) \/ ReadSmallest(r)
        \/ DescendMax(r) \/ DescendMin(r)

Spec == Init /\ [][Next]_vars
-----------------------------------------------------------------------------
RECURSIVE Find(_, _)
Find(k, c) ==
    IF c <= 0 THEN (IF c < 0 /\ KeyOf[-c] = k THEN -c ELSE 0)
    ELSE Find(k, heap[c].kids[k[heap[c].level + 1]])

(* The leaves reached from the root are the map the worker maintains, also *)
(* between the two stores of a split or a collapse: no insertion, growth,  *)
(* compaction, shrinking or removal loses or doubles another key.          *)
TreeIsMap == \A k \in Keys : Find(k, Root) = map[k]

Less(a, b) == \E i \in DOMAIN a : a[i] < b[i] /\ \A j \in 1 .. i - 1 : a[j] = b[j]
LessEq(a, b) == a = b \/ Less(a, b)

(* Nothing that was in the tree all the time lies between a key and the    *)
(* answer, the key itself included.                                        *)
Nearest(key, tid, stable) ==
    \A t \in stable \ {tid} :
        /\ ~(LessEq(key, KeyOf[t]) /\ Less(KeyOf[t], KeyOf[tid]))
        /\ ~(LessEq(KeyOf[t], key) /\ Less(KeyOf[tid], KeyOf[t]))

(* "Gets the value of the key if present or the value of key just less     *)
(* than/greater than key" (SearchLayer.h).                                 *)
LookupIsNearest ==
    \A r \in Readers : rd[r].pc = "done" => Nearest(rd[r].key, rd[r].tid, rd[r].stable)

(* A lookup returns a node whose key was in the tree at some moment of it, *)
(* however many operations of the worker it overlaps, and the nearest one  *)
(* if it met no node whose prefix the worker had yet to lengthen, or to    *)
(* cut beyond its stored bytes.                                            *)
LookupIsNear ==
    \A r \in Readers : rd[r].pc = "done" =>
        /\ rd[r].tid \in rd[r].met
        /\ ~(rd[r].skipped \/ rd[r].unloaded) => Nearest(rd[r].key, rd[r].tid, rd[r].stable)

(* "assert(i < len)" (Key.h): the byte of a key is read only when the key  *)
(* has been set.                                                           *)
KeysAreLoaded == \A r \in Readers : rd[r].pc # "abort"

(* "Art segfaults if range operation is done when there are less than 2    *)
(* keys" (SearchLayer.h): started with two, a lookup finds a child, unless *)
(* all of them went away, or those of a node changed between the two looks *)
(* it takes at it.                                                         *)
NullOnlyIfTurned ==
    \A r \in Readers : rd[r].pc = "null" => (rd[r].turned \/ rd[r].stable = {})
=============================================================================
