----------------------------- MODULE DataLayer -----------------------------
(***************************************************************************)
(* The data layer: the doubly linked list of nodes (linkedList.cpp), the   *)
(* node operations with their splits and merges (listNode.cpp) and the     *)
(* optimistic version lock of every node (VersionedLock.h), as concurrent  *)
(* user threads execute them.  Threads enter the list at a node the search *)
(* layer gives them; the replica they read follows the operations they log *)
(* after a delay and in any order, which is what Replication delivers.     *)
(*                                                                         *)
(* Atomicity.  A step reads or writes one field that another thread can    *)
(* see without a lock: max, next, prev, deleted, numEntries, the lock.     *)
(* min never changes once a node is in the list.  The entries of a node    *)
(* are written in one step: only a lock holder and a reader that validates *)
(* the version afterwards look at them.                                    *)
(*                                                                         *)
(* The lock of a node is the optimistic lock that VersionedLock is proved  *)
(* to implement: a flag, and for every reader whether a writer has locked  *)
(* the node since.                                                         *)
(***************************************************************************)
EXTENDS Integers, Sequences, FiniteSets

CONSTANTS
    Threads,
    Keys,         \* a finite set of naturals holding 0, the key of the head
    MaxKey,       \* ULLONG_MAX, the minimum of the tail
    Vals, NoVal,
    MaxEntries,   \* MAX_ENTRIES (64)
    MaxNodes,     \* a bound on the nodes ever allocated
    CounterRange, \* 2^32, the range of the uint32_t numInserts
    Scenarios     \* what happens to a list: [layout, program], the initial list,
                  \* a sequence of [min, entries], and for each thread its
                  \* calls, each a set to pick from

Null == 0
HeadNode == 1
TailNode == 2
NodeIds == 1 .. MaxNodes

ASSUME ConstantsAssumption ==
    /\ Keys \subseteq Nat /\ 0 \in Keys /\ IsFiniteSet(Keys)
    /\ MaxKey \in Nat /\ \A k \in Keys : k < MaxKey
    /\ NoVal \notin Vals
    /\ MaxEntries \in Nat /\ MaxEntries >= 2 /\ MaxEntries % 2 = 0
    /\ CounterRange \in Nat \ {0, 1, 2}
    /\ MaxNodes \in Nat /\ \A s \in Scenarios : MaxNodes > Len(s.layout)

Entries == [Keys -> Vals \cup {NoVal}]

(* A layout is a list the operations can build: the head starts at key 0   *)
(* and never leaves, and every entry lies in its node's range.             *)
LayoutMax(L, i) == IF i = Len(L) THEN MaxKey ELSE L[i + 1].min

IsLayout(L) ==
    /\ L \in Seq([min : Keys, entries : Entries])
    /\ Len(L) > 0
    /\ L[1].min = 0
    /\ \A i \in DOMAIN L :
         /\ L[i].min < LayoutMax(L, i)
         /\ \A k \in Keys : L[i].entries[k] # NoVal =>
               L[i].min <= k /\ k < LayoutMax(L, i)

ASSUME LayoutAssumption == \A s \in Scenarios : IsLayout(s.layout)

Request == [op : {"insert", "update", "remove", "lookup"}, key : Keys, val : Vals]

ASSUME ProgramAssumption ==
    \A s \in Scenarios : s.program \in [Threads -> Seq(SUBSET Request)]

SL == INSTANCE SearchLayer WITH Nodes <- NodeIds, NoNode <- Null

VARIABLES
    node,       \* node[n]: the fields of ListNode n
    nalloc,     \* nodes 1 .. nalloc have been allocated
    todo,       \* todo[t]: the calls thread t has still to begin
    pc, req,    \* the step and the call of a thread
    start,      \* the node the walk restarts from: the parameter head
    cur,        \* the node the thread is at
    nbr,        \* the new node of a split, the other node of a merge
    aux,        \* nextNode in insert
    fresh,      \* fresh[t]: the version t read at cur[t] has not changed
    res,        \* the result, "pending" until the operation takes effect
    sl,         \* the search-layer replica
    logged      \* operations logged and not yet applied to the replica

local == <<start, cur, nbr, aux, fresh>>
vars == <<node, nalloc, todo, pc, req, local, res, sl, logged>>

Present(e) == {k \in Keys : e[k] # NoVal}

(* numEntries; the tail claims to be full.                                 *)
NumEntries(n) == IF n = TailNode THEN MaxEntries ELSE Cardinality(Present(node[n].entries))

(* A node id of the initial list: the head is 1, the tail 2.               *)
LayoutId(L, i) == IF i = 1 THEN HeadNode ELSE IF i = Len(L) + 1 THEN TailNode ELSE i + 1

NoEntries == [k \in Keys |-> NoVal]

Blank == [min |-> 0, max |-> 0, next |-> Null, prev |-> Null,
          deleted |-> FALSE, locked |-> FALSE, entries |-> NoEntries]

(* The nodes of layout L.  It is LinkedList::initialize when L is the one  *)
(* node [0, {0}]: the tail is its own predecessor until the first split.   *)
InitialNodes(L) ==
    [n \in NodeIds |->
       IF n = TailNode
         THEN [Blank EXCEPT !.min = MaxKey, !.max = MaxKey,
                            !.prev = IF Len(L) = 1 THEN TailNode ELSE LayoutId(L, Len(L))]
         ELSE LET i == IF n = HeadNode THEN 1 ELSE n - 1 IN
              IF i > Len(L) THEN Blank
              ELSE [Blank EXCEPT !.min = L[i].min,
                                 !.max = LayoutMax(L, i),
                                 !.next = LayoutId(L, i + 1),
                                 !.prev = IF i = 1 THEN Null ELSE LayoutId(L, i - 1),
                                 !.entries = L[i].entries]]

(* The search layer once the splits that made layout L are applied.        *)
InitialIndex(L) ==
    [idx |-> [k \in Keys |->
                IF \E i \in 2 .. Len(L) : L[i].min = k
                  THEN LayoutId(L, CHOOSE i \in 2 .. Len(L) : L[i].min = k)
                  ELSE Null],
     curMin |-> IF Len(L) = 1 THEN MaxKey ELSE L[2].min,
     numInserts |-> (Len(L) - 1) % CounterRange]

Init ==
    /\ \E s \in Scenarios :
          /\ node = InitialNodes(s.layout)
          /\ nalloc = Len(s.layout) + 1
          /\ sl = InitialIndex(s.layout)
          /\ todo = s.program
    /\ pc = [t \in Threads |-> "idle"]
    /\ req = [t \in Threads |-> [op |-> "lookup", key |-> 0, val |-> CHOOSE v \in Vals : TRUE]]
    /\ start = [t \in Threads |-> HeadNode]
    /\ cur = [t \in Threads |-> HeadNode]
    /\ nbr = [t \in Threads |-> Null]
    /\ aux = [t \in Threads |-> Null]
    /\ fresh = [t \in Threads |-> FALSE]
    /\ res = [t \in Threads |-> "pending"]
    /\ logged = {}
-----------------------------------------------------------------------------
Goto(t, l) == pc' = [pc EXCEPT ![t] = l]

Key(t) == req[t].key

Op(t) == req[t].op

CheckRange(n, k) == node[n].min <= k /\ k < node[n].max

(* A user's call of HydraListImpl::insert, update, remove or lookup.       *)
Call(t) ==
    /\ pc[t] = "idle" /\ todo[t] # <<>>
    /\ todo' = [todo EXCEPT ![t] = Tail(@)]
    /\ \E r \in Head(todo[t]) : req' = [req EXCEPT ![t] = r]
    /\ res' = [res EXCEPT ![t] = "pending"]
    /\ Goto(t, "jump")
    /\ UNCHANGED <<node, nalloc, local, sl, logged>>

(* getJumpNode: the test for an empty replica, then the search of its tree. *)
GetJumpNode(t) ==
    /\ pc[t] = "jump"
    /\ IF SL!IsEmpty(sl)
         THEN /\ start' = [start EXCEPT ![t] = HeadNode]
              /\ cur' = [cur EXCEPT ![t] = HeadNode]
              /\ Goto(t, "walk")
         ELSE Goto(t, "search") /\ UNCHANGED <<start, cur>>
    /\ UNCHANGED <<node, nalloc, todo, req, nbr, aux, fresh, res, sl, logged>>

SearchTree(t) ==
    /\ pc[t] = "search"
    /\ \E n \in SL!SLLookup(sl, Key(t)) :
          LET j == IF n = Null THEN HeadNode ELSE n IN
          /\ start' = [start EXCEPT ![t] = j]
          /\ cur' = [cur EXCEPT ![t] = j]
    /\ Goto(t, "walk")
    /\ UNCHANGED <<node, nalloc, todo, req, nbr, aux, fresh, res, sl, logged>>

(* Variant: the walk only goes right. *)
WalkOnlyRight(t) ==
    /\ pc[t] = "walk"
    /\ Goto(t, IF CheckRange(cur[t], Key(t)) THEN "lock" ELSE "right")
    /\ UNCHANGED <<node, nalloc, todo, req, start, cur, nbr, aux, fresh, res, sl, logged>>

(* One round of the loop that finds the node: to the predecessor while the *)
(* minimum is above the key, to the successor while the range is below it. *)
(* The successor is read after max, in a step of its own.                  *)
Walk(t) ==
    /\ pc[t] = "walk"
    /\ \/ /\ node[cur[t]].min > Key(t)
          /\ cur' = [cur EXCEPT ![t] = node[cur[t]].prev]
          /\ UNCHANGED pc
       \/ /\ node[cur[t]].min <= Key(t)
          /\ Goto(t, IF CheckRange(cur[t], Key(t)) THEN "lock" ELSE "right")
          /\ UNCHANGED cur
    /\ UNCHANGED <<node, nalloc, todo, req, start, nbr, aux, fresh, res, sl, logged>>

WalkRight(t) ==
    /\ pc[t] = "right"
    /\ cur' = [cur EXCEPT ![t] = node[cur[t]].next]
    /\ Goto(t, "walk")
    /\ UNCHANGED <<node, nalloc, todo, req, start, nbr, aux, fresh, res, sl, logged>>

(* goto restart: from the same node, except that remove first moves its    *)
(* starting node one to the left.                                          *)
Restart(t) ==
    LET p == node[start[t]].prev
        s == IF Op(t) = "remove" /\ p # Null THEN p ELSE start[t]
    IN  /\ start' = [start EXCEPT ![t] = s]
        /\ cur' = [cur EXCEPT ![t] = s]
        /\ fresh' = [fresh EXCEPT ![t] = FALSE]
        /\ Goto(t, "walk")

(* The versioned lock: taking it moves the version on, so that whoever is  *)
(* reading the node optimistically will not validate.                      *)
Unlocked(n) == ~node[n].locked

(* Variant: the lock is taken and given back without a new version. *)
AcquireUnnoticed(n) ==
    /\ Unlocked(n)
    /\ node' = [node EXCEPT ![n].locked = TRUE]
    /\ UNCHANGED fresh

(* A write_lock of node n that succeeds.                                   *)
Acquire(n) ==
    /\ Unlocked(n)
    /\ node' = [node EXCEPT ![n].locked = TRUE]
    /\ fresh' = [t \in Threads |-> fresh[t] /\ cur[t] # n]

Released(n) == [node EXCEPT ![n].locked = FALSE]

IsWriter(t) == Op(t) # "lookup"

(* writeLock succeeds only on an even version, and takes it.               *)
WriteLock(t) ==
    /\ pc[t] = "lock" /\ IsWriter(t)
    /\ Acquire(cur[t])
    /\ Goto(t, "locked")
    /\ UNCHANGED <<nalloc, todo, req, start, cur, nbr, aux, res, sl, logged>>

(* writeLock fails when the node is locked or its compare-and-swap loses a *)
(* race; compare_exchange_weak may also fail for no reason.                *)
WriteLockFails(t) ==
    /\ pc[t] = "lock" /\ IsWriter(t)
    /\ Restart(t)
    /\ UNCHANGED <<node, nalloc, todo, req, nbr, aux, res, sl, logged>>

(* Variant: the range is not tested again after the lock. *)
MisplacedIgnoresRange(t) == node[cur[t]].deleted

(* The node was deleted, or the key left its range, before it was locked.  *)
Misplaced(t) == node[cur[t]].deleted \/ ~CheckRange(cur[t], Key(t))

(* The second look at deleted and at the range, under the lock.            *)
Recheck(t) ==
    /\ pc[t] = "locked" /\ Misplaced(t)
    /\ node' = Released(cur[t])
    /\ Restart(t)
    /\ UNCHANGED <<nalloc, todo, req, nbr, aux, res, sl, logged>>

(* The return to the caller: the locals of the call die.                   *)
Leave(t) ==
    /\ start' = [start EXCEPT ![t] = HeadNode]
    /\ cur' = [cur EXCEPT ![t] = HeadNode]
    /\ fresh' = [fresh EXCEPT ![t] = FALSE]
    /\ Goto(t, "idle")

(* writeUnlock at the end of an operation.                                 *)
Unlock(t) ==
    /\ pc[t] = "unlock"
    /\ node' = Released(cur[t])
    /\ Leave(t)
    /\ UNCHANGED <<nalloc, todo, req, nbr, aux, res, sl, logged>>

Finish(t, r) == res' = [res EXCEPT ![t] = r]
-----------------------------------------------------------------------------
(* lookup: an optimistic read between two loads of the version.            *)
ReadLock(t) ==
    /\ pc[t] = "lock" /\ ~IsWriter(t)
    /\ IF Unlocked(cur[t])
         THEN /\ fresh' = [fresh EXCEPT ![t] = TRUE]
              /\ Goto(t, "read")
              /\ UNCHANGED <<start, cur>>
         ELSE Restart(t)
    /\ UNCHANGED <<node, nalloc, todo, req, nbr, aux, res, sl, logged>>

(* Variant: a lookup that is misplaced tries the same node again. *)
ReadStays(t) ==
    /\ pc[t] = "read"
    /\ IF Misplaced(t)
         THEN Goto(t, "lock") /\ UNCHANGED aux
         ELSE /\ aux' = [aux EXCEPT ![t] = node[cur[t]].entries[Key(t)]]
              /\ Goto(t, "validate")
    /\ UNCHANGED <<node, nalloc, todo, req, start, cur, nbr, fresh, res, sl, logged>>

(* The answer is kept in aux until it is validated.                        *)
Read(t) ==
    /\ pc[t] = "read"
    /\ IF Misplaced(t)
         THEN Restart(t) /\ UNCHANGED aux
         ELSE /\ aux' = [aux EXCEPT ![t] = node[cur[t]].entries[Key(t)]]
              /\ Goto(t, "validate")
              /\ UNCHANGED <<start, cur, fresh>>
    /\ UNCHANGED <<node, nalloc, todo, req, nbr, res, sl, logged>>

ReadUnlock(t) ==
    /\ pc[t] = "validate"
    /\ aux' = [aux EXCEPT ![t] = Null]
    /\ IF fresh[t]
         THEN /\ Finish(t, IF aux[t] = NoVal THEN "no" ELSE aux[t])
              /\ Goto(t, "return")
              /\ UNCHANGED <<start, cur, fresh>>
         ELSE Restart(t) /\ UNCHANGED res
    /\ UNCHANGED <<node, nalloc, todo, req, nbr, sl, logged>>

LookupReturn(t) ==
    /\ pc[t] = "return"
    /\ Leave(t)
    /\ UNCHANGED <<node, nalloc, todo, req, nbr, aux, res, sl, logged>>
-----------------------------------------------------------------------------
(* ListNode::update and ListNode::insert on a node that is locked and      *)
(* holds the key's range.                                                  *)
Update(t) ==
    /\ pc[t] = "locked" /\ Op(t) = "update" /\ ~Misplaced(t)
    /\ IF node[cur[t]].entries[Key(t)] = NoVal
         THEN Finish(t, "no") /\ UNCHANGED node
         ELSE /\ node' = [node EXCEPT ![cur[t]].entries[Key(t)] = req[t].val]
              /\ Finish(t, "ok")
    /\ Goto(t, "unlock")
    /\ UNCHANGED <<nalloc, todo, req, local, sl, logged>>

InsertHere(t) ==
    /\ pc[t] = "locked" /\ Op(t) = "insert" /\ ~Misplaced(t)
    /\ \/ /\ node[cur[t]].entries[Key(t)] # NoVal
          /\ Finish(t, "no")
          /\ UNCHANGED node
       \/ /\ node[cur[t]].entries[Key(t)] = NoVal
          /\ NumEntries(cur[t]) < MaxEntries
          /\ node' = [node EXCEPT ![cur[t]].entries[Key(t)] = req[t].val]
          /\ Finish(t, "ok")
    /\ Goto(t, "unlock")
    /\ UNCHANGED <<nalloc, todo, req, local, sl, logged>>

(* The key at index MAX_ENTRIES/2 of the sorted entries.                   *)
Median(e) ==
    CHOOSE k \in Present(e) :
        Cardinality({j \in Present(e) : j < k}) = MaxEntries \div 2

(* Variant: the predecessor is not set. *)
NewNodeNoPrev(c, min, entries) ==
    [Blank EXCEPT !.min = min, !.max = node[c].max, !.next = node[c].next,
                  !.entries = entries]

(* The node a split of node c makes.                                       *)
NewNode(c, min, entries) ==
    [Blank EXCEPT !.min = min, !.max = node[c].max, !.next = node[c].next,
                  !.prev = c, !.entries = entries]

(* split up to the setMax of the old node: the upper half moves to a new   *)
(* node nobody else can see yet, and the key goes to its side.             *)
Split(t) ==
    /\ pc[t] = "locked" /\ Op(t) = "insert" /\ ~Misplaced(t)
    /\ node[cur[t]].entries[Key(t)] = NoVal
    /\ NumEntries(cur[t]) = MaxEntries
    /\ nalloc < MaxNodes
    /\ LET c == cur[t]
           n == nalloc + 1
           med == Median(node[c].entries)
           all == [node[c].entries EXCEPT ![Key(t)] = req[t].val]
           low == [k \in Keys |-> IF k < med THEN all[k] ELSE NoVal]
           high == [k \in Keys |-> IF k >= med THEN all[k] ELSE NoVal]
       IN  /\ node' = [node EXCEPT
                         ![n] = NewNode(c, med, high),
                         ![c].entries = low]
           /\ nbr' = [nbr EXCEPT ![t] = n]
           /\ nalloc' = n
    /\ Finish(t, "ok")
    /\ Goto(t, "splitmax")
    /\ UNCHANGED <<todo, req, start, cur, aux, fresh, sl, logged>>

(* setMax(newMin)                                                          *)
SplitMax(t) ==
    /\ pc[t] = "splitmax"
    /\ node' = [node EXCEPT ![cur[t]].max = node[nbr[t]].min]
    /\ Goto(t, "splitlink")
    /\ UNCHANGED <<nalloc, todo, req, local, res, sl, logged>>

(* next = newNode                                                          *)
SplitLink(t) ==
    /\ pc[t] = "splitlink"
    /\ node' = [node EXCEPT ![cur[t]].next = nbr[t]]
    /\ Goto(t, "splitnext")
    /\ UNCHANGED <<nalloc, todo, req, local, res, sl, logged>>

(* nextNode = newNode->getNext(): the new node is not locked.              *)
SplitNext(t) ==
    /\ pc[t] = "splitnext"
    /\ aux' = [aux EXCEPT ![t] = node[nbr[t]].next]
    /\ Goto(t, "splitprev")
    /\ UNCHANGED <<node, nalloc, todo, req, start, cur, nbr, fresh, res, sl, logged>>

(* nextNode->setPrev(newNode): that node is not locked either.             *)
SplitPrev(t) ==
    /\ pc[t] = "splitprev"
    /\ node' = [node EXCEPT ![aux[t]].prev = nbr[t]]
    /\ aux' = [aux EXCEPT ![t] = Null]
    /\ Goto(t, "splitlog")
    /\ UNCHANGED <<nalloc, todo, req, start, cur, nbr, fresh, res, sl, logged>>

(* enqPerThreadLog(insert, newNode)                                        *)
SplitLog(t) ==
    /\ pc[t] = "splitlog"
    /\ logged' = logged \cup {[op |-> "insert", node |-> nbr[t]]}
    /\ nbr' = [nbr EXCEPT ![t] = Null]
    /\ Goto(t, "unlock")
    /\ UNCHANGED <<node, nalloc, todo, req, start, cur, aux, fresh, res, sl>>
-----------------------------------------------------------------------------
(* ListNode::remove                                                        *)
Remove(t) ==
    /\ pc[t] = "locked" /\ Op(t) = "remove" /\ ~Misplaced(t)
    /\ IF node[cur[t]].entries[Key(t)] = NoVal
         THEN /\ Finish(t, "no")
              /\ Goto(t, "unlock")
              /\ UNCHANGED node
         ELSE /\ node' = [node EXCEPT ![cur[t]].entries[Key(t)] = NoVal]
              /\ Finish(t, "ok")
              /\ Goto(t, "sizenext")
    /\ UNCHANGED <<nalloc, todo, req, local, sl, logged>>

SmallTogether(m, n) == NumEntries(m) + NumEntries(n) < MaxEntries \div 2

(* The size of the successor is read without its lock.                     *)
SizeNext(t) ==
    /\ pc[t] = "sizenext"
    /\ IF SmallTogether(cur[t], node[cur[t]].next)
         THEN /\ nbr' = [nbr EXCEPT ![t] = node[cur[t]].next]
              /\ Goto(t, "mnlock")
         ELSE Goto(t, "loadprev") /\ UNCHANGED nbr
    /\ UNCHANGED <<node, nalloc, todo, req, start, cur, aux, fresh, res, sl, logged>>

(* prev belongs to whoever owns the node on the left; it is read here, its *)
(* size is read next, and its lock is taken after that.                    *)
LoadPrev(t) ==
    /\ pc[t] = "loadprev"
    /\ nbr' = [nbr EXCEPT ![t] = node[cur[t]].prev]
    /\ Goto(t, IF node[cur[t]].prev = Null THEN "unlock" ELSE "sizeprev")
    /\ UNCHANGED <<node, nalloc, todo, req, start, cur, aux, fresh, res, sl, logged>>

SizePrev(t) ==
    /\ pc[t] = "sizeprev"
    /\ IF SmallTogether(cur[t], nbr[t])
         THEN Goto(t, "reload") /\ UNCHANGED nbr
         ELSE Goto(t, "unlock") /\ nbr' = [nbr EXCEPT ![t] = Null]
    /\ UNCHANGED <<node, nalloc, todo, req, start, cur, aux, fresh, res, sl, logged>>

(* mergeNode = prev: the compiled code may load prev again or use the      *)
(* pointer it has.                                                         *)
ReloadPrev(t) ==
    /\ pc[t] = "reload"
    /\ \E p \in {nbr[t], node[cur[t]].prev} : nbr' = [nbr EXCEPT ![t] = p]
    /\ Goto(t, "mplock")
    /\ UNCHANGED <<node, nalloc, todo, req, start, cur, aux, fresh, res, sl, logged>>

(* The nodes whose lock a merge may try: mergeWithNext locks deleteNode,   *)
(* mergeWithPrev locks prev, loaded once more or not.                      *)
LockTargets(t) == {nbr[t]} \cup IF pc[t] = "mplock" THEN {node[cur[t]].prev} ELSE {}

(* writeLock of the neighbour; if it fails there is no merge.              *)
LockNeighbour(t) ==
    /\ pc[t] \in {"mnlock", "mplock"}
    /\ \/ /\ \E n \in LockTargets(t) : Acquire(n)
          /\ Goto(t, IF pc[t] = "mnlock" THEN "mnmove" ELSE "mpmove")
          /\ UNCHANGED nbr
       \/ /\ Goto(t, "unlock")
          /\ nbr' = [nbr EXCEPT ![t] = Null]
          /\ UNCHANGED <<node, fresh>>
    /\ UNCHANGED <<nalloc, todo, req, start, cur, aux, res, sl, logged>>

(* The entries of node d that find a free slot move to node m; an entry    *)
(* that finds none stays behind.                                           *)
MoveEntries(d, m) ==
    \E moved \in SUBSET Present(node[d].entries) :
        /\ \/ moved = Present(node[d].entries)
           \/ NumEntries(m) + Cardinality(moved) = MaxEntries
        /\ NumEntries(m) + Cardinality(moved) <= MaxEntries
        /\ node' = [node EXCEPT
              ![m].entries = [k \in Keys |-> IF k \in moved THEN node[d].entries[k] ELSE @[k]],
              ![d].entries = [k \in Keys |-> IF k \in moved THEN NoVal ELSE @[k]]]

(* The two nodes of a merge: the one that goes and the one that stays.     *)
Goes(t)  == IF pc[t] \in {"mnmove", "mnnext", "mnprev", "mndel", "mnmax"} THEN nbr[t] ELSE cur[t]
Stays(t) == IF pc[t] \in {"mnmove", "mnnext", "mnprev", "mndel", "mnmax"} THEN cur[t] ELSE nbr[t]

After(t) ==
    CASE pc[t] = "mnmove" -> "mnnext" [] pc[t] = "mpmove" -> "mpnext"
      [] pc[t] = "mnnext" -> "mnprev" [] pc[t] = "mpnext" -> "mpprev"
      [] pc[t] = "mnprev" -> "mndel"  [] pc[t] = "mpprev" -> "mpdel"
      [] pc[t] = "mndel"  -> "mnmax"  [] pc[t] = "mpdel"  -> "mpmax"
      [] pc[t] = "mnmax"  -> "merged" [] pc[t] = "mpmax"  -> "mpunlock"

MergeMove(t) ==
    /\ pc[t] \in {"mnmove", "mpmove"}
    /\ MoveEntries(Goes(t), Stays(t))
    /\ Goto(t, After(t))
    /\ UNCHANGED <<nalloc, todo, req, local, res, sl, logged>>

(* The node that stays takes over the successor.                           *)
MergeNext(t) ==
    /\ pc[t] \in {"mnnext", "mpnext"}
    /\ node' = [node EXCEPT ![Stays(t)].next = node[Goes(t)].next]
    /\ Goto(t, After(t))
    /\ UNCHANGED <<nalloc, todo, req, local, res, sl, logged>>

(* Variant: the successor keeps its predecessor. *)
MergeKeepsPrev(t) ==
    /\ pc[t] \in {"mnprev", "mpprev"}
    /\ Goto(t, After(t))
    /\ UNCHANGED <<node, nalloc, todo, req, local, res, sl, logged>>

(* next->setPrev: the successor is not locked.                             *)
MergePrev(t) ==
    /\ pc[t] \in {"mnprev", "mpprev"}
    /\ node' = [node EXCEPT ![node[cur[t]].next].prev = Stays(t)]
    /\ Goto(t, After(t))
    /\ UNCHANGED <<nalloc, todo, req, local, res, sl, logged>>

MergeDelete(t) ==
    /\ pc[t] \in {"mndel", "mpdel"}
    /\ node' = [node EXCEPT ![Goes(t)].deleted = TRUE]
    /\ Goto(t, After(t))
    /\ UNCHANGED <<nalloc, todo, req, local, res, sl, logged>>

(* Variant: the node that stays keeps its maximum. *)
MergeKeepsMax(t) ==
    /\ pc[t] \in {"mnmax", "mpmax"}
    /\ Goto(t, After(t))
    /\ UNCHANGED <<node, nalloc, todo, req, local, res, sl, logged>>

(* setMax of the node that stays.                                          *)
MergeMax(t) ==
    /\ pc[t] \in {"mnmax", "mpmax"}
    /\ node' = [node EXCEPT ![Stays(t)].max = node[Goes(t)].max]
    /\ Goto(t, After(t))
    /\ UNCHANGED <<nalloc, todo, req, local, res, sl, logged>>

(* Variant: mergeWithPrev does not unlock either. *)
MergeKeepsLock(t) ==
    /\ pc[t] = "mpunlock"
    /\ nbr' = [nbr EXCEPT ![t] = cur[t]]
    /\ Goto(t, "merged")
    /\ UNCHANGED <<node, nalloc, todo, req, start, cur, aux, fresh, res, sl, logged>>

(* mergeWithPrev unlocks the node that stays; mergeWithNext leaves the     *)
(* deleted node locked for good.  write_unlock moves the version of        *)
(* mergeNode on by one, whichever node the lock was taken on.              *)
MergeUnlock(t) ==
    /\ pc[t] = "mpunlock"
    /\ node' = [node EXCEPT ![nbr[t]].locked = ~@]
    /\ fresh' = [u \in Threads |-> fresh[u] /\ cur[u] # nbr[t]]
    /\ nbr' = [nbr EXCEPT ![t] = cur[t]]
    /\ Goto(t, "merged")
    /\ UNCHANGED <<nalloc, todo, req, start, cur, aux, res, sl, logged>>

(* enqPerThreadLog(remove, delNode)                                        *)
MergeLog(t) ==
    /\ pc[t] = "merged"
    /\ logged' = logged \cup {[op |-> "remove", node |-> nbr[t]]}
    /\ nbr' = [nbr EXCEPT ![t] = Null]
    /\ Goto(t, "unlock")
    /\ UNCHANGED <<node, nalloc, todo, req, start, cur, aux, fresh, res, sl>>
-----------------------------------------------------------------------------
(* The worker thread applies a logged operation to the replica.            *)
ApplyLogged(o) ==
    /\ o \in logged
    /\ logged' = logged \ {o}
    /\ sl' = IF o.op = "insert" THEN SL!SLInsert(sl, node[o.node].min, o.node)
                                ELSE SL!SLRemove(sl, node[o.node].min, o.node)
    /\ UNCHANGED <<node, nalloc, todo, pc, req, local, res>>

Step(t) ==
    \/ GetJumpNode(t) \/ SearchTree(t) \/ Walk(t) \/ WalkRight(t)
    \/ WriteLock(t) \/ WriteLockFails(t) \/ Recheck(t) \/ Unlock(t)
    \/ ReadLock(t) \/ Read(t) \/ ReadUnlock(t) \/ LookupReturn(t)
    \/ Update(t) \/ InsertHere(t)
    \/ Split(t) \/ SplitMax(t) \/ SplitLink(t) \/ SplitNext(t) \/ SplitPrev(t)
    \/ SplitLog(t)
    \/ Remove(t) \/ SizeNext(t) \/ LoadPrev(t) \/ SizePrev(t) \/ ReloadPrev(t)
    \/ LockNeighbour(t)
    \/ MergeMove(t) \/ MergeNext(t) \/ MergePrev(t) \/ MergeDelete(t)
    \/ MergeMax(t) \/ MergeUnlock(t) \/ MergeLog(t)

Done == \A t \in Threads : pc[t] = "idle" /\ todo[t] = <<>>

Finished == Done /\ logged = {} /\ UNCHANGED vars

Next ==
    \/ \E t \in Threads : Call(t) \/ Step(t)
    \/ \E o \in logged : ApplyLogged(o)
    \/ Finished

Spec == Init /\ [][Next]_vars

(* A user thread inside an operation keeps running, and a lock that is     *)
(* free again and again is eventually taken.  The worker applies what is   *)
(* logged.                                                                 *)
Fairness ==
    /\ \A t \in Threads :
          WF_vars(Step(t)) /\ SF_vars(WriteLock(t)) /\ SF_vars(ReadLock(t) /\ pc'[t] = "read")
    /\ WF_vars(\E o \in logged : ApplyLogged(o))

FairSpec == Spec /\ Fairness
-----------------------------------------------------------------------------
Locals ==
    [start : NodeIds, cur : NodeIds, nbr : NodeIds \cup {Null},
     fresh : BOOLEAN, res : {"pending", "ok", "no"} \cup Vals]

(* Type invariant.  cur is never the null pointer: no walk runs off either *)
(* end of the list.                                                        *)
TypeOK ==
    /\ nalloc \in NodeIds
    /\ \A n \in NodeIds :
          /\ node[n].min \in Keys \cup {MaxKey} /\ node[n].max \in Keys \cup {MaxKey}
          /\ node[n].next \in NodeIds \cup {Null} /\ node[n].prev \in NodeIds \cup {Null}
          /\ node[n].deleted \in BOOLEAN /\ node[n].locked \in BOOLEAN
          /\ node[n].entries \in Entries
    /\ \A t \in Threads :
          /\ [start |-> start[t], cur |-> cur[t], nbr |-> nbr[t],
              fresh |-> fresh[t], res |-> res[t]] \in Locals
          /\ aux[t] \in NodeIds \cup {Null, NoVal} \cup Vals
    /\ sl \in SL!Replica
    /\ logged \subseteq [op : {"insert", "remove"}, node : NodeIds]

Private(n) == \E t \in Threads : pc[t] \in {"splitmax", "splitlink"} /\ nbr[t] = n

Linked == {n \in 1 .. nalloc : n # TailNode /\ ~node[n].deleted /\ ~Private(n)}

(* The ranges of the nodes tile the key space: the range of an unlocked    *)
(* node ends where the range of its successor begins, that successor is in *)
(* the list, and every entry is in its node's range.  Walks, which look at *)
(* unlocked nodes without synchronisation, rely on it.                     *)
RangesMeet ==
    \A n \in Linked : Unlocked(n) =>
        /\ node[n].max = node[node[n].next].min
        /\ ~node[node[n].next].deleted
        /\ \A k \in Present(node[n].entries) : CheckRange(n, k)

(* A step to the predecessor goes strictly left, so the walk to the left   *)
(* ends; only the tail, before its first setPrev, points to itself.        *)
PrevIsLeft ==
    \A n \in 1 .. nalloc \ {HeadNode} :
        /\ node[n].prev # Null
        /\ node[node[n].prev].min < node[n].min \/ (n = TailNode /\ node[n].prev = n)

(* No thread is between the entry to the list and the return.              *)
Quiescent == \A t \in Threads : pc[t] \in {"idle", "jump", "search"}

(* While no call is inside the list every node that is in it is unlocked:  *)
(* whatever path a call takes through split, through the size tests of     *)
(* remove and the two merges, or back to a retry, it gives back every lock *)
(* except the one on a node it has deleted.                                *)
UnlockedAtRest ==
    Quiescent => \A n \in 1 .. nalloc : node[n].deleted \/ Unlocked(n)

(* What the size tests of remove (listNode.cpp:424, 430) are for: the      *)
(* entries of a node that is deleted all find a slot in the node that      *)
(* stays.  It does not hold when the neighbour fills up between the test   *)
(* and its lock: the entries left behind are lost.                         *)
NothingLeftBehind ==
    \A n \in 1 .. nalloc : node[n].deleted => Present(node[n].entries) = {}

(* While no call is inside the list the predecessor of a successor is the  *)
(* node itself: the backward chain, whose owner is the node on the left,   *)
(* is the forward chain reversed.  It holds while only one thread changes  *)
(* the structure of the list; listNode.cpp:397-398 lets a second splitter  *)
(* break it, and walks make up for that by going right again.              *)
BackLinks ==
    Quiescent => \A n \in Linked : node[node[n].next].prev = n

(* The tree of a replica is searched only when it has a key: the test for  *)
(* an empty replica protects the search.                                   *)
SearchesFindTree ==
    \A t \in Threads : pc[t] = "search" =>
        Key(t) <= sl.curMin \/ SL!Present(sl) # {}

(* Every call returns.                                                     *)
CallsReturn == \A t \in Threads : (pc[t] # "idle") ~> (pc[t] = "idle")
=============================================================================
