# HydraList in TLA+

HydraList (`src/hydralist`) is a concurrent ordered index. Its entries live in a
**data layer**, a doubly linked list of nodes of up to 64 entries. A **search
layer**, a radix tree replicated once per NUMA node, maps the minimum key of a
list node to the node. User threads change the list at once and log the nodes
that appear and disappear; background threads bring the replicas up to date
later. A call therefore enters the list at a node that may be out of date, and
walks to the right one.

## The system

| Part | State | Operations that change it | Source |
|---|---|---|---|
| VersionedLock | version | read_lock, write_lock, read_unlock, write_unlock | `VersionedLock.h` |
| LinkedList, ListNode | min, max, next, prev, deleted, lock and entries of a node | insert, update, remove, lookup, scan; split, mergeWithNext, mergeWithPrev | `linkedList.cpp`, `listNode.cpp` |
| ArtRowexIndex | tree, curMin, numInserts | insert, remove, lookup, isEmpty | `SearchLayer.h` |
| ART ROWEX | tree nodes | insert, remove, lookupNext | `lib/ARTROWEX/Tree.cpp`, `N*.cpp` |
| Epoche | epochs, deletion lists | enterEpoche, markNodeForDeletion, exitEpocheAndCleanup | `lib/ARTROWEX/Epoche.cpp` |
| Oplog | two queues and mutexes per thread, curQ | enq, getOpLog | `Oplog.cpp` |
| Combiner | logQueue, doneCountCombiner | combineLogs, broadcastMergedLog, freeMergedLogs | `Combiner.h` |
| Workers | workQueue, logDoneCount, freeQueue | applyOperation, freeListNodes | `WorkerThread.cpp` |
| Grace period | runCnt, localClock, g_removeDetected, g_removeCount | read_lock, read_unlock, gracePeriodInit, waitForThreads | `threadData.h`, `HydraList.cpp` |
| Facade | globals, threads | constructor, destructor, registerThread, getJumpNode | `HydraList.cpp` |

The repository compares HydraList with other indexes behind `src/index.h`. Two of
them are modelled: the B-tree with optimistic lock coupling (`src/BTreeOLC`) and
the "no hot spot" skip list (`src/nohotspot-skiplist`), whose background thread
maintains the index of a lock-free list.

The interactions: a split or a merge calls `enqPerThreadLog` while it holds its
node's lock; the combiner drains the logs and pushes merged logs to every
worker; a worker applies them to its replica; `getJumpNode` reads a replica.

What is hard about it: optimistic readers; an order of slots that readers compute
and share; radix tree nodes replaced under a lookup and freed by epochs; walks that take no lock; fields of a
node written under a neighbour's lock (`prev`) or no lock at all; the switch of
the two log queues against a thread in `enq`; deletion of logs by counts read
one at a time; a shutdown in which combiner and workers wait for each other.
`PROJECT.json` lists each hazard at its line.

## Modules

HydraList:

- `OptimisticLock`: what the lock promises, without a version number.
- `VersionedLock`: the lock at the grain of loads and compare-and-swap, with the
  words it guards.
- `ListNode`: the slots of one list node: bitmap, fingerprints and unsorted
  array, changed by a writer step by step, and the permuter (the sorted order of
  the slots) that the readers rebuild and share.
- `Dictionary`: a map whose operations take effect in one step.
- `DataLayer`: the list under concurrent insert, update, remove and lookup, with
  splits, merges, `getJumpNode` and a replica that follows in any order.
- `DataLayerMap`: the map such a list stands for; the operations on the list as
  operations of `Dictionary`.
- `ListScan`: `DataLayer` with threads in `LinkedList::scan`.
- `SearchLayer`: a replica as a value. The tree is the map it stores, and
  `lookupNext` answers with a neighbour of the key on either side.
- `RowexTree`: the radix tree inside a replica, with its one writer and readers
  in `lookupNext` that read a node per step.
- `Epoche`: the epochs by which the radix tree frees its nodes.
- `Replication`: Oplog, combiner and workers, from `enq` to the shutdown.
- `Lifecycle`: constructor, destructor and threads of one index after another.

Other indexes: `BTreeOLC`, `NoHotSpot`.

The theorems are in `VersionedLockProofs`, `ListNodeProofs`, `EpocheProofs`,
`LifecycleProofs`, in `DataLayerProofs` (the invariant of the list and the steps
that do not split) and `DataLayerSplitProofs` (splits, and the theorems), and in
`ReplicationProofs` (what the recursive operators compute, reclamation of logs,
shutdown and backlog of a worker) and `ReplicationDeliveryProofs` (an operation
is in one place; replicas and freed nodes). The modules whose names begin with MC
are instances for TLC.

How the modules rest on each other. A step of `DataLayer` reads or writes one
field that others can see without a lock. The entries of a node are one map and
are written in one step: `ValidReadsAreSnapshots` justifies this for readers, and
`ListNode` shows that the slots of a node are such a map
(`SlotsAreAMap`, `WritesTakeEffect`) and that a validated lookup or scan of them
is exact (`ValidatedReadsAreExact`). A merge into a node that is too full for it
leaves entries behind, in `ListNode` and in `DataLayer` (`MoveEntries`). The lock of a node is the abstract one, a
flag plus "no writer came since I began to read", which `LockRefinement`
justifies. `RowexTree` never reuses a node, which `Epoche` justifies. The
answers of `SearchLayer`'s search are those of a tree at rest; what a search that
overlaps a change may answer is in `RowexTree`. There it can also be a node
farther from the key (disagreement 6); the walk of `DataLayer` starts correctly
from any node that is in the list, but such starts are not part of its runs. A
replica changes in one step in `Replication` and `DataLayer`; the code stores the
tree, `curMin` and `numInserts` in this order, and a reader loads them in the
opposite one, so that what it can see of an update in progress is what it sees
when the whole update falls between two of its loads.

Operators introduced by a comment beginning "Variant" are slightly wrong forms
of the definition that follows them. They are not part of any specification; with
one of them in place of the right form, the property it is paired with in
`PROJECT.json` fails.

Assumptions of the models: memory is sequentially consistent (the code targets
x86; reordering by the compiler is considered only for `prev` in
`mergeWithPrev`, which is loaded twice there or once). This matters in `Epoche`:
`enterEpoche` publishes the epoch of a thread by a release store without a fence
(`Epoche.cpp:69-70`), which on x86 the first loads of the operation may overtake,
and then nothing keeps a collector from missing the thread; the results on
reclamation are about executions in which the store is visible first. Also
assumed: allocation does not fail; `WORKER_THREAD_PER_NUMA` is 1; keys
lie strictly below `ULLONG_MAX`; the client destroys the index when no thread is
inside a call; a removed list node is not reused while a call can still reach it,
since it is freed only at the shutdown.

## Runs

| Run | Instance | States | Shows |
|---|---|---|---|
| lock | 3 threads, 2 words, 2 values, version up to 6 | 54,268 | no torn read, refinement of OptimisticLock |
| node | 2 readers, 4 slots, colliding fingerprints, version up to 12 | 708,983 | slots are a map, writes take effect, validated lookups and scans are exact |
| split | a fresh list and one that merges; 3 threads, 2-entry nodes, 5 keys | 35,653 | no walk leaves the list; back pointers, linearizability, every call returns |
| list | remover, inserter or reader, scanner; 4-entry nodes, 10 keys | 479,744 | with merges too: ranges, back pointers, locks given back, linearizability; scans are ordered and complete |
| replication | 2 threads, 2 workers, 3 operations, 2 nodes | 1,065,828 | the seven invariants of Replication |
| replication_live | the same with 1 node, 2 operations | 78,084 | operations reach the replicas; the shutdown ends |
| lifecycle | 3 NUMA nodes, 3 indexes | 3,509 | layers and workers are there when used; start and stop end; nothing is left |
| tree | 1 reader, keys of 5 bytes, 1 byte of a prefix stored | 596,108 | the tree is the map; what a concurrent lookupNext answers |
| reclaim | 2 threads, 3 nodes, 3 epochs | 480,253 | no use after free; the assertion of the destructor |
| btree | 2 writers, 1 reader, 2-entry leaves, inner nodes of up to 4 keys | 1,415,148 | the tree is the map; lookups linearize; scans are snapshots |
| skip | 2 workers and the background thread | 3,004,018 | list and index keep their shape; operations linearize |
| two_removers | 2 threads, 4-entry nodes | | a violation, disagreement 5 |

Why the bounds suffice for the cases of interest. Version 6 allows two complete
writes during one read, so a version that came back would be noticed. In *node*
writers go on to version 12 while no reader is active, which is five writes to
four slots: enough to fill, split and refill them, and to merge three entries
into two free slots; beside readers to version 4,
one write, with the permuter never written, current or old. Two-entry list nodes
split after one insertion, so two splits race; four-entry nodes are the smallest
whose merges move an entry (two-entry nodes merge when both are empty); *list* starts with thin nodes next to a full one, so that both
happen under one scan. Three operations on two nodes with one minimum let a node
be inserted, removed and followed by another with its key. Two drain rounds
stand for 20: each queue of a thread is drained by one of two consecutive rounds.
`FreeBatch` is 1 or 2 for the 100 of the code, `QueueCapacity` 4, so that no
queue fills (disagreement 2); `CounterRange` is 65536 for 2^32.

*tree*, *btree* and *skip* choose one of several loads in their initial state.
*tree*: a deep tree, whose paths are cut and joined below prefixes longer than
what is stored, and a wide one, whose node grows, is compacted and shrinks; the
node sizes are 3 to 5 for 4 to 256. With 1 byte of a prefix stored, 5-byte keys
have a prefix of 3 bytes that can be cut after 2, as the code's 8-byte keys have
prefixes of 6, of which 4 are stored: the shortest that let a comparison begin
beyond the byte at which the rest is loaded. *btree*: a full root above full leaves, and a
lone full leaf that becomes a tree; inner nodes of 4 keys are the smallest whose
halves both keep a key. *skip*: two workers on a short list, key 0
(which lives in the head) included; a list of seven nodes, whose index gets three
levels; a list that is emptied, so that the lowest level is dropped, with one more
operation searching the index meanwhile.
Symmetry is used for interchangeable threads, and for the nodes of *reclaim*, in
runs that check safety only.

Fairness. User threads inside a call, the combiner and the workers are operating
system threads that nothing suspends: weak fairness. The destructor, the next
index and the next call need never happen: none. In `DataLayer` a lock that is
free again and again is eventually obtained (strong fairness of a successful
writeLock and readLock): the code spins without a queue, so this excludes only a
thread that loses every race, or whose weak compare-and-swap fails at every try.

### Disagreements between code and tests or comments

Number 5 is the run *two_removers*. The others were met with the same modules;
for each, what shows it is named.

1. `Combiner.h:32` sorts pointers, so the timestamps of `OpStruct::operator<` are
   never compared. A removal may precede the insertion of the same node in a
   log. `tests/OpLog/test.cpp:53` expects the order of logging. The invariant
   `MergedInLogOrder` fails with the constants of *replication*.
2. `Combiner.h:46` ignores that a push to a full queue fails.
   `tests/OpLog/test.cpp:59` expects the log in the queue. `QueueIsBacklog` fails
   with `QueueCapacity` 1; with the real capacity this needs a worker that is
   10000 logs behind.
3. `HydraList.cpp:221-222` tests for an empty replica and searches in a second
   step. The comment at `SearchLayer.h:90` explains why a tree with too few keys
   must not be searched. `SearchesFindTree` fails with the constants of
   *two_removers* and the scenarios `EmptyTree`.
4. A node deleted by `mergeWithNext` stays locked (`listNode.cpp:158`). A lookup
   that entered there retries from it for ever; `tests/Hydralist/test.cpp:124`
   expects it to return. `CallsReturn` fails with the constants of
   *two_removers* and the scenarios `DeletedJump`.
5. `mergeWithPrev` uses a `prev` that may have been deleted meanwhile
   (`listNode.cpp:165-166`). A key moved there is out of reach, and its `remove`,
   which `tests/Hydralist/test.cpp:44` expects to succeed, does not return.
6. `lookupNext` takes the subtree it has reached when it meets a node whose prefix
   is being replaced (`Tree.cpp:719`), so its answer need not be next to the key.
   The comment at `SearchLayer.h:78` says "the value of key just less
   than/greater than key". `LookupIsNearest` fails with the constants of *tree*;
   *tree* checks `LookupIsNear`, the same for lookups that meet no such node and
   none of disagreement 11.
7. `slReady` is never cleared, so the constructor of a second index in a process
   does not wait for its workers (`HydraList.cpp:195`); the tests make such an
   index and use it at once (`tests/Hydralist/test.cpp:15-19`).
   `SearchLayersReady` and `CombinerFindsWorkers` fail without the premise
   `gen = 1`.
8. `scan` reads `next` after the node was validated (`linkedList.cpp:279-281`). A
   split or merge in between makes it return entries twice or miss some:
   `ScanInOrder` and `ScanMissesNothing` fail without the premise `~gap`.
9. `bg_lower_ilevel` lowers the level only of nodes that are in the second lowest
   index level too; others keep level 1 without an index item and are never
   removed (`background.cpp:376`), where the comment at `background.cpp:514` says
   that nodes of height 0 are those without index nodes above. `LevelIsHeight`
   fails with the constants of *skip*.
10. A remove compares its size with that of the neighbour (`listNode.cpp:424` and
   430) before `mergeWithNext` or `mergeWithPrev` locks it, and these do not ask
   whether there is room (`listNode.cpp:139-152`, `168-183`). Inserts in between
   can fill the neighbour; the entries without a slot stay in the deleted node, and
   keys whose insert returned true are gone; `tests/Hydralist/test.cpp:112` expects
   an inserted key to be found. `NothingLeftBehind` and `Linearizable` fail with the
   constants of *two_removers*, keys up to 10 (`Keys10`) and the scenarios
   `FillingUp`. `WritesTakeEffect` states what does hold of such a merge.
11. `checkPrefixCompare` loads the key of a leaf when it passes the last stored byte
   of a prefix (`Tree.cpp:520`). Between the two stores of a split, a lookup can
   begin its comparison beyond that byte, and it reads a `Key` that was never set.
   `Key.h:70` asserts "i < len"; a build with `NDEBUG` reads through an
   uninitialised pointer. In the model it stops, or the bytes are arbitrary.
   `KeysAreLoaded` fails with the constants of *tree*.

Consequently *split* and *list* have one remover, the inserts of *list* do not fill
the neighbour of a node being merged, no replica is searched when it
has become empty, and `CallsReturn` is checked where no other call enters at a
node that is merged away (*split*).

## Proofs

`VersionedLockProofs`, for any threads, words, values and bound on the version:

- `Exclusion`: at most one writer. Not inductive alone; it needs that a writer
  is inside exactly while the version is odd (`OddWhileWriting`), since that is
  what the compare-and-swap tests.
- `ValidReadsAreSnapshots`: a validated read is not torn. It needs
  `CopyIsCurrent`: copies agree with the node while the version is the one the
  reader loaded.
- `LockRefinement`: the lock implements `OptimisticLock`.

All rest on `Invariance`, `Spec => []IInv`. The version is a natural number: the
64-bit counter would wrap after 2^63 writes.

`ListNodeProofs`, for any readers, keys, values, number of slots, fingerprint
function (collisions included) and initial entries:

- `SlotsStayAMap` (`SlotsAreAMap`): between writers the bitmap and the arrays are a
  map and `numEntries` is its size.
- `WritesAreExact` (`WritesTakeEffect`): when a writer unlocks, the node, what a
  split took out of it and what a merge found no slot for are exactly the entries
  they should be, and a merge leaves some behind only if the node is full.
- `LookupsAreExact`: the half of `ValidatedReadsAreExact` that is about lookups.

They rest on `NodeInvariance`. `SlotsAreAMap` says nothing about a writer at work,
so the invariant says what each of its steps has left to do (`WriterInv`): the
entries in use, those moved out and those still to place are together what the
call is to make of the node; while entries are placed, the slot for the next one
is the lowest free one, so that a merge that has passed every slot has filled the
node (`Placing`), and afterwards what is left over found none (`Accounted`); in
the loop of
`split`, every slot not yet looked at is in use, and those already looked at are in
use exactly if their key is below the median (`Dividing`), which is why the loop
finds a free slot for the new entry. `CountInv` (the counter is the number of bits)
holds at every step. `ReaderInv` says what a lookup has seen if its version is
still current: the slots of its key that are left in the mask, or the value.
Assumed: `SizeAssumption`, `KeyAssumption`, `RangeAssumption`,
`FillingAssumption`, `BatchAssumption`, `ReaderAssumption`.

`DataLayerProofs` and `DataLayerSplitProofs`, for any threads, keys, values, node
size, initial list and programs. In every behaviour in which no two nodes are
merged (`[]NoMerge`: no remove gets the lock of a neighbour):

- `WalksStayInList` (`TypeOK`): no walk leaves the list at either end.
- `PredecessorsAreLeft` (`PrevIsLeft`) and `RangesTile` (`RangesMeet`): what walks
  without locks rely on.
- `LocksGivenBack` (`UnlockedAtRest`): every path through a call and every retry gives
  back its lock.

`GrowingNeverMerges` shows the hypothesis for programs without a remove, so that
`GrowingListIsSound` states all four for inserts, updates and lookups with no
hypothesis about the behaviour. With merges `PrevIsLeft` and `RangesMeet` are not
invariants in general: a remover can merge into a node that has been deleted
(disagreement 5), and `listNode.cpp:397-398` lets a splitter store a `prev` that a
merge has made stale. With one remover they are model-checked (*split*, *list*).

The four rest on `DataInvariance`. `RangesMeet` speaks of unlocked nodes; the
invariant has to follow a split through its stores. `ListInv`: each node ends where
its successor begins, except between `setMax` and the store of `next`, when there is
a gap that the new node fills, and each `prev` points to a node with a smaller
minimum, not necessarily the nearest, since two splitters may store the `prev` of
one node in either order. `SplitInv`: where the new node of a split belongs at each
step, and that nobody can see it before it is linked. `LockInv`: a locked node has
exactly one holder, and two threads inside have different nodes. `ThreadInv`: types,
and that nodes which walks and replica point to have been linked. That a split
leaves both halves a range of their own needs that the median of a full node is
above its minimum, which is a fact about cardinalities (`MedianInside`). The
invariant, with `NoMerge` as its premise, was first checked by TLC with the
constants of *split*. Assumed: `ConstantsAssumption`, `LayoutAssumption`,
`ProgramAssumption`.

`Replication`, for any threads, workers, nodes, operations and capacities. All
seven invariants of the run *replication* are proved.

- `LogsOutliveReaders` (`QueuedLogsAlive`): no merged log is deleted while a
  worker has it queued. Not inductive: that the combiner deletes only numbers
  below its minimum says something about a queue because the i-th number queued is
  at least `logDoneCount + i - 1` (`NumbersAhead`), and because the minimum is low
  for every worker read so far (`MinimumIsLow`), counts only growing. The
  theorem does not need queues that never fill.
- `NeitherLostNorDuplicated` (`ExactlyOnce`): an operation that `enq` has taken is
  at exactly one place of the thread queues, the batch being merged and the
  logs. The invariant `OnceInv` adds that the operations of threads inside
  `enq` differ from each other and from those that are done, and that the batch
  is empty outside `combineLogs`: what a round copies it must not keep.
- `NothingLeftAtStop` (`StopMeansDrained`): at `g_combinerStop` every queue is
  empty and every worker has applied every log. `ShutdownInv` follows the last
  rounds: after the first of them the queue that was just drained stays empty,
  since no thread is inside `enq` any more, and after the second both are
  (`DrainInv`); a thread without a registered log has logged nothing
  (`OwnersKnown`); `logQueue` holds the newest logs, and every worker has applied
  the ones before them (`LogQueueInv`), so an empty `logQueue` means that all is
  applied. It uses `DrainAssumption`, at least two rounds; the code has 20.
- `BacklogInOrder` (`QueueIsBacklog`): the queue of a worker is the logs it has not
  applied, in order, in every behaviour in which no push meets a full queue
  (`[]NeverFull`). Without that hypothesis it is false (disagreement 2). The
  invariant `BacklogInv` needs no hypothesis: it speaks of the workers whose
  counts show that no push failed (`Received`), and a push that fails is never
  made up for (`ReceivedStep`).
- `ReplicasFollowLogs` (`ReplicasAgree`): under `[]NeverFull` too, a replica is what
  the logs its worker has applied make of an empty one, so replicas that have
  applied as many logs are equal.
- `ReplicasCompleteAtStop`: at `g_combinerStop` every replica is the result of all
  logs, for any capacity: a push that had failed would keep `logQueue` from
  getting empty, and the combiner would not stop.
- `FreedOnceAndLast` (`NodesFreedLast`): a node is freed once, when its removal is in
  a log and every worker has applied all logs. Along `FreeInv`: what worker 0
  has queued for freeing are removals of logs it has applied, each from a place
  of its own (`QueuedOnce`), and a removal is at one place only, by `OnceInv`.
- `TypeCorrect` (`TypeOK`): all types. That a worker finds the log at the front of
  its queue needs `LogsOutliveReaders`.

`Replay`, `AfterLogs` and `Removals` are recursive. What they compute is proved by
induction in the form `SetInduction`: a set of naturals with 0 and with every
successor is all of them. From it follow that a function defined by recursion over
0 .. N exists (`Iterates`) and that two which agree step by step are equal
(`SameIterates`).

Assumed: `WorkerAssumption`, `BoundAssumption`, `DrainAssumption`,
`MinOfAssumption`, `NodeAssumption`, `CounterAssumption`.

`EpocheProofs`, for any threads, nodes, label size, thresholds and bound on the
epoch:

- `Safety`: no node is freed while a thread inside the tree may hold it. Not
  inductive alone. The argument: published epochs are not in the future
  (`EpochsPast`); a node that a thread may hold and that is on a deletion list is
  stamped with an epoch not below the thread's own (`HeldIsStamped`); the
  minimum a collector computes is not above the epoch of any thread it has read
  that may hold such a node (`ScanSound`); a thread outside has published
  infinity (`OutIsInfinite`).
- `DestructorAssertion`: the assertion of `~Epoche` when no operation runs.

What a thread may hold is over-approximated by every node that was linked at some
moment since it published its epoch. Assumed: `NoThreadAssumption`,
`BoundAssumption`.

`LifecycleProofs`, for any number of NUMA nodes and of indexes:

- `LayersAreReady`, `CombinerIsSafe`: in the first index of a process the layers
  exist when the constructor returns, and the combiner finds every worker.
- `NothingLeft`: after the destructor no layer and no worker exists, for every
  index.

They rest on `LifecycleInvariance`. It relates the step of constructor and
destructor to the threads that run (`CombinerPhase`, `WorkerPhase`), says that
every layer that exists is the one its pointer points to and that a worker about
to create one replaces none (`LayersReachable`, which is what makes the deletion
through the pointers complete), and that in the first index `slReady` is true only
behind a layer (`ReadyMeansReady`). Assumed: `SizeAssumption`.

Only model-checked: liveness, which is outside the prover; the scans of
`ValidatedReadsAreExact`, which need what the sort of the permuter and the binary
search compute, an induction over data; `DataLayer` with merges, `BackLinks`, which
holds for one structural writer at a time only, and `Linearizable`, whose steps have
not been mapped yet; `ListScan`, which rests on them; and `RowexTree`, `BTreeOLC`
and `NoHotSpot`, whose properties are stated with recursive operators.

## Not modelled

- The grace period. `g_removeDetected` is set only in the loop that
  `workerThreadExec` runs after `g_combinerStop` (`HydraList.cpp:72-77`).
  `StopMeansDrained` shows that this loop finds an empty queue, so the branch at
  `HydraList.cpp:132` and the call of `freeListNodes` at line 69 do not run.
- The locks of the radix tree's writers, which its only writer never contends
  for; its exact lookup and range lookup, which the index does not call.
- The value `lookup` returns for a missing key, which is uninitialised
  (`HydraList.cpp:283`).
- The string variant (`src/hydralist_string`): a copy of the index with another
  key type and range check.
- The other indexes (ARTOLC, BwTree, HOT, Masstree, Wormhole, libcuckoo, the
  rotating skip list, the B-tree with hardware transactions): third-party systems,
  each a project of its own.
- The benchmark driver and the tools under `src/`: input, output and timing.

The repository has far more lines of such third-party code and tooling than of
HydraList. The modules cover the concurrent core of HydraList and of two of its
competitors, which is a small share of all lines under `src/`.

## Plan

1. The string variant, whose range check differs.
2. `DataLayer` composed with `Replication` instead of a replica that follows in
   any order, and with the farther starts of disagreement 6.
3. libcuckoo: its two bucket locks against a resize.
4. A proof that `DataLayer` without merges implements `Dictionary`, then the
   invariant with one remover and merges.
