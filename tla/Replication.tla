---------------------------- MODULE Replication ----------------------------
(***************************************************************************)
(* The asynchronous replication of the search layer: the per-thread        *)
(* operation logs (Oplog.cpp), the combiner thread (Combiner.h and         *)
(* combinerThreadExec) and the worker threads (WorkerThread.cpp and        *)
(* workerThreadExec), from the merge or split that logs an operation to    *)
(* the shutdown that frees the removed list nodes.                         *)
(*                                                                         *)
(* The operations come from the data layer: a split logs the insertion of  *)
(* the node it made, a merge logs the removal of the node it emptied.      *)
(* WORKER_THREAD_PER_NUMA is 1, as compiled, so a worker is a NUMA node,   *)
(* it owns one replica, and every operation hashes to it.                  *)
(***************************************************************************)
EXTENDS SearchLayer, Sequences, FiniteSets

CONSTANTS
    Threads,        \* user threads
    NumWorkers,     \* activeNuma
    MinOf,          \* the minimum key of every list node
    QueueCapacity,  \* capacity of a worker's spsc_queue (10000)
    FreeBatch,      \* queued logs before the combiner reclaims any (100)
    DrainRounds,    \* combine rounds after g_globalStop (20)
    MaxOps          \* a bound on the operations the data layer logs

ASSUME WorkerAssumption == NumWorkers \in Nat \ {0}

ASSUME BoundAssumption ==
    /\ QueueCapacity \in Nat
    /\ FreeBatch \in Nat
    /\ DrainRounds \in Nat
    /\ MaxOps \in Nat

(* A round drains one of the two queues of a log, so two rounds drain      *)
(* both; the code runs 20.                                                 *)
ASSUME DrainAssumption == DrainRounds >= 2

ASSUME MinOfAssumption == MinOf \in [Nodes -> Keys]

Workers == 0 .. NumWorkers - 1

(* OpStruct, its timestamp and hash left out: nothing reads them.          *)
Op == [op : {"insert", "remove"}, node : Nodes]

NoOp == [op |-> "none", node |-> NoNode]

VARIABLES
    curQ,           \* the queue number in use: curQ % 2 of the code
    perThreadLog,   \* g_perThreadLog: the threads that have a log
    op_,            \* op_[t][q]: queue q of thread t's log
    qLock,          \* qLock[t][q]: who holds the mutex of that queue
    pc, arg, qnum,  \* a user thread in enq: its step, operation and queue
    issued,         \* operations whose enq has begun
    returned,       \* operations whose enq has returned
    cpc, phase,     \* the combiner: its step and the loop it is in
    left,           \* logs combineLogs has still to visit
    merged,         \* mergedLog under construction
    cw,             \* the worker a combiner loop has reached
    minDone,        \* minDoneCountWt
    rounds,         \* combine rounds left after the stop
    logs,           \* every merged log so far: log i is logs[i + 1]
    logQueue,       \* logQueue: the numbers of the logs not yet deleted
    workQueue,      \* workQueue[w]: numbers of the logs queued for worker w
    wpc,            \* a worker's step
    logDoneCount,   \* logDoneCount[w]
    sl,             \* sl[w]: the replica worker w maintains
    freeQueue,      \* worker 0's freeQueue: <<logDoneCount, node>>
    freedNodes,     \* nodes passed to free(), in order
    globalStop, combinerStop

threadVars   == <<perThreadLog, pc, arg, qnum, issued, returned>>
logVars      == <<curQ, op_, qLock>>
combinerVars == <<cpc, phase, left, merged, cw, minDone, rounds, logs, logQueue>>
workerVars   == <<wpc, logDoneCount, sl, freeQueue, freedNodes>>
stopVars     == <<globalStop, combinerStop>>
vars == <<threadVars, logVars, combinerVars, workQueue, workerVars, stopVars>>

Init ==
    /\ curQ = 0
    /\ perThreadLog = {}
    /\ op_ = [t \in Threads |-> [q \in {0, 1} |-> << >>]]
    /\ qLock = [t \in Threads |-> [q \in {0, 1} |-> "free"]]
    /\ pc = [t \in Threads |-> "idle"]
    /\ arg = [t \in Threads |-> NoOp]
    /\ qnum = [t \in Threads |-> 0]
    /\ issued = {} /\ returned = {}
    /\ cpc = "loop" /\ phase = "run"
    /\ left = {} /\ merged = << >> /\ cw = 0 /\ minDone = 0
    /\ rounds = DrainRounds
    /\ logs = << >> /\ logQueue = << >>
    /\ workQueue = [w \in Workers |-> << >>]
    /\ wpc = [w \in Workers |-> "run"]
    /\ logDoneCount = [w \in Workers |-> 0]
    /\ sl = [w \in Workers |-> EmptyReplica]
    /\ freeQueue = << >> /\ freedNodes = << >>
    /\ globalStop = FALSE /\ combinerStop = FALSE
-----------------------------------------------------------------------------
(* User threads.                                                           *)

(* What the data layer can log.  A split makes a node once.  A node with   *)
(* the same minimum as an older one is made only after the older one has   *)
(* been merged away, and that merge is about to log, or has logged, its    *)
(* removal.  A node can be merged away only by a thread that holds the     *)
(* lock of the node it was split from, so after its insertion is logged.   *)
CanLog(o) ==
    /\ o \notin issued
    /\ Cardinality(issued) < MaxOps
    /\ IF o.op = "insert"
         THEN \A m \in Nodes :
                 /\ MinOf[m] = MinOf[o.node]
                 /\ [op |-> "insert", node |-> m] \in issued
                 => [op |-> "remove", node |-> m] \in issued
         ELSE [op |-> "insert", node |-> o.node] \in returned

(* enqPerThreadLog, getOpLog and the start of enq: the thread's first      *)
(* operation makes its log.  The combiner may be iterating over            *)
(* g_perThreadLog at that moment, and visits the new log or not.           *)
EnqCall(t, o) ==
    /\ pc[t] = "idle" /\ ~globalStop
    /\ CanLog(o)
    /\ perThreadLog' = perThreadLog \cup {t}
    /\ \/ UNCHANGED left
       \/ t \notin perThreadLog /\ cpc = "merge" /\ left' = left \cup {t}
    /\ pc' = [pc EXCEPT ![t] = "load"]
    /\ arg' = [arg EXCEPT ![t] = o]
    /\ issued' = issued \cup {o}
    /\ UNCHANGED <<qnum, returned, logVars, cpc, phase, merged, cw, minDone,
                   rounds, logs, logQueue, workQueue, workerVars, stopVars>>

(* qnum = curQ % 2                                                         *)
EnqLoad(t) ==
    /\ pc[t] = "load"
    /\ qnum' = [qnum EXCEPT ![t] = curQ]
    /\ pc' = [pc EXCEPT ![t] = "trylock"]
    /\ UNCHANGED <<perThreadLog, arg, issued, returned, logVars, combinerVars,
                   workQueue, workerVars, stopVars>>

(* qLock[qnum].try_lock(): on failure the queue number is read again.      *)
EnqTryLock(t) ==
    /\ pc[t] = "trylock"
    /\ \/ /\ qLock[t][qnum[t]] = "free"
          /\ qLock' = [qLock EXCEPT ![t][qnum[t]] = "thread"]
          /\ pc' = [pc EXCEPT ![t] = "push"]
       \/ /\ qLock[t][qnum[t]] # "free"
          /\ pc' = [pc EXCEPT ![t] = "load"]
          /\ UNCHANGED qLock
    /\ UNCHANGED <<perThreadLog, arg, qnum, issued, returned, curQ, op_,
                   combinerVars, workQueue, workerVars, stopVars>>

(* push_back, unlock, return.                                              *)
EnqPush(t) ==
    /\ pc[t] = "push"
    /\ op_' = [op_ EXCEPT ![t][qnum[t]] = Append(@, arg[t])]
    /\ qLock' = [qLock EXCEPT ![t][qnum[t]] = "free"]
    /\ returned' = returned \cup {arg[t]}
    /\ pc' = [pc EXCEPT ![t] = "idle"]
    /\ arg' = [arg EXCEPT ![t] = NoOp]
    /\ UNCHANGED <<perThreadLog, qnum, issued, curQ, combinerVars,
                   workQueue, workerVars, stopVars>>

(* ~HydraListImpl sets g_globalStop; the client destroys the index when no *)
(* thread is in an operation on it.                                        *)
Stop ==
    /\ ~globalStop
    /\ \A t \in Threads : pc[t] = "idle"
    /\ globalStop' = TRUE
    /\ UNCHANGED <<threadVars, logVars, combinerVars, workQueue, workerVars,
                   combinerStop>>
-----------------------------------------------------------------------------
(* The combiner thread.                                                    *)

(* Variant: the queues are not switched. *)
StartCombineSameQueue ==
    /\ UNCHANGED curQ
    /\ left' = perThreadLog
    /\ merged' = << >>
    /\ cpc' = "merge"

(* combineLogs begins: curQ is incremented, and the queue that was current *)
(* is the one to drain.  Drained == 1 - curQ from here on.                 *)
StartCombine ==
    /\ curQ' = 1 - curQ
    /\ left' = perThreadLog
    /\ merged' = << >>
    /\ cpc' = "merge"

(* while(!g_globalStop): the loop test, then combineLogs.                  *)
CombinerLoop ==
    /\ cpc = "loop" /\ phase = "run" /\ ~globalStop
    /\ StartCombine
    /\ UNCHANGED <<threadVars, op_, qLock, phase, cw, minDone, rounds, logs,
                   logQueue, workQueue, workerVars, stopVars>>

CombinerSeesStop ==
    /\ cpc = "loop" /\ phase = "run" /\ globalStop
    /\ phase' = "drain"
    /\ UNCHANGED <<threadVars, logVars, cpc, left, merged, cw, minDone, rounds,
                   logs, logQueue, workQueue, workerVars, stopVars>>

(* while(i--): the rounds after the stop.                                  *)
CombinerDrain ==
    /\ cpc = "loop" /\ phase = "drain" /\ rounds > 0
    /\ rounds' = rounds - 1
    /\ StartCombine
    /\ UNCHANGED <<threadVars, op_, qLock, phase, cw, minDone, logs, logQueue,
                   workQueue, workerVars, stopVars>>

(* Variant: one round fewer. *)
CombinerDrainedEarly ==
    /\ cpc = "loop" /\ phase = "drain" /\ rounds <= 1
    /\ phase' = "force"
    /\ UNCHANGED <<threadVars, logVars, cpc, left, merged, cw, minDone, rounds,
                   logs, logQueue, workQueue, workerVars, stopVars>>

CombinerDrained ==
    /\ cpc = "loop" /\ phase = "drain" /\ rounds = 0
    /\ phase' = "force"
    /\ UNCHANGED <<threadVars, logVars, cpc, left, merged, cw, minDone, rounds,
                   logs, logQueue, workQueue, workerVars, stopVars>>

(* log.lock(qnum) blocks while the owner holds the mutex.                  *)
CombinerLock(t) ==
    /\ cpc = "merge" /\ t \in left
    /\ qLock[t][1 - curQ] = "free"
    /\ qLock' = [qLock EXCEPT ![t][1 - curQ] = "combiner"]
    /\ cpc' = "copy"
    /\ UNCHANGED <<threadVars, curQ, op_, phase, left, merged, cw, minDone,
                   rounds, logs, logQueue, workQueue, workerVars, stopVars>>

(* Variant: the queue is not reset. *)
CombinerCopyNoReset(t) ==
    /\ cpc = "copy" /\ t \in left
    /\ qLock[t][1 - curQ] = "combiner"
    /\ merged' = merged \o op_[t][1 - curQ]
    /\ qLock' = [qLock EXCEPT ![t][1 - curQ] = "free"]
    /\ left' = left \ {t}
    /\ cpc' = "merge"
    /\ UNCHANGED <<threadVars, curQ, op_, phase, cw, minDone, rounds, logs, logQueue,
                   workQueue, workerVars, stopVars>>

(* Append the queue to mergedLog, resetQ, unlock.                          *)
CombinerCopy(t) ==
    /\ cpc = "copy" /\ t \in left
    /\ qLock[t][1 - curQ] = "combiner"
    /\ merged' = merged \o op_[t][1 - curQ]
    /\ op_' = [op_ EXCEPT ![t][1 - curQ] = << >>]
    /\ qLock' = [qLock EXCEPT ![t][1 - curQ] = "free"]
    /\ left' = left \ {t}
    /\ cpc' = "merge"
    /\ UNCHANGED <<threadVars, curQ, phase, cw, minDone, rounds, logs, logQueue,
                   workQueue, workerVars, stopVars>>

(* The orders std::sort can leave a log in.  The vector holds OpStruct     *)
(* pointers, so they are compared as addresses: any order can result.      *)
Orders(s) ==
    {[i \in DOMAIN s |-> s[p[i]]] :
        p \in {f \in [DOMAIN s -> DOMAIN s] :
                 \A i, j \in DOMAIN s : f[i] = f[j] => i = j}}

(* The end of combineLogs: an empty log is deleted, another is numbered    *)
(* doneCountCombiner, which is Len(logs), and queued for deletion.         *)
CombinerSort ==
    /\ cpc = "merge" /\ left = {}
    /\ IF merged = << >>
         THEN /\ cpc' = IF phase = "run" THEN "free" ELSE "loop"
              /\ UNCHANGED <<logs, logQueue>>
         ELSE /\ \E s \in Orders(merged) : logs' = Append(logs, s)
              /\ logQueue' = Append(logQueue, Len(logs))
              /\ cpc' = "broadcast"
    /\ merged' = << >>
    /\ cw' = 0
    /\ UNCHANGED <<threadVars, logVars, phase, left, minDone, rounds,
                   workQueue, workerVars, stopVars>>

(* Variant: the loop over the workers ends one short. *)
CombinerBroadcastShort ==
    /\ cpc = "broadcast"
    /\ IF cw < NumWorkers - 1
         THEN /\ workQueue' = [workQueue EXCEPT ![cw] = Append(@, Len(logs) - 1)]
              /\ cw' = cw + 1
              /\ UNCHANGED cpc
         ELSE /\ cpc' = IF phase = "run" THEN "free" ELSE "loop"
              /\ cw' = 0
              /\ UNCHANGED workQueue
    /\ UNCHANGED <<threadVars, logVars, phase, left, merged, minDone, rounds,
                   logs, logQueue, workerVars, stopVars>>

(* broadcastMergedLog: one push per worker, its result ignored.            *)
CombinerBroadcast ==
    /\ cpc = "broadcast"
    /\ IF cw < NumWorkers
         THEN /\ workQueue' = IF Len(workQueue[cw]) < QueueCapacity
                                THEN [workQueue EXCEPT ![cw] = Append(@, Len(logs) - 1)]
                                ELSE workQueue
              /\ cw' = cw + 1
              /\ UNCHANGED cpc
         ELSE /\ cpc' = IF phase = "run" THEN "free" ELSE "loop"
              /\ cw' = 0
              /\ UNCHANGED workQueue
    /\ UNCHANGED <<threadVars, logVars, phase, left, merged, minDone, rounds,
                   logs, logQueue, workerVars, stopVars>>

(* freeMergedLogs, not forced, returns at once while few logs are queued.  *)
(* No grace period follows: see the README on g_removeDetected.            *)
FreeTest ==
    /\ cpc = "free"
    /\ IF Len(logQueue) < FreeBatch
         THEN cpc' = "loop" /\ UNCHANGED <<cw, minDone>>
         ELSE cpc' = "scan" /\ cw' = 0 /\ UNCHANGED minDone
    /\ UNCHANGED <<threadVars, logVars, phase, left, merged, rounds, logs,
                   logQueue, workQueue, workerVars, stopVars>>

(* while (!mergedLogsToBeFreed()) freeMergedLogs(activeNuma, true)         *)
ForceTest ==
    /\ cpc = "loop" /\ phase = "force"
    /\ IF logQueue = << >>
         THEN /\ combinerStop' = TRUE
              /\ phase' = "done"
              /\ UNCHANGED <<cpc, cw>>
         ELSE /\ cpc' = "scan" /\ cw' = 0
              /\ UNCHANGED <<combinerStop, phase>>
    /\ UNCHANGED <<threadVars, logVars, left, merged, minDone, rounds, logs,
                   logQueue, workQueue, workerVars, globalStop>>

(* The loop over the workers reads one logDoneCount at a time.  The first  *)
(* value replaces the initial ULONG_MAX.                                   *)
ScanDoneCount ==
    /\ cpc = "scan" /\ cw < NumWorkers
    /\ minDone' = IF cw = 0 \/ logDoneCount[cw] < minDone
                    THEN logDoneCount[cw] ELSE minDone
    /\ cw' = cw + 1
    /\ UNCHANGED <<threadVars, logVars, cpc, phase, left, merged, rounds, logs,
                   logQueue, workQueue, workerVars, stopVars>>

(* Variant: the log numbered as the minimum is deleted too. *)
ReclaimTooMuch ==
    /\ cpc = "scan" /\ cw = NumWorkers
    /\ \E n \in 0 .. Len(logQueue) :
          /\ \A i \in 1 .. n : logQueue[i] <= minDone
          /\ n < Len(logQueue) => logQueue[n + 1] > minDone
          /\ logQueue' = SubSeq(logQueue, n + 1, Len(logQueue))
    /\ cpc' = "loop"
    /\ cw' = 0
    /\ minDone' = 0
    /\ UNCHANGED <<threadVars, logVars, phase, left, merged, rounds, logs,
                   workQueue, workerVars, stopVars>>

(* Delete logs from the front of logQueue while their number is below the  *)
(* minimum: n of them.                                                     *)
Reclaim ==
    /\ cpc = "scan" /\ cw = NumWorkers
    /\ \E n \in 0 .. Len(logQueue) :
          /\ \A i \in 1 .. n : logQueue[i] < minDone
          /\ n < Len(logQueue) => logQueue[n + 1] >= minDone
          /\ logQueue' = SubSeq(logQueue, n + 1, Len(logQueue))
    /\ cpc' = "loop"
    /\ cw' = 0
    /\ minDone' = 0
    /\ UNCHANGED <<threadVars, logVars, phase, left, merged, rounds, logs,
                   workQueue, workerVars, stopVars>>
-----------------------------------------------------------------------------
(* Worker threads.                                                         *)

(* The effect of one logged operation on a replica.                        *)
ApplyOp(r, o) ==
    IF o.op = "insert" THEN SLInsert(r, MinOf[o.node], o.node)
                       ELSE SLRemove(r, MinOf[o.node], o.node)

(* The replica after the first n operations of a log.                      *)
Replay(r, log) ==
    LET after[n \in 0 .. Len(log)] ==
          IF n = 0 THEN r ELSE ApplyOp(after[n - 1], log[n])
    IN  after[Len(log)]

(* The removals of a log, as worker 0 queues them for free().              *)
Removals(count, log) ==
    LET from[n \in 0 .. Len(log)] ==
          IF n = 0 THEN << >>
          ELSE IF log[n].op = "remove" THEN Append(from[n - 1], <<count, log[n].node>>)
          ELSE from[n - 1]
    IN  from[Len(log)]

(* Variant: the newest queued log is read instead of the oldest. *)
ApplyNewest(w) ==
    /\ wpc[w] = "run" /\ workQueue[w] # << >>
    /\ LET log == logs[workQueue[w][Len(workQueue[w])] + 1] IN
         /\ sl' = [sl EXCEPT ![w] = Replay(@, log)]
         /\ freeQueue' = IF w = 0 THEN freeQueue \o Removals(logDoneCount[w], log)
                                  ELSE freeQueue
    /\ wpc' = [wpc EXCEPT ![w] = "retire"]
    /\ UNCHANGED <<threadVars, logVars, combinerVars, workQueue, logDoneCount,
                   freedNodes, stopVars>>

(* applyOperation up to the pop: the log at the front of the queue is read *)
(* and applied to the replica; worker 0 queues the removed nodes.          *)
Apply(w) ==
    /\ wpc[w] = "run" /\ workQueue[w] # << >>
    /\ LET log == logs[Head(workQueue[w]) + 1] IN
         /\ sl' = [sl EXCEPT ![w] = Replay(@, log)]
         /\ freeQueue' = IF w = 0 THEN freeQueue \o Removals(logDoneCount[w], log)
                                  ELSE freeQueue
    /\ wpc' = [wpc EXCEPT ![w] = "retire"]
    /\ UNCHANGED <<threadVars, logVars, combinerVars, workQueue, logDoneCount,
                   freedNodes, stopVars>>

(* Variant: the log is popped and not counted. *)
RetireUncounted(w) ==
    /\ wpc[w] = "retire"
    /\ workQueue' = [workQueue EXCEPT ![w] = Tail(@)]
    /\ wpc' = [wpc EXCEPT ![w] = "run"]
    /\ UNCHANGED <<threadVars, logVars, combinerVars, sl, logDoneCount, freeQueue,
                   freedNodes, stopVars>>

(* The end of applyOperation: pop, logDoneCount++.                         *)
Retire(w) ==
    /\ wpc[w] = "retire"
    /\ workQueue' = [workQueue EXCEPT ![w] = Tail(@)]
    /\ logDoneCount' = [logDoneCount EXCEPT ![w] = @ + 1]
    /\ wpc' = [wpc EXCEPT ![w] = "run"]
    /\ UNCHANGED <<threadVars, logVars, combinerVars, sl, freeQueue, freedNodes,
                   stopVars>>

(* Variant: the worker leaves when the index is stopped, not the combiner. *)
WorkerExitEarly(w) ==
    /\ wpc[w] = "run" /\ workQueue[w] = << >> /\ globalStop
    /\ wpc' = [wpc EXCEPT ![w] = "exit"]
    /\ IF w = 0
         THEN /\ freedNodes' = freedNodes \o [i \in DOMAIN freeQueue |-> freeQueue[i][2]]
              /\ freeQueue' = << >>
         ELSE UNCHANGED <<freedNodes, freeQueue>>
    /\ UNCHANGED <<threadVars, logVars, combinerVars, workQueue, logDoneCount,
                   sl, stopVars>>

(* The worker leaves its loop: it drained its queue and sees               *)
(* g_combinerStop.  Worker 0 frees every removed node on its way out.      *)
WorkerExit(w) ==
    /\ wpc[w] = "run" /\ workQueue[w] = << >> /\ combinerStop
    /\ wpc' = [wpc EXCEPT ![w] = "exit"]
    /\ IF w = 0
         THEN /\ freedNodes' = freedNodes \o [i \in DOMAIN freeQueue |-> freeQueue[i][2]]
              /\ freeQueue' = << >>
         ELSE UNCHANGED <<freedNodes, freeQueue>>
    /\ UNCHANGED <<threadVars, logVars, combinerVars, workQueue, logDoneCount,
                   sl, stopVars>>
-----------------------------------------------------------------------------
Enq(t) == EnqLoad(t) \/ EnqTryLock(t) \/ EnqPush(t)

Combiner ==
    \/ CombinerLoop \/ CombinerSeesStop \/ CombinerDrain \/ CombinerDrained
    \/ \E t \in Threads : CombinerLock(t) \/ CombinerCopy(t)
    \/ CombinerSort \/ CombinerBroadcast
    \/ FreeTest \/ ForceTest \/ ScanDoneCount \/ Reclaim

Worker(w) == Apply(w) \/ Retire(w) \/ WorkerExit(w)

(* ~HydraListImpl has joined every thread.                                 *)
Terminated == \A w \in Workers : wpc[w] = "exit"

Finished == Terminated /\ UNCHANGED vars

Next ==
    \/ \E t \in Threads : Enq(t) \/ \E o \in Op : EnqCall(t, o)
    \/ Stop
    \/ Combiner
    \/ \E w \in Workers : Worker(w)
    \/ Finished

Spec == Init /\ [][Next]_vars

(* Every thread that has work to do is scheduled: they are operating       *)
(* system threads, none of which the code ever suspends.  The destructor   *)
(* need never be called.                                                   *)
Fairness ==
    /\ \A t \in Threads : WF_vars(Enq(t))
    /\ WF_vars(Combiner)
    /\ \A w \in Workers : WF_vars(Worker(w))

FairSpec == Spec /\ Fairness
-----------------------------------------------------------------------------
ThreadTypeOK ==
    /\ perThreadLog \subseteq Threads
    /\ pc \in [Threads -> {"idle", "load", "trylock", "push"}]
    /\ arg \in [Threads -> Op \cup {NoOp}]
    /\ \A t \in Threads : pc[t] # "idle" => arg[t] \in issued
    /\ qnum \in [Threads -> {0, 1}]
    /\ issued \subseteq Op /\ returned \subseteq issued

QueueTypeOK ==
    /\ curQ \in {0, 1}
    /\ op_ \in [Threads -> [{0, 1} -> Seq(Op)]]
    /\ qLock \in [Threads -> [{0, 1} -> {"free", "thread", "combiner"}]]

CombinerTypeOK ==
    /\ cpc \in {"loop", "merge", "copy", "broadcast", "free", "scan"}
    /\ phase \in {"run", "drain", "force", "done"}
    /\ left \subseteq Threads
    /\ merged \in Seq(Op)
    /\ cw \in 0 .. NumWorkers
    /\ minDone \in Nat
    /\ rounds \in Nat
    /\ logs \in Seq(Seq(Op))
    /\ logQueue \in Seq(Nat)

WorkerTypeOK ==
    /\ workQueue \in [Workers -> Seq(Nat)]
    /\ wpc \in [Workers -> {"run", "retire", "exit"}]
    /\ logDoneCount \in [Workers -> Nat]

StopTypeOK == globalStop \in BOOLEAN /\ combinerStop \in BOOLEAN

LogTypeOK ==
    ThreadTypeOK /\ QueueTypeOK /\ CombinerTypeOK /\ WorkerTypeOK /\ StopTypeOK

ReplicaTypeOK ==
    /\ sl \in [Workers -> Replica]
    /\ freeQueue \in Seq(Nat \X Nodes)
    /\ freedNodes \in Seq(Nodes)

(* Type invariant: the logs and queues, and the replicas.                  *)
TypeOK == LogTypeOK /\ ReplicaTypeOK

(* A log that some worker still has queued, the one it is reading          *)
(* included, has not been deleted by freeMergedLogs: the combiner deletes  *)
(* only logs numbered below a minimum of counts it read one by one while   *)
(* the workers went on.                                                    *)
QueuedLogsAlive ==
    \A w \in Workers : \A i \in 1 .. Len(workQueue[w]) :
        \E j \in 1 .. Len(logQueue) : logQueue[j] = workQueue[w][i]

(* Where an operation is: in a queue of a thread's log, in the merged log  *)
(* under construction, or in a numbered log.                               *)
QueuePlaces(o, queues) ==
    UNION {{<<"queue", t, q, i>> : i \in {j \in DOMAIN queues[t][q] : queues[t][q][j] = o}} :
           t \in Threads, q \in {0, 1}}

MergedPlaces(o, log) == {<<"merged", i>> : i \in {j \in DOMAIN log : log[j] = o}}

LogPlaces(o, ls) ==
    UNION {{<<"log", k, i>> : i \in {j \in DOMAIN ls[k] : ls[k][j] = o}} : k \in DOMAIN ls}

Places(o) == QueuePlaces(o, op_) \cup MergedPlaces(o, merged) \cup LogPlaces(o, logs)

(* Between the push of enq and the numbered log an operation is neither    *)
(* lost nor duplicated, whichever of the two queues it raced into while    *)
(* combineLogs switched them.                                              *)
ExactlyOnce ==
    \A o \in Op : Cardinality(Places(o)) = (IF o \in returned THEN 1 ELSE 0)

(* The logs whose operations worker w has applied to its replica.          *)
Applied(w) == logDoneCount[w] + (IF wpc[w] = "retire" THEN 1 ELSE 0)

(* The logs broadcastMergedLog has pushed to worker w.                     *)
Sent(w) == IF cpc = "broadcast" /\ cw <= w THEN Len(logs) - 1 ELSE Len(logs)

(* broadcastMergedLog reaches every worker: a worker's queue holds exactly *)
(* the logs sent and not yet retired, in the order of their numbers.       *)
QueueIsBacklog ==
    \A w \in Workers :
        workQueue[w] = [i \in 1 .. Sent(w) - logDoneCount[w]
                           |-> logDoneCount[w] + i - 1]

(* An empty replica after the first k of a sequence of logs.               *)
AfterLogs(ls, k) ==
    LET after[n \in 0 .. k] ==
          IF n = 0 THEN EmptyReplica ELSE Replay(after[n - 1], ls[n])
    IN  after[k]

(* Every replica is the result of applying a prefix of one sequence of     *)
(* logs: replicas of workers that have done as many logs are equal, however *)
(* far apart the workers run.                                              *)
ReplicasAgree == \A w \in Workers : sl[w] = AfterLogs(logs, Applied(w))

(* When the combiner sets g_combinerStop nothing is left to do: every      *)
(* logged operation has been applied to every replica.  In particular the  *)
(* loop workerThreadExec runs after the stop finds an empty queue, so      *)
(* g_removeDetected, which only that loop sets, stays false.               *)
StopMeansDrained ==
    combinerStop =>
        /\ logQueue = << >>
        /\ \A t \in Threads : op_[t] = [q \in {0, 1} |-> << >>]
        /\ \A w \in Workers :
              workQueue[w] = << >> /\ wpc[w] # "retire" /\ logDoneCount[w] = Len(logs)

(* free() is called on a list node once, and only when every replica has   *)
(* applied the node's removal and no worker will touch its replica again.  *)
NodesFreedLast ==
    /\ \A i, j \in DOMAIN freedNodes : freedNodes[i] = freedNodes[j] => i = j
    /\ \A i \in DOMAIN freedNodes :
          /\ [op |-> "remove", node |-> freedNodes[i]] \in returned
          /\ \A w \in Workers : logDoneCount[w] = Len(logs) /\ workQueue[w] = << >>

(* Every operation a thread logged is eventually applied to every replica. *)
EveryOpReachesReplicas ==
    \A o \in Op : \A w \in Workers :
        (o \in returned) ~> (\E n \in 1 .. Applied(w) : \E i \in DOMAIN logs[n] : logs[n][i] = o)

(* The destructor returns: once g_globalStop is set, every worker leaves   *)
(* its loop.                                                               *)
ShutdownCompletes == globalStop ~> Terminated

(* The order tests/OpLog/test.cpp asserts of a merged log: a node's        *)
(* insertion, logged first, comes before its removal.                      *)
MergedInLogOrder ==
    \A k \in DOMAIN logs : \A i, j \in DOMAIN logs[k] :
        /\ logs[k][i].node = logs[k][j].node
        /\ logs[k][i].op = "insert" /\ logs[k][j].op = "remove"
        => i < j
=============================================================================
