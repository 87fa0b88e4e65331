----------------------------- MODULE Lifecycle -----------------------------
(***************************************************************************)
(* How an index starts and stops (hydralist/src/HydraList.cpp): the        *)
(* constructor creates and pins a worker per NUMA node, each worker        *)
(* creates the search layer of its node, and the constructor waits for     *)
(* them by polling slReady; the destructor stops the combiner, which stops *)
(* the workers.  All of this state is global and outlives an index.        *)
(***************************************************************************)
EXTENDS Integers

CONSTANTS
    NumNuma,      \* numNuma, the number of NUMA nodes and of workers
    MaxIndexes    \* a bound on the indexes made one after the other

ASSUME SizeAssumption == NumNuma \in Nat \ {0} /\ MaxIndexes \in Nat

Workers == 0 .. NumNuma - 1

VARIABLES
    gen,                \* the index that exists, or the last one that did
    main, i,            \* the step of constructor and destructor, their loop
    threadInitialized, slReady,
    sl,                 \* sl[w]: the index whose layer g_perNumaSlPtr[w] is
    live,               \* the layers that exist: pairs <<index, node>>
    inst,               \* the workers registered in g_WorkerThreadInst
    worker, combiner,   \* what the threads do
    globalStop, combinerStop,
    logs                \* a user has logged something not yet drained

call == <<gen, main, i>>
layers == <<sl, live>>
others == <<inst, worker, combiner>>
stops == <<globalStop, combinerStop>>
vars == <<call, layers, others, stops, threadInitialized, slReady, logs>>

Init ==
    /\ gen = 0 /\ main = "none" /\ i = 0
    /\ threadInitialized = [w \in Workers |-> FALSE]
    /\ slReady = [w \in Workers |-> FALSE]
    /\ sl = [w \in Workers |-> 0] /\ live = {}
    /\ inst = {}
    /\ worker = [w \in Workers |-> "gone"] /\ combiner = "gone"
    /\ globalStop = FALSE /\ combinerStop = FALSE
    /\ logs = FALSE
-----------------------------------------------------------------------------
(* The constructor up to createWorkerThread.                               *)
Construct ==
    /\ main = "none" /\ gen < MaxIndexes
    /\ gen' = gen + 1 /\ main' = "spawn" /\ i' = 0
    /\ globalStop' = FALSE /\ combinerStop' = FALSE
    /\ UNCHANGED <<layers, others, threadInitialized, slReady, logs>>

SpawnWorker ==
    /\ main = "spawn"
    /\ threadInitialized' = [threadInitialized EXCEPT ![i] = FALSE]
    /\ worker' = [worker EXCEPT ![i] = "start"]
    /\ main' = "pin"
    /\ UNCHANGED <<stops, layers, gen, i, slReady, inst, combiner, logs>>

(* Variant: the worker is not told that it is pinned. *)
PinWorkerSilently ==
    /\ main = "pin"
    /\ IF i + 1 < NumNuma THEN main' = "spawn" /\ i' = i + 1
                          ELSE main' = "combiner" /\ i' = 0
    /\ UNCHANGED <<stops, layers, others, gen, threadInitialized, slReady, logs>>

PinWorker ==
    /\ main = "pin"
    /\ threadInitialized' = [threadInitialized EXCEPT ![i] = TRUE]
    /\ IF i + 1 < NumNuma THEN main' = "spawn" /\ i' = i + 1
                          ELSE main' = "combiner" /\ i' = 0
    /\ UNCHANGED <<stops, layers, others, gen, slReady, logs>>

CreateCombiner ==
    /\ main = "combiner"
    /\ combiner' = "loop" /\ main' = "wait"
    /\ UNCHANGED <<stops, layers, gen, i, threadInitialized, slReady, inst, worker, logs>>

(* Variant: only the first search layer is waited for. *)
WaitReadyFirst ==
    /\ main = "wait" /\ slReady[i]
    /\ main' = "ready" /\ i' = 0
    /\ UNCHANGED <<stops, layers, others, gen, threadInitialized, slReady, logs>>

(* while (slReady[i] == false);                                            *)
WaitReady ==
    /\ main = "wait" /\ slReady[i]
    /\ IF i + 1 < NumNuma THEN i' = i + 1 /\ UNCHANGED main
                          ELSE main' = "ready" /\ i' = 0
    /\ UNCHANGED <<stops, layers, others, gen, threadInitialized, slReady, logs>>

(* A call of a user splits or merges a node.                               *)
UserLogs ==
    /\ main = "ready" /\ logs' = TRUE
    /\ UNCHANGED <<call, stops, layers, others, threadInitialized, slReady>>

Destroy ==
    /\ main = "ready"
    /\ globalStop' = TRUE /\ main' = "join"
    /\ UNCHANGED <<layers, others, gen, i, threadInitialized, slReady, combinerStop, logs>>

(* Variant: one search layer is deleted. *)
DeleteFirstLayer ==
    /\ main = "join" /\ combiner = "gone" /\ \A w \in Workers : worker[w] = "gone"
    /\ live' = live \ {<<sl[0], 0>>}
    /\ main' = "none"
    /\ UNCHANGED <<stops, others, gen, i, threadInitialized, slReady, sl, logs>>

(* All threads are joined and the search layers deleted; the pointers and  *)
(* slReady keep their values.                                              *)
DeleteLayers ==
    /\ main = "join" /\ combiner = "gone" /\ \A w \in Workers : worker[w] = "gone"
    /\ live' = live \ {<<sl[w], w>> : w \in Workers}
    /\ main' = "none"
    /\ UNCHANGED <<stops, others, gen, i, threadInitialized, slReady, sl, logs>>
-----------------------------------------------------------------------------
Moves(w, from, to) == worker[w] = from /\ worker' = [worker EXCEPT ![w] = to]

WorkerRegister(w) ==
    /\ Moves(w, "start", "init")
    /\ inst' = inst \cup {w}
    /\ UNCHANGED <<call, stops, layers, threadInitialized, slReady, combiner, logs>>

WorkerUnready(w) ==
    /\ threadInitialized[w] /\ Moves(w, "init", "create")
    /\ slReady' = [slReady EXCEPT ![w] = FALSE]
    /\ UNCHANGED <<call, stops, layers, threadInitialized, inst, combiner, logs>>

WorkerCreate(w) ==
    /\ Moves(w, "create", "announce")
    /\ sl' = [sl EXCEPT ![w] = gen] /\ live' = live \cup {<<gen, w>>}
    /\ UNCHANGED <<call, stops, threadInitialized, slReady, inst, combiner, logs>>

WorkerReady(w) ==
    /\ Moves(w, "announce", "loop")
    /\ slReady' = [slReady EXCEPT ![w] = TRUE]
    /\ UNCHANGED <<call, stops, layers, threadInitialized, inst, combiner, logs>>

(* Variant: the worker leaves when the destructor says so. *)
WorkerExitEarly(w) ==
    /\ globalStop /\ Moves(w, "loop", "gone")
    /\ inst' = inst \ {w}
    /\ UNCHANGED <<call, stops, layers, threadInitialized, slReady, combiner, logs>>

(* The worker sees g_combinerStop, finds its queue empty and unregisters.  *)
WorkerExit(w) ==
    /\ combinerStop /\ Moves(w, "loop", "gone")
    /\ inst' = inst \ {w}
    /\ UNCHANGED <<call, stops, layers, threadInitialized, slReady, combiner, logs>>

(* A round of the combiner that finds nothing to combine.                  *)
CombinerLoop == combiner = "loop" /\ ~globalStop /\ UNCHANGED vars

CombinerSeesStop ==
    /\ combiner = "loop" /\ globalStop
    /\ combiner' = "drain"
    /\ UNCHANGED <<call, stops, layers, threadInitialized, slReady, inst, worker, logs>>

(* The workers may go once the logs are deleted, that is, once every       *)
(* worker has applied them.                                                *)
CombinerExit ==
    /\ combiner = "drain"
    /\ logs => \A w \in Workers : worker[w] = "loop"
    /\ combiner' = "gone" /\ combinerStop' = TRUE /\ logs' = FALSE
    /\ UNCHANGED <<call, layers, threadInitialized, slReady, inst, worker, globalStop>>

Starting == Construct \/ SpawnWorker \/ PinWorker \/ CreateCombiner \/ WaitReady

Worker(w) == WorkerRegister(w) \/ WorkerUnready(w) \/ WorkerCreate(w) \/ WorkerReady(w)
             \/ WorkerExit(w)

Over == main = "none" /\ gen = MaxIndexes /\ UNCHANGED vars

Next ==
    \/ Starting \/ UserLogs \/ Destroy \/ DeleteLayers
    \/ CombinerLoop \/ CombinerSeesStop \/ CombinerExit
    \/ \E w \in Workers : Worker(w)
    \/ Over

Spec == Init /\ [][Next]_vars

(* Threads that were created run, and a constructor or destructor that was *)
(* called does too; nobody has to call either.                             *)
FairSpec ==
    /\ Spec
    /\ WF_vars(SpawnWorker \/ PinWorker \/ CreateCombiner \/ WaitReady)
    /\ WF_vars(DeleteLayers) /\ WF_vars(CombinerSeesStop \/ CombinerExit)
    /\ \A w \in Workers : WF_vars(Worker(w))
-----------------------------------------------------------------------------
(* Once the constructor of the first index has returned, the search layer  *)
(* a call finds for any NUMA node exists and belongs to this index.  A     *)
(* later index finds slReady true from the one before: its constructor     *)
(* (HydraList.cpp:194-196) may return with layers that are deleted.        *)
SearchLayersReady ==
    gen = 1 /\ main = "ready" => \A w \in Workers : sl[w] = gen /\ <<gen, w>> \in live

(* freeMergedLogs asks the workers for their progress through              *)
(* g_WorkerThreadInst while there are logs: each of them is registered,    *)
(* for the first index, whose constructor waits for them.                  *)
CombinerFindsWorkers ==
    gen = 1 /\ combiner \in {"loop", "drain"} /\ logs => inst = Workers

(* Every layer that was created is deleted by the destructor, and no layer *)
(* is created after it: no worker outlives its index.                      *)
NoLayerLeft == main = "none" => live = {} /\ \A w \in Workers : worker[w] = "gone"

(* The constructor returns, also when the flags are those an earlier index *)
(* left behind, and so does the destructor, although combiner and workers  *)
(* wait for each other.                                                    *)
StartAndStopEnd ==
    /\ main = "spawn" ~> main = "ready"
    /\ main = "join" ~> main = "none"
=============================================================================
