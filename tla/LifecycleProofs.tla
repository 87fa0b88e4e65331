-------------------------- MODULE LifecycleProofs --------------------------
(***************************************************************************)
(* The invariants of Lifecycle for any number of NUMA nodes and indexes.   *)
(***************************************************************************)
EXTENDS Lifecycle, TLAPS

(* A step may take half a minute: the provers' own limit is shorter.       *)
USE SMTT(30), ZenonT(30)

Main == {"none", "spawn", "pin", "combiner", "wait", "ready", "join"}
WorkerSteps == {"gone", "start", "init", "create", "announce", "loop"}

(* The types of the variables.                                             *)
TypeOK ==
    /\ gen \in Nat /\ main \in Main /\ i \in Workers
    /\ threadInitialized \in [Workers -> BOOLEAN] /\ slReady \in [Workers -> BOOLEAN]
    /\ sl \in [Workers -> Nat] /\ live \subseteq Nat \X Workers
    /\ inst \subseteq Workers
    /\ worker \in [Workers -> WorkerSteps] /\ combiner \in {"gone", "loop", "drain"}
    /\ globalStop \in BOOLEAN /\ combinerStop \in BOOLEAN /\ logs \in BOOLEAN

(* createWorkerThread has got as far as worker w.                          *)
Spawned(w) ==
    \/ main \in {"combiner", "wait", "ready", "join"}
    \/ main = "spawn" /\ w < i
    \/ main = "pin" /\ w <= i

(* Which threads run at which step of constructor and destructor.          *)
CombinerPhase ==
    /\ globalStop \/ combinerStop => main \in {"join", "none"}
    /\ main \in {"none", "spawn", "pin", "combiner"} => combiner = "gone"
    /\ main \in {"wait", "ready"} => combiner = "loop"
    /\ main = "join" => (combiner = "gone" <=> combinerStop)
    /\ main = "combiner" => i = 0
    /\ logs => main \in {"ready", "join"} /\ combiner # "gone"

WorkerPhase ==
    \A w \in Workers :
        /\ ~Spawned(w) => worker[w] = "gone"
        /\ Spawned(w) /\ ~combinerStop => worker[w] # "gone"
        /\ worker[w] \in {"init", "create", "announce", "loop"} => w \in inst

(* A layer that exists is the one its pointer points to, and a worker that *)
(* is about to create a layer replaces none.                               *)
LayersReachable ==
    \A p \in live :
        /\ p[1] = sl[p[2]] /\ Spawned(p[2])
        /\ worker[p[2]] \notin {"start", "init", "create"}

(* In the first index slReady[w] means what the constructor takes it for.  *)
ReadyMeansReady ==
    /\ gen = 0 => main = "none" /\ \A w \in Workers : ~slReady[w]
    /\ gen = 1 /\ main # "none" =>
         \A w \in Workers :
             /\ slReady[w] => Spawned(w) /\ worker[w] \in {"loop", "gone"}
             /\ slReady[w] \/ worker[w] = "announce" => sl[w] = 1 /\ <<1, w>> \in live
             /\ main = "wait" /\ w < i => slReady[w]
             /\ main \in {"ready", "join"} => slReady[w]

(* The inductive invariant.                                                *)
LInv == TypeOK /\ CombinerPhase /\ WorkerPhase /\ LayersReachable /\ ReadyMeansReady
-----------------------------------------------------------------------------
(* The initial state of the globals satisfies the inductive invariant.     *)
LEMMA InitLInv == Init => LInv
<1> SUFFICES ASSUME Init PROVE LInv
  OBVIOUS
<1> USE SizeAssumption DEF Init
<1>1. 0 \in Workers
  BY DEF Workers
<1>2. TypeOK
  BY <1>1, Zenon DEF TypeOK, Main, WorkerSteps
<1>3. CombinerPhase
  BY DEF CombinerPhase
<1>4. WorkerPhase
  BY DEF WorkerPhase, Spawned
<1>5. LayersReachable
  BY DEF LayersReachable
<1>6. ReadyMeansReady
  BY Zenon DEF ReadyMeansReady
<1> QED
  BY <1>2, <1>3, <1>4, <1>5, <1>6 DEF LInv

(* Every step of constructor, destructor, workers and combiner keeps it.    *)
LEMMA StepLInv == LInv /\ [Next]_vars => LInv'
<1> SUFFICES ASSUME LInv, [Next]_vars PROVE LInv'
  OBVIOUS
<1> USE SizeAssumption DEF LInv, vars, call, layers, others, stops
<1>1. CASE Construct
  <2>1. TypeOK'
    <3>1. 0 \in Workers /\ gen + 1 \in Nat
      BY DEF TypeOK, Workers
    <3> QED
      BY <1>1, <3>1, Zenon DEF Construct, TypeOK, Main
  <2>2. CombinerPhase'
    BY <1>1 DEF Construct, CombinerPhase
  <2>3. WorkerPhase'
    BY <1>1 DEF Construct, WorkerPhase, Spawned, TypeOK, CombinerPhase, Workers
  <2>4. LayersReachable'
    BY <1>1 DEF Construct, LayersReachable, Spawned, TypeOK, Workers
  <2>5. ReadyMeansReady'
    BY <1>1 DEF Construct, ReadyMeansReady, Spawned, TypeOK, Workers,
       WorkerPhase
  <2> QED
    BY <2>1, <2>2, <2>3, <2>4, <2>5
<1>2. CASE SpawnWorker
  <2>1. TypeOK'
    BY <1>2 DEF SpawnWorker, TypeOK, Main, WorkerSteps
  <2>2. CombinerPhase'
    BY <1>2 DEF SpawnWorker, CombinerPhase
  <2>3. WorkerPhase'
    BY <1>2 DEF SpawnWorker, WorkerPhase, Spawned, TypeOK, Workers
  <2>4. LayersReachable'
    BY <1>2 DEF SpawnWorker, LayersReachable, Spawned, TypeOK, Workers
  <2>5. ReadyMeansReady'
    BY <1>2 DEF SpawnWorker, ReadyMeansReady, Spawned, TypeOK, Workers,
       WorkerPhase
  <2> QED
    BY <2>1, <2>2, <2>3, <2>4, <2>5
<1>3. CASE PinWorker
  <2>1. TypeOK'
    <3>1. i' \in Workers /\ main' \in Main
      BY <1>3 DEF PinWorker, TypeOK, Workers, Main
    <3>2. QED
      BY <1>3, <3>1 DEF PinWorker, TypeOK
  <2>2. CombinerPhase'
    BY <1>3 DEF PinWorker, CombinerPhase
  <2>3. WorkerPhase'
    BY <1>3 DEF PinWorker, WorkerPhase, Spawned, TypeOK, Workers
  <2>4. LayersReachable'
    BY <1>3 DEF PinWorker, LayersReachable, Spawned, TypeOK, Workers
  <2>5. ReadyMeansReady'
    BY <1>3 DEF PinWorker, ReadyMeansReady, Spawned, TypeOK, Workers
  <2> QED
    BY <2>1, <2>2, <2>3, <2>4, <2>5
<1>4. CASE CreateCombiner
  <2>1. TypeOK'
    BY <1>4 DEF CreateCombiner, TypeOK, Main
  <2>2. CombinerPhase'
    BY <1>4 DEF CreateCombiner, CombinerPhase
  <2>3. WorkerPhase'
    BY <1>4 DEF CreateCombiner, WorkerPhase, Spawned, TypeOK, Workers
  <2>4. LayersReachable'
    BY <1>4 DEF CreateCombiner, LayersReachable, Spawned, TypeOK, Workers
  <2>5. ReadyMeansReady'
    BY <1>4 DEF CreateCombiner, ReadyMeansReady, Spawned, TypeOK, Workers,
       CombinerPhase
  <2> QED
    BY <2>1, <2>2, <2>3, <2>4, <2>5
<1>5. CASE WaitReady
  <2>1. TypeOK'
    <3>1. i' \in Workers /\ main' \in Main
      BY <1>5 DEF WaitReady, TypeOK, Workers, Main
    <3>2. QED
      BY <1>5, <3>1 DEF WaitReady, TypeOK
  <2>2. CombinerPhase'
    BY <1>5 DEF WaitReady, CombinerPhase
  <2>3. WorkerPhase'
    BY <1>5 DEF WaitReady, WorkerPhase, Spawned, TypeOK, Workers
  <2>4. LayersReachable'
    BY <1>5 DEF WaitReady, LayersReachable, Spawned, TypeOK, Workers
  <2>5. ReadyMeansReady'
    BY <1>5 DEF WaitReady, ReadyMeansReady, Spawned, TypeOK, Workers
  <2> QED
    BY <2>1, <2>2, <2>3, <2>4, <2>5
<1>6. CASE UserLogs
  <2>1. TypeOK'
    BY <1>6 DEF UserLogs, TypeOK
  <2>2. CombinerPhase'
    BY <1>6 DEF UserLogs, CombinerPhase
  <2>3. WorkerPhase'
    BY <1>6 DEF UserLogs, WorkerPhase, Spawned, TypeOK
  <2>4. LayersReachable'
    BY <1>6 DEF UserLogs, LayersReachable, Spawned, TypeOK
  <2>5. ReadyMeansReady'
    BY <1>6 DEF UserLogs, ReadyMeansReady, Spawned, TypeOK
  <2> QED
    BY <2>1, <2>2, <2>3, <2>4, <2>5
<1>7. CASE Destroy
  <2>1. TypeOK'
    BY <1>7 DEF Destroy, TypeOK, Main
  <2>2. CombinerPhase'
    BY <1>7 DEF Destroy, CombinerPhase
  <2>3. WorkerPhase'
    BY <1>7 DEF Destroy, WorkerPhase, Spawned, TypeOK, CombinerPhase
  <2>4. LayersReachable'
    BY <1>7 DEF Destroy, LayersReachable, Spawned, TypeOK
  <2>5. ReadyMeansReady'
    BY <1>7 DEF Destroy, ReadyMeansReady, Spawned, TypeOK
  <2> QED
    BY <2>1, <2>2, <2>3, <2>4, <2>5
<1>8. CASE DeleteLayers
  <2>1. TypeOK'
    BY <1>8 DEF DeleteLayers, TypeOK, Main
  <2>2. CombinerPhase'
    BY <1>8 DEF DeleteLayers, CombinerPhase
  <2>3. WorkerPhase'
    BY <1>8 DEF DeleteLayers, WorkerPhase, Spawned, TypeOK
  <2>4. LayersReachable'
    BY <1>8 DEF DeleteLayers, LayersReachable, Spawned, TypeOK
  <2>5. ReadyMeansReady'
    BY <1>8 DEF DeleteLayers, ReadyMeansReady, Spawned, TypeOK
  <2> QED
    BY <2>1, <2>2, <2>3, <2>4, <2>5
<1>9. CASE CombinerLoop
  <2>1. TypeOK'
    BY <1>9 DEF CombinerLoop, TypeOK
  <2>2. CombinerPhase'
    BY <1>9 DEF CombinerLoop, CombinerPhase
  <2>3. WorkerPhase'
    BY <1>9 DEF CombinerLoop, WorkerPhase, Spawned
  <2>4. LayersReachable'
    BY <1>9 DEF CombinerLoop, LayersReachable, Spawned
  <2>5. ReadyMeansReady'
    BY <1>9 DEF CombinerLoop, ReadyMeansReady, Spawned
  <2> QED
    BY <2>1, <2>2, <2>3, <2>4, <2>5
<1>10. CASE CombinerSeesStop
  <2>1. TypeOK'
    BY <1>10 DEF CombinerSeesStop, TypeOK
  <2>2. CombinerPhase'
    BY <1>10 DEF CombinerSeesStop, CombinerPhase
  <2>3. WorkerPhase'
    BY <1>10 DEF CombinerSeesStop, WorkerPhase, Spawned, TypeOK
  <2>4. LayersReachable'
    BY <1>10 DEF CombinerSeesStop, LayersReachable, Spawned, TypeOK
  <2>5. ReadyMeansReady'
    BY <1>10 DEF CombinerSeesStop, ReadyMeansReady, Spawned, TypeOK
  <2> QED
    BY <2>1, <2>2, <2>3, <2>4, <2>5
<1>11. CASE CombinerExit
  <2>1. TypeOK'
    BY <1>11, Zenon DEF CombinerExit, TypeOK
  <2>2. CombinerPhase'
    BY <1>11 DEF CombinerExit, CombinerPhase, TypeOK, Workers, Main,
       WorkerSteps
  <2>3. WorkerPhase'
    BY <1>11 DEF CombinerExit, WorkerPhase, Spawned, TypeOK, CombinerPhase
  <2>4. LayersReachable'
    BY <1>11 DEF CombinerExit, LayersReachable, Spawned, TypeOK
  <2>5. ReadyMeansReady'
    BY <1>11 DEF CombinerExit, ReadyMeansReady, Spawned, TypeOK
  <2> QED
    BY <2>1, <2>2, <2>3, <2>4, <2>5
<1>12. ASSUME NEW w \in Workers, WorkerRegister(w) PROVE LInv'
  <2>1. TypeOK'
    BY <1>12 DEF WorkerRegister, Moves, TypeOK, WorkerSteps
  <2>2. CombinerPhase'
    BY <1>12 DEF WorkerRegister, Moves, CombinerPhase
  <2>3. WorkerPhase'
    BY <1>12 DEF WorkerRegister, Moves, WorkerPhase, Spawned, TypeOK
  <2>4. LayersReachable'
    BY <1>12 DEF WorkerRegister, Moves, LayersReachable, Spawned, TypeOK
  <2>5. ReadyMeansReady'
    BY <1>12 DEF WorkerRegister, Moves, ReadyMeansReady, Spawned, TypeOK
  <2> QED
    BY <2>1, <2>2, <2>3, <2>4, <2>5
<1>13. ASSUME NEW w \in Workers, WorkerUnready(w) PROVE LInv'
  <2>1. TypeOK'
    BY <1>13 DEF WorkerUnready, Moves, TypeOK, WorkerSteps
  <2>2. CombinerPhase'
    BY <1>13 DEF WorkerUnready, Moves, CombinerPhase
  <2>3. WorkerPhase'
    BY <1>13 DEF WorkerUnready, Moves, WorkerPhase, Spawned, TypeOK
  <2>4. LayersReachable'
    BY <1>13 DEF WorkerUnready, Moves, LayersReachable, Spawned, TypeOK
  <2>5. ReadyMeansReady'
    BY <1>13 DEF WorkerUnready, Moves, ReadyMeansReady, Spawned, TypeOK
  <2> QED
    BY <2>1, <2>2, <2>3, <2>4, <2>5
<1>14. ASSUME NEW w \in Workers, WorkerCreate(w) PROVE LInv'
  <2>1. TypeOK'
    BY <1>14 DEF WorkerCreate, Moves, TypeOK, WorkerSteps
  <2>2. CombinerPhase'
    BY <1>14 DEF WorkerCreate, Moves, CombinerPhase
  <2>3. WorkerPhase'
    BY <1>14 DEF WorkerCreate, Moves, WorkerPhase, Spawned, TypeOK
  <2>4. LayersReachable'
    BY <1>14 DEF WorkerCreate, Moves, LayersReachable, Spawned, TypeOK,
       CombinerPhase, WorkerPhase
  <2>5. ReadyMeansReady'
    BY <1>14 DEF WorkerCreate, Moves, ReadyMeansReady, Spawned, TypeOK
  <2> QED
    BY <2>1, <2>2, <2>3, <2>4, <2>5
<1>15. ASSUME NEW w \in Workers, WorkerReady(w) PROVE LInv'
  <2>1. TypeOK'
    BY <1>15 DEF WorkerReady, Moves, TypeOK, WorkerSteps
  <2>2. CombinerPhase'
    BY <1>15 DEF WorkerReady, Moves, CombinerPhase
  <2>3. WorkerPhase'
    BY <1>15 DEF WorkerReady, Moves, WorkerPhase, Spawned, TypeOK
  <2>4. LayersReachable'
    BY <1>15 DEF WorkerReady, Moves, LayersReachable, Spawned, TypeOK
  <2>5. ReadyMeansReady'
    BY <1>15 DEF WorkerReady, Moves, ReadyMeansReady, Spawned, TypeOK,
       CombinerPhase, WorkerPhase
  <2> QED
    BY <2>1, <2>2, <2>3, <2>4, <2>5
<1>16. ASSUME NEW w \in Workers, WorkerExit(w) PROVE LInv'
  <2>1. TypeOK'
    BY <1>16 DEF WorkerExit, Moves, TypeOK, WorkerSteps
  <2>2. CombinerPhase'
    BY <1>16 DEF WorkerExit, Moves, CombinerPhase
  <2>3. WorkerPhase'
    BY <1>16 DEF WorkerExit, Moves, WorkerPhase, Spawned, TypeOK, CombinerPhase
  <2>4. LayersReachable'
    BY <1>16 DEF WorkerExit, Moves, LayersReachable, Spawned, TypeOK
  <2>5. ReadyMeansReady'
    BY <1>16 DEF WorkerExit, Moves, ReadyMeansReady, Spawned, TypeOK
  <2> QED
    BY <2>1, <2>2, <2>3, <2>4, <2>5
<1>17. CASE UNCHANGED vars
  <2>1. TypeOK'
    BY <1>17 DEF TypeOK
  <2>2. CombinerPhase'
    BY <1>17 DEF CombinerPhase
  <2>3. WorkerPhase'
    BY <1>17 DEF WorkerPhase, Spawned
  <2>4. LayersReachable'
    BY <1>17 DEF LayersReachable, Spawned
  <2>5. ReadyMeansReady'
    BY <1>17 DEF ReadyMeansReady, Spawned
  <2> QED
    BY <2>1, <2>2, <2>3, <2>4, <2>5
<1> QED
  BY <1>1, <1>2, <1>3, <1>4, <1>5, <1>6, <1>7, <1>8, <1>9, <1>10,
     <1>11, <1>12, <1>13, <1>14, <1>15, <1>16, <1>17
     DEF Next, Starting, Worker, Over

(* The inductive invariant holds of every start and stop of every index.   *)
THEOREM LifecycleInvariance == Spec => []LInv
BY InitLInv, StepLInv, PTL DEF Spec

(* When the constructor of the first index returns, the search layer of    *)
(* every NUMA node exists and is its own (HydraList.cpp:194-196).          *)
THEOREM LayersAreReady == Spec => []SearchLayersReady
<1>1. LInv => SearchLayersReady
  BY Zenon DEF LInv, ReadyMeansReady, SearchLayersReady
<1> QED
  BY <1>1, LifecycleInvariance, PTL

(* In the first index freeMergedLogs finds every worker registered while   *)
(* there are logs (Combiner.h:53).                                         *)
THEOREM CombinerIsSafe == Spec => []CombinerFindsWorkers
<1>1. ASSUME LInv, gen = 1, combiner \in {"loop", "drain"}, logs PROVE inst = Workers
  <2>1. main \in {"ready", "join"} /\ ~combinerStop
    BY <1>1 DEF LInv, CombinerPhase
  <2>2. \A w \in Workers : worker[w] = "loop"
    BY <1>1, <2>1, Zenon DEF LInv, ReadyMeansReady, WorkerPhase, Spawned
  <2> QED
    BY <1>1, <2>2, Zenon DEF LInv, TypeOK, WorkerPhase
<1>2. LInv => CombinerFindsWorkers
  BY <1>1 DEF CombinerFindsWorkers
<1> QED
  BY <1>2, LifecycleInvariance, PTL

(* The destructor leaves no search layer and no worker behind              *)
(* (HydraList.cpp:202-209), for every index of a process.                  *)
THEOREM NothingLeft == Spec => []NoLayerLeft
<1>1. ASSUME LInv, main = "none" PROVE live = {} /\ \A w \in Workers : worker[w] = "gone"
  <2>1. \A w : ~Spawned(w)
    BY <1>1 DEF Spawned
  <2> QED
    BY <1>1, <2>1 DEF LInv, WorkerPhase, LayersReachable
<1>2. LInv => NoLayerLeft
  BY <1>1 DEF NoLayerLeft
<1> QED
  BY <1>2, LifecycleInvariance, PTL

=============================================================================
