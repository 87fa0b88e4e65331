---------------------------- MODULE EpocheProofs ----------------------------
(* Safety of the epoch-based reclamation, for any threads, nodes, label    *)
(* sizes and thresholds.                                                   *)
EXTENDS Epoche, TLAPS

(* A step may take half a minute: the provers' own limit is shorter.       *)
USE SMTT(30), ZenonT(30)

(* What is published, loaded or stamped is not of the future, and only a   *)
(* thread that has published its epoch holds pointers.                     *)
EpochsPast ==
    /\ \A t \in Threads : seen[t] <= currentEpoche
    /\ \A t \in Threads : Inside(t) => localEpoche[t] <= currentEpoche
    /\ \A n \in Nodes : stamp[n] <= currentEpoche
    /\ \A t \in Threads : held[t] # {} => Inside(t)

(* A node that can still be held is not free, and once it is listed its    *)
(* stamp is not below the epoch of the holder.                             *)
HeldIsStamped ==
    \A t \in Threads : \A n \in held[t] :
        /\ at[n] # "free"
        /\ at[n] = "listed" => localEpoche[t] <= stamp[n]

(* The collector's minimum stays below the epoch of every holder of one of *)
(* its nodes that it has passed: one who publishes later holds none.       *)
ScanSound ==
    \A s, t \in Threads : \A n \in held[t] :
        (pc[s] = "scan" /\ t \in scanned[s] /\ at[n] = "listed" /\ by[n] = s)
            => oldest[s] <= localEpoche[t]

(* Outside the tree nothing is published.                                  *)
OutIsInfinite ==
    \A t \in Threads : pc[t] \in {"new", "out"} => localEpoche[t] = Infinity

IInv == TypeOK /\ EpochsPast /\ HeldIsStamped /\ ScanSound /\ OutIsInfinite

(* The initial states satisfy the inductive invariant.                     *)
LEMMA InitInv == Init => IInv
BY BoundAssumption DEF Init, IInv, TypeOK, EpochsPast, HeldIsStamped, ScanSound,
   OutIsInfinite, Infinity, Inside

(* Every step preserves the types.                                         *)
LEMMA TypeStep == TypeOK /\ EpochsPast /\ [Next]_vars => TypeOK'
<1> SUFFICES ASSUME TypeOK, EpochsPast, [Next]_vars PROVE TypeOK'
  OBVIOUS
<1> USE BoundAssumption DEF TypeOK, Infinity, Goto, lists, gc
<1>1. CASE UNCHANGED vars
  BY <1>1 DEF vars
<1>2. ASSUME NEW t \in Threads, NewList(t) PROVE TypeOK'
  BY <1>2 DEF NewList
<1>3. ASSUME NEW t \in Threads, LoadEpoche(t) PROVE TypeOK'
  BY <1>3 DEF LoadEpoche
<1>4. ASSUME NEW t \in Threads, StoreEpoche(t) PROVE TypeOK'
  BY <1>4 DEF StoreEpoche, EpochsPast
<1>5. ASSUME NEW t \in Threads, ReadDone(t) PROVE TypeOK'
  BY <1>5 DEF ReadDone
<1>6. ASSUME NEW t \in Threads, ExitEpoche(t) PROVE TypeOK'
  BY <1>6 DEF ExitEpoche
<1>7. ASSUME NEW t \in Threads, Withdraw(t) PROVE TypeOK'
  BY <1>7 DEF Withdraw
<1>8. ASSUME NEW t \in Threads, FreeLabels(t) PROVE TypeOK'
  BY <1>8 DEF FreeLabels
<1>9. ASSUME NEW t \in Threads, Return(t) PROVE TypeOK'
  BY <1>9 DEF Return
<1>10. ASSUME NEW t \in Threads, NEW n \in Nodes, Link(t, n) PROVE TypeOK'
  BY <1>10 DEF Link
<1>11. ASSUME NEW t \in Threads, NEW n \in Nodes, Unlink(t, n) PROVE TypeOK'
  BY <1>11 DEF Unlink
<1>12. ASSUME NEW t \in Threads, NEW n \in Nodes, Mark(t, n) PROVE TypeOK'
  BY <1>12 DEF Mark
<1>13. ASSUME NEW t \in Threads, NEW s \in Threads, Scan(t, s) PROVE TypeOK'
  BY <1>13 DEF Scan
<1> QED
  BY <1>1, <1>2, <1>3, <1>4, <1>5, <1>6, <1>7, <1>8, <1>9, <1>10, <1>11, <1>12, <1>13
 , Zenon DEF Next

(* Every step preserves the rest of the inductive invariant.  The steps    *)
(* that matter: a thread that publishes holds only linked nodes; a node is *)
(* marked with the current epoch, which no published epoch exceeds; and a  *)
(* node below the minimum of a completed scan is held by nobody.           *)
LEMMA InvStep == IInv /\ [Next]_vars => (EpochsPast /\ HeldIsStamped /\ ScanSound /\ OutIsInfinite)'
<1> SUFFICES ASSUME IInv, [Next]_vars, TypeOK'
             PROVE  (EpochsPast /\ HeldIsStamped /\ ScanSound /\ OutIsInfinite)'
  BY TypeStep DEF IInv
<1> DEFINE Rest == EpochsPast /\ HeldIsStamped /\ ScanSound /\ OutIsInfinite
<1> USE BoundAssumption DEF IInv, TypeOK, Infinity, Goto, lists, gc, Inside
<1>1. CASE UNCHANGED vars
  BY <1>1 DEF vars, EpochsPast, HeldIsStamped, ScanSound, OutIsInfinite
<1>2. ASSUME NEW t \in Threads, NewList(t) PROVE Rest'
  <2>1. EpochsPast'
    BY <1>2 DEF NewList, EpochsPast
  <2>2. HeldIsStamped'
    BY <1>2 DEF NewList, HeldIsStamped, EpochsPast
  <2>3. ScanSound'
    BY <1>2 DEF NewList, ScanSound, HeldIsStamped, EpochsPast
  <2>4. OutIsInfinite'
    BY <1>2 DEF NewList, OutIsInfinite
  <2> QED
    BY <2>1, <2>2, <2>3, <2>4
<1>3. ASSUME NEW t \in Threads, LoadEpoche(t) PROVE Rest'
  <2>1. EpochsPast'
    BY <1>3 DEF LoadEpoche, EpochsPast
  <2>2. HeldIsStamped'
    BY <1>3 DEF LoadEpoche, HeldIsStamped, EpochsPast
  <2>3. ScanSound'
    BY <1>3 DEF LoadEpoche, ScanSound, HeldIsStamped, EpochsPast
  <2>4. OutIsInfinite'
    BY <1>3 DEF LoadEpoche, OutIsInfinite
  <2> QED
    BY <2>1, <2>2, <2>3, <2>4
<1>4. ASSUME NEW t \in Threads, StoreEpoche(t) PROVE Rest'
  <2>1. EpochsPast'
    BY <1>4 DEF StoreEpoche, EpochsPast
  <2>2. HeldIsStamped'
    BY <1>4 DEF StoreEpoche, HeldIsStamped, EpochsPast
  <2>3. ScanSound'
    BY <1>4 DEF StoreEpoche, ScanSound, HeldIsStamped, EpochsPast
  <2>4. OutIsInfinite'
    BY <1>4 DEF StoreEpoche, OutIsInfinite
  <2> QED
    BY <2>1, <2>2, <2>3, <2>4
<1>5. ASSUME NEW t \in Threads, ReadDone(t) PROVE Rest'
  <2>1. EpochsPast'
    BY <1>5 DEF ReadDone, EpochsPast
  <2>2. HeldIsStamped'
    BY <1>5 DEF ReadDone, HeldIsStamped, EpochsPast
  <2>3. ScanSound'
    BY <1>5 DEF ReadDone, ScanSound, HeldIsStamped, EpochsPast
  <2>4. OutIsInfinite'
    BY <1>5 DEF ReadDone, OutIsInfinite
  <2> QED
    BY <2>1, <2>2, <2>3, <2>4
<1>6. ASSUME NEW t \in Threads, ExitEpoche(t) PROVE Rest'
  <2>1. EpochsPast'
    BY <1>6 DEF ExitEpoche, Advances, EpochsPast
  <2>2. HeldIsStamped'
    BY <1>6 DEF ExitEpoche, Advances, HeldIsStamped, EpochsPast
  <2>3. ScanSound'
    BY <1>6 DEF ExitEpoche, Advances, ScanSound, HeldIsStamped, EpochsPast
  <2>4. OutIsInfinite'
    BY <1>6 DEF ExitEpoche, Advances, OutIsInfinite
  <2> QED
    BY <2>1, <2>2, <2>3, <2>4
<1>7. ASSUME NEW t \in Threads, Withdraw(t) PROVE Rest'
  <2>1. EpochsPast'
    BY <1>7 DEF Withdraw, EpochsPast
  <2>2. HeldIsStamped'
    BY <1>7 DEF Withdraw, HeldIsStamped, EpochsPast
  <2>3. ScanSound'
    BY <1>7 DEF Withdraw, ScanSound, HeldIsStamped, EpochsPast
  <2>4. OutIsInfinite'
    BY <1>7 DEF Withdraw, OutIsInfinite
  <2> QED
    BY <2>1, <2>2, <2>3, <2>4
<1>8. ASSUME NEW t \in Threads, FreeLabels(t) PROVE Rest'
  <2>1. EpochsPast'
    BY <1>8 DEF FreeLabels, Reclaimable, Listed, EpochsPast
  <2>2. HeldIsStamped'
    BY <1>8 DEF FreeLabels, Reclaimable, Listed, HeldIsStamped, EpochsPast, ScanSound
  <2>3. ScanSound'
    BY <1>8 DEF FreeLabels, Reclaimable, Listed, ScanSound, HeldIsStamped, EpochsPast
  <2>4. OutIsInfinite'
    BY <1>8 DEF FreeLabels, Reclaimable, Listed, OutIsInfinite
  <2> QED
    BY <2>1, <2>2, <2>3, <2>4
<1>9. ASSUME NEW t \in Threads, Return(t) PROVE Rest'
  <2>1. EpochsPast'
    BY <1>9 DEF Return, EpochsPast
  <2>2. HeldIsStamped'
    BY <1>9 DEF Return, HeldIsStamped, EpochsPast
  <2>3. ScanSound'
    BY <1>9 DEF Return, ScanSound, HeldIsStamped, EpochsPast
  <2>4. OutIsInfinite'
    BY <1>9 DEF Return, OutIsInfinite
  <2> QED
    BY <2>1, <2>2, <2>3, <2>4
<1>10. ASSUME NEW t \in Threads, NEW n \in Nodes, Link(t, n) PROVE Rest'
  <2>1. EpochsPast'
    BY <1>10 DEF Link, EpochsPast
  <2>2. HeldIsStamped'
    BY <1>10 DEF Link, HeldIsStamped, EpochsPast
  <2>3. ScanSound'
    BY <1>10 DEF Link, ScanSound, HeldIsStamped, EpochsPast
  <2>4. OutIsInfinite'
    BY <1>10 DEF Link, OutIsInfinite
  <2> QED
    BY <2>1, <2>2, <2>3, <2>4
<1>11. ASSUME NEW t \in Threads, NEW n \in Nodes, Unlink(t, n) PROVE Rest'
  <2>1. EpochsPast'
    BY <1>11 DEF Unlink, EpochsPast
  <2>2. HeldIsStamped'
    BY <1>11 DEF Unlink, HeldIsStamped, EpochsPast
  <2>3. ScanSound'
    BY <1>11 DEF Unlink, ScanSound, HeldIsStamped, EpochsPast
  <2>4. OutIsInfinite'
    BY <1>11 DEF Unlink, OutIsInfinite
  <2> QED
    BY <2>1, <2>2, <2>3, <2>4
<1>12. ASSUME NEW t \in Threads, NEW n \in Nodes, Mark(t, n) PROVE Rest'
  <2>1. EpochsPast'
    BY <1>12 DEF Mark, EpochsPast
  <2>2. HeldIsStamped'
    BY <1>12 DEF Mark, HeldIsStamped, EpochsPast
  <2>3. ScanSound'
    BY <1>12 DEF Mark, ScanSound, HeldIsStamped, EpochsPast
  <2>4. OutIsInfinite'
    BY <1>12 DEF Mark, OutIsInfinite
  <2> QED
    BY <2>1, <2>2, <2>3, <2>4
<1>13. ASSUME NEW t \in Threads, NEW s \in Threads, Scan(t, s) PROVE Rest'
  <2>1. EpochsPast'
    BY <1>13 DEF Scan, EpochsPast
  <2>2. HeldIsStamped'
    BY <1>13 DEF Scan, HeldIsStamped, EpochsPast
  <2>3. ScanSound'
    BY <1>13 DEF Scan, ScanSound, HeldIsStamped, EpochsPast
  <2>4. OutIsInfinite'
    BY <1>13 DEF Scan, OutIsInfinite
  <2> QED
    BY <2>1, <2>2, <2>3, <2>4
<1> QED
  BY <1>1, <1>2, <1>3, <1>4, <1>5, <1>6, <1>7, <1>8, <1>9, <1>10, <1>11, <1>12, <1>13
  DEF Next

(* Every reachable state satisfies the inductive invariant.                *)
THEOREM Invariant == Spec => []IInv
<1>1. IInv /\ [Next]_vars => IInv'
  BY TypeStep, InvStep DEF IInv
<1> QED
  BY InitInv, <1>1, PTL DEF Spec

(* No node of the tree is freed while an operation that could have reached *)
(* it is still running (exitEpocheAndCleanup).                             *)
THEOREM Safety == Spec => []NoUseAfterFree
<1>1. IInv => NoUseAfterFree
  BY DEF IInv, HeldIsStamped, NoUseAfterFree
<1> QED
  BY Invariant, <1>1, PTL

(* The assertion of ~Epoche holds whenever no operation is running.        *)
THEOREM DestructorAssertion == Spec => []QuietMeansReclaimable
<1>1. IInv => QuietMeansReclaimable
  BY BoundAssumption DEF IInv, TypeOK, OutIsInfinite, EpochsPast, QuietMeansReclaimable, Infinity
<1> QED
  BY Invariant, <1>1, PTL
=============================================================================
