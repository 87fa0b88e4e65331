------------------------ MODULE VersionedLockProofs ------------------------
(***************************************************************************)
(* Proofs about VersionedLock, for any number of threads, any set of words *)
(* and values, and any bound on the version.                               *)
(***************************************************************************)
EXTENDS VersionedLock, TLAPS

(* A step may take half a minute: the provers' own limit is shorter.       *)
USE SMTT(30), ZenonT(30)

(* The parity of the version alternates. *)
LEMMA EvenStep == \A v \in Nat : Even(v + 1) <=> ~Even(v)
  BY DEF Even

(* Threads that are not reading have no copies.                            *)
NoLeftovers ==
    \A t \in Threads : pc[t] \notin {"reading", "valid"} => snap[t] = Nothing

(* The inductive invariant: exclusion alone is not inductive, since it     *)
(* rests on the version being odd while a writer is inside; the reader's   *)
(* copies rest on both.                                                    *)
IInv == TypeOK /\ OneWriter /\ OddWhileWriting /\ CopyIsCurrent /\ NoLeftovers

(* The constructor, version 2 and nobody inside, establishes the invariant. *)
LEMMA InitIInv == Init => IInv
  BY DEF Init, IInv, TypeOK, OneWriter, OddWhileWriting, CopyIsCurrent, NoLeftovers,
         Even, Nothing

(* Every step of the lock and of its users keeps the types.                *)
LEMMA TypeStep == TypeOK /\ [Next]_vars => TypeOK'
  <1> SUFFICES ASSUME TypeOK, [Next]_vars PROVE TypeOK'
    OBVIOUS
  <1> USE DEF TypeOK, Nothing
  <1>1. CASE UNCHANGED vars
    BY <1>1 DEF vars
  <1>2. ASSUME NEW t \in Threads, ReadLock(t) PROVE TypeOK'
    BY <1>2 DEF ReadLock
  <1>3. ASSUME NEW t \in Threads, ReadUnlock(t) PROVE TypeOK'
    <2>1. CASE version = ver[t]
      BY <1>3, <2>1 DEF ReadUnlock
    <2>2. CASE version # ver[t]
      BY <1>3, <2>2 DEF ReadUnlock, Forget
    <2>3. QED
      BY <2>1, <2>2
  <1>4. ASSUME NEW t \in Threads, Use(t) PROVE TypeOK'
    BY <1>4 DEF Use, Forget
  <1>5. ASSUME NEW t \in Threads, WriteLoad(t) PROVE TypeOK'
    BY <1>5 DEF WriteLoad
  <1>6. ASSUME NEW t \in Threads, WriteCas(t) PROVE TypeOK'
    BY <1>6 DEF WriteCas
  <1>7. ASSUME NEW t \in Threads, WriteCasFails(t) PROVE TypeOK'
    BY <1>7 DEF WriteCasFails, Forget
  <1>8. ASSUME NEW t \in Threads, WriteUnlock(t) PROVE TypeOK'
    BY <1>8 DEF WriteUnlock, Forget
  <1>9. ASSUME NEW t \in Threads, NEW x \in Words, ReadWord(t, x) PROVE TypeOK'
    BY <1>9 DEF ReadWord
  <1>10. ASSUME NEW t \in Threads, NEW x \in Words, WriteWord(t, x) PROVE TypeOK'
    BY <1>10 DEF WriteWord
  <1>11. QED
    BY <1>1, <1>2, <1>3, <1>4, <1>5, <1>6, <1>7, <1>8, <1>9, <1>10 DEF Next

(* One step preserves the rest of the invariant, action by action.         *)
LEMMA LockStep == IInv /\ [Next]_vars => OneWriter' /\ OddWhileWriting'
  <1> SUFFICES ASSUME IInv, [Next]_vars PROVE OneWriter' /\ OddWhileWriting'
    OBVIOUS
  <1> USE DEF IInv, TypeOK, OneWriter, OddWhileWriting
  <1>1. CASE UNCHANGED vars
    BY <1>1 DEF vars
  <1>2. ASSUME NEW t \in Threads, ReadLock(t) PROVE OneWriter' /\ OddWhileWriting'
    BY <1>2 DEF ReadLock
  <1>3. ASSUME NEW t \in Threads, ReadUnlock(t) PROVE OneWriter' /\ OddWhileWriting'
    <2>1. CASE version = ver[t]
      BY <1>3, <2>1, ZenonT(60) DEF ReadUnlock
    <2>2. CASE version # ver[t]
      BY <1>3, <2>2, ZenonT(60) DEF ReadUnlock, Forget
    <2>3. QED
      BY <2>1, <2>2, Zenon
  <1>4. ASSUME NEW t \in Threads, Use(t) PROVE OneWriter' /\ OddWhileWriting'
    BY <1>4 DEF Use, Forget
  <1>5. ASSUME NEW t \in Threads, WriteLoad(t) PROVE OneWriter' /\ OddWhileWriting'
    BY <1>5 DEF WriteLoad
  <1>6. ASSUME NEW t \in Threads, WriteCas(t) PROVE OneWriter' /\ OddWhileWriting'
    BY <1>6, EvenStep DEF WriteCas
  <1>7. ASSUME NEW t \in Threads, WriteCasFails(t) PROVE OneWriter' /\ OddWhileWriting'
    BY <1>7 DEF WriteCasFails, Forget
  <1>8. ASSUME NEW t \in Threads, WriteUnlock(t) PROVE OneWriter' /\ OddWhileWriting'
    BY <1>8, EvenStep DEF WriteUnlock, Forget
  <1>9. ASSUME NEW t \in Threads, NEW x \in Words, ReadWord(t, x) \/ WriteWord(t, x)
        PROVE OneWriter' /\ OddWhileWriting'
    BY <1>9 DEF ReadWord, WriteWord
  <1>10. QED
    BY <1>1, <1>2, <1>3, <1>4, <1>5, <1>6, <1>7, <1>8, <1>9 DEF Next

(* One step preserves what is known of a reader's copies.                  *)
LEMMA CopyStep == IInv /\ [Next]_vars => CopyIsCurrent' /\ NoLeftovers'
  <1> SUFFICES ASSUME IInv, [Next]_vars PROVE CopyIsCurrent' /\ NoLeftovers'
    OBVIOUS
  <1> USE DEF IInv, TypeOK, CopyIsCurrent, NoLeftovers, Nothing
  <1>1. CASE UNCHANGED vars
    BY <1>1 DEF vars
  <1>2. ASSUME NEW t \in Threads, ReadLock(t) PROVE CopyIsCurrent' /\ NoLeftovers'
    BY <1>2 DEF ReadLock
  <1>3. ASSUME NEW t \in Threads, ReadUnlock(t) PROVE CopyIsCurrent' /\ NoLeftovers'
    BY <1>3, ZenonT(30) DEF ReadUnlock, Forget
  <1>4. ASSUME NEW t \in Threads, Use(t) PROVE CopyIsCurrent' /\ NoLeftovers'
    BY <1>4 DEF Use, Forget
  <1>5. ASSUME NEW t \in Threads, WriteLoad(t) PROVE CopyIsCurrent' /\ NoLeftovers'
    BY <1>5 DEF WriteLoad
  (* The version moves past every version a reader has loaded. *)
  <1>6. ASSUME NEW t \in Threads, WriteCas(t) PROVE CopyIsCurrent' /\ NoLeftovers'
    BY <1>6 DEF WriteCas, OddWhileWriting
  <1>7. ASSUME NEW t \in Threads, WriteCasFails(t) PROVE CopyIsCurrent' /\ NoLeftovers'
    BY <1>7 DEF WriteCasFails, Forget
  <1>8. ASSUME NEW t \in Threads, WriteUnlock(t) PROVE CopyIsCurrent' /\ NoLeftovers'
    BY <1>8 DEF WriteUnlock, Forget, OddWhileWriting
  <1>9. ASSUME NEW t \in Threads, NEW x \in Words, ReadWord(t, x)
        PROVE CopyIsCurrent' /\ NoLeftovers'
    BY <1>9 DEF ReadWord
  (* The version is odd while a word is written, and no reader holds an odd one. *)
  <1>10. ASSUME NEW t \in Threads, NEW x \in Words, WriteWord(t, x)
         PROVE CopyIsCurrent' /\ NoLeftovers'
    BY <1>10 DEF WriteWord, OddWhileWriting
  <1>11. QED
    BY <1>1, <1>2, <1>3, <1>4, <1>5, <1>6, <1>7, <1>8, <1>9, <1>10 DEF Next

(* The invariant holds in every reachable state.                           *)
THEOREM Invariance == Spec => []IInv
  <1>1. IInv /\ [Next]_vars => IInv'
    BY TypeStep, LockStep, CopyStep DEF IInv
  <1>2. QED
    BY InitIInv, <1>1, PTL DEF Spec

(* Two threads are never both between write_lock and write_unlock.         *)
THEOREM Exclusion == Spec => []OneWriter
  BY Invariance, PTL DEF IInv

(* A read that read_unlock validates is not torn: the words copied one by  *)
(* one are together the contents of the node when it validates.            *)
THEOREM ValidReadsAreSnapshots == Spec => NoTornRead
  <1>1. IInv /\ [Next]_vars =>
          [\A t \in Threads : pc[t] = "reading" /\ pc'[t] = "valid" =>
              /\ \A x \in Words : snap[t][x] \in {NotRead, data[x]}
              /\ \A s \in Threads : pc[s] # "writing"]_vars
    <2> SUFFICES ASSUME IInv, Next, NEW t \in Threads, pc[t] = "reading", pc'[t] = "valid"
                 PROVE  /\ \A x \in Words : snap[t][x] \in {NotRead, data[x]}
                        /\ \A s \in Threads : pc[s] # "writing"
      OBVIOUS
    <2>1. version = ver[t]
      BY DEF IInv, TypeOK, Next, ReadLock, ReadUnlock, Use, WriteLoad, WriteCas, WriteCasFails,
             WriteUnlock, ReadWord, WriteWord, Forget
    <2>2. QED
      BY <2>1 DEF IInv, CopyIsCurrent, OddWhileWriting
  <1>2. QED
    BY Invariance, <1>1, PTL DEF Spec, NoTornRead

-----------------------------------------------------------------------------
(* The version number implements the lock as DataLayer uses it: the parity *)
(* is the lock bit, and an unchanged version means that no writer has come *)
(* since read_lock.  Threads between the load and the compare-and-swap of  *)
(* write_lock have not begun, as far as that lock can tell.                *)
THEOREM LockRefinement == Spec => ImplementsOptimisticLock
  <1>1. Init => Opt!Init
    <2> SUFFICES ASSUME Init PROVE Opt!Init
      OBVIOUS
    <2>1. Even(version) /\ \A t \in Threads : pc[t] = "idle"
      BY DEF Init, Even
    <2>2. Stage = [t \in Threads |-> "idle"]
      BY <2>1 DEF Stage
    <2>3. \A t \in Threads : ~(pc[t] = "reading" /\ ver[t] = version)
      BY <2>1, Zenon
    <2>4. Fresh = [t \in Threads |-> FALSE]
      BY <2>3, Zenon DEF Fresh
    <2>5. QED
      BY <2>1, <2>2, <2>4 DEF Init, Opt!Init, Nothing, Opt!Nothing
  <1>2. IInv /\ [Next]_vars => [Opt!Next]_Opt!vars
    <2> SUFFICES ASSUME IInv, [Next]_vars PROVE [Opt!Next]_Opt!vars
      OBVIOUS
    <2> USE DEF IInv, TypeOK, Stage, Fresh, Nothing, Opt!Nothing
    <2>1. CASE UNCHANGED vars
      BY <2>1 DEF vars, Opt!vars
    <2>2. ASSUME NEW t \in Threads, ReadLock(t) PROVE Opt!BeginRead(t)
      BY <2>2, Zenon DEF ReadLock, Opt!BeginRead
    <2>3. ASSUME NEW t \in Threads, ReadUnlock(t) PROVE Opt!EndRead(t)
      BY <2>3, ZenonT(60) DEF ReadUnlock, Forget, Opt!EndRead
    <2>4. ASSUME NEW t \in Threads, Use(t) PROVE Opt!Leave(t)
      BY <2>4, Zenon DEF Use, Forget, Opt!Leave
    <2>5. ASSUME NEW t \in Threads, WriteLoad(t) PROVE UNCHANGED Opt!vars
      BY <2>5 DEF WriteLoad, Opt!vars
    <2>6. ASSUME NEW t \in Threads, WriteCas(t) PROVE Opt!Acquire(t)
      BY <2>6, EvenStep, Zenon DEF WriteCas, OddWhileWriting, Opt!Acquire
    <2>7. ASSUME NEW t \in Threads, WriteCasFails(t) PROVE UNCHANGED Opt!vars
      BY <2>7 DEF WriteCasFails, Forget, NoLeftovers, Opt!vars
    <2>8. ASSUME NEW t \in Threads, WriteUnlock(t) PROVE Opt!Release(t)
      <3>1. ~Even(version) /\ Even(version')
        BY <2>8, EvenStep DEF WriteUnlock, OddWhileWriting
      <3>2. \A s \in Threads :
               pc[s] = "reading" => ver[s] # version /\ ver'[s] # version'
        BY <2>8, <3>1 DEF WriteUnlock, Forget, OddWhileWriting
      <3>3. \A s \in Threads : /\ ~(pc[s] = "reading" /\ ver[s] = version)
                               /\ ~(pc'[s] = "reading" /\ ver'[s] = version')
        BY <2>8, <3>2 DEF WriteUnlock, Forget
      <3>4. Fresh' = Fresh
        BY <3>3, Zenon
      <3>5. Stage[t] = "writing" /\ Stage' = [Stage EXCEPT ![t] = "idle"]
        BY <2>8, Zenon DEF WriteUnlock, Forget
      <3>6. snap' = snap /\ data' = data
        BY <2>8 DEF WriteUnlock, Forget, NoLeftovers
      <3>7. QED
        BY <3>1, <3>4, <3>5, <3>6 DEF Opt!Release
    <2>9. ASSUME NEW t \in Threads, NEW x \in Words, ReadWord(t, x) PROVE Opt!ReadWord(t, x)
      BY <2>9 DEF ReadWord, Opt!ReadWord
    <2>10. ASSUME NEW t \in Threads, NEW x \in Words, WriteWord(t, x) PROVE Opt!WriteWord(t, x)
      BY <2>10, Zenon DEF WriteWord, Opt!WriteWord
    <2>11. QED
      BY <2>1, <2>2, <2>3, <2>4, <2>5, <2>6, <2>7, <2>8, <2>9, <2>10 DEF Next, Opt!Next
  <1>3. QED
    BY Invariance, <1>1, <1>2, PTL DEF Spec, ImplementsOptimisticLock, Opt!Spec
=============================================================================
