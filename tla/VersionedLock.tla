--------------------------- MODULE VersionedLock ---------------------------
(***************************************************************************)
(* VersionedLock (hydralist/src/VersionedLock.h) at the grain of its loads *)
(* and compare-and-swap, with the words of the list node it guards.  A     *)
(* writer holds the lock while the version is odd; a reader loads the      *)
(* version, reads words one at a time, and keeps what it read only if the  *)
(* version is the same afterwards.                                         *)
(***************************************************************************)
EXTENDS Integers

CONSTANTS
    Threads,
    Words,        \* the words of the node, each read and written atomically
    Values,
    NotRead,      \* a word a reader has not copied yet
    MaxVersion    \* a bound on the version

ASSUME BoundAssumption == MaxVersion \in Nat

ASSUME NotReadAssumption == NotRead \notin Values

Nothing == [x \in Words |-> NotRead]

VARIABLES
    version,
    pc,         \* "idle", "cas", "writing", "reading" or "valid"
    ver,        \* the version a thread has loaded
    data,       \* the words of the node
    snap        \* what a reader has copied of them since its read_lock

vars == <<version, pc, ver, data, snap>>

Init ==
    /\ version = 2
    /\ pc = [t \in Threads |-> "idle"]
    /\ ver = [t \in Threads |-> 0]
    /\ data \in [Words -> Values]
    /\ snap = [t \in Threads |-> Nothing]

Even(v) == v % 2 = 0

(* read_lock; on an odd version it returns 0 and the caller tries again.   *)
ReadLock(t) ==
    /\ pc[t] = "idle" /\ Even(version)
    /\ ver' = [ver EXCEPT ![t] = version]
    /\ pc' = [pc EXCEPT ![t] = "reading"]
    /\ UNCHANGED <<version, data, snap>>

ReadWord(t, x) ==
    /\ pc[t] = "reading"
    /\ snap' = [snap EXCEPT ![t][x] = data[x]]
    /\ UNCHANGED <<version, pc, ver, data>>

(* A call that is over forgets the version it had loaded and its copies.   *)
Forget(t) ==
    /\ pc' = [pc EXCEPT ![t] = "idle"]
    /\ ver' = [ver EXCEPT ![t] = 0]
    /\ snap' = [snap EXCEPT ![t] = Nothing]

(* Variant: read_unlock accepts the lock bit of a writer still inside. *)
ReadUnlockIgnoresLock(t) ==
    /\ pc[t] = "reading"
    /\ IF version \div 2 = ver[t] \div 2
         THEN pc' = [pc EXCEPT ![t] = "valid"] /\ UNCHANGED <<ver, snap>>
         ELSE Forget(t)
    /\ UNCHANGED <<version, data>>

(* read_unlock *)
ReadUnlock(t) ==
    /\ pc[t] = "reading"
    /\ IF version = ver[t]
         THEN pc' = [pc EXCEPT ![t] = "valid"] /\ UNCHANGED <<ver, snap>>
         ELSE Forget(t)
    /\ UNCHANGED <<version, data>>

(* The reader has used what it read.                                       *)
Use(t) ==
    /\ pc[t] = "valid"
    /\ Forget(t)
    /\ UNCHANGED <<version, data>>

(* write_lock: the load; on an odd version it returns 0.                   *)
WriteLoad(t) ==
    /\ pc[t] = "idle" /\ Even(version)
    /\ ver' = [ver EXCEPT ![t] = version]
    /\ pc' = [pc EXCEPT ![t] = "cas"]
    /\ UNCHANGED <<version, data, snap>>

(* write_lock: compare_exchange_weak(ver, ver + 1), which may also fail    *)
(* when the version is the expected one.                                   *)
WriteCas(t) ==
    /\ pc[t] = "cas"
    /\ version = ver[t] /\ version < MaxVersion
    /\ version' = ver[t] + 1
    /\ pc' = [pc EXCEPT ![t] = "writing"]
    /\ UNCHANGED <<ver, data, snap>>

WriteCasFails(t) ==
    /\ pc[t] = "cas"
    /\ Forget(t)
    /\ UNCHANGED <<version, data>>

WriteWord(t, x) ==
    /\ pc[t] = "writing"
    /\ \E v \in Values : data' = [data EXCEPT ![x] = v]
    /\ UNCHANGED <<version, pc, ver, snap>>

(* Variant: write_unlock restores the version write_lock found. *)
WriteUnlockRestores(t) ==
    /\ pc[t] = "writing"
    /\ version' = version - 1
    /\ Forget(t)
    /\ UNCHANGED data

(* write_unlock: fetch_add(1)                                              *)
WriteUnlock(t) ==
    /\ pc[t] = "writing"
    /\ version' = version + 1
    /\ Forget(t)
    /\ UNCHANGED data

Next ==
    \E t \in Threads :
        \/ ReadLock(t) \/ ReadUnlock(t) \/ Use(t)
        \/ WriteLoad(t) \/ WriteCas(t) \/ WriteCasFails(t) \/ WriteUnlock(t)
        \/ \E x \in Words : ReadWord(t, x) \/ WriteWord(t, x)

Spec == Init /\ [][Next]_vars
-----------------------------------------------------------------------------
(* Type invariant.                                                         *)
TypeOK ==
    /\ version \in Nat
    /\ pc \in [Threads -> {"idle", "cas", "writing", "reading", "valid"}]
    /\ ver \in [Threads -> Nat]
    /\ data \in [Words -> Values]
    /\ snap \in [Threads -> [Words -> Values \cup {NotRead}]]

(* write_lock excludes: two threads are never between write_lock and       *)
(* write_unlock, although the load and the compare-and-swap are two steps. *)
OneWriter == \A s, t \in Threads : pc[s] = "writing" /\ pc[t] = "writing" => s = t

(* A thread is writing exactly while the version is odd, and no thread     *)
(* holds a version from the future or one that was odd.                    *)
OddWhileWriting ==
    /\ ~Even(version) <=> \E t \in Threads : pc[t] = "writing"
    /\ \A t \in Threads : pc[t] \in {"cas", "reading"} => Even(ver[t]) /\ ver[t] <= version

(* What a reader has copied is what the node holds, as long as the version *)
(* is the one it loaded.                                                   *)
CopyIsCurrent ==
    \A t \in Threads : pc[t] = "reading" /\ ver[t] = version =>
        \A x \in Words : snap[t][x] \in {NotRead, data[x]}

(* No torn read: when read_unlock succeeds, the words the reader copied    *)
(* one by one are together the contents of the node at that moment, and no *)
(* writer is inside.                                                       *)
NoTornRead ==
    [][\A t \in Threads : pc[t] = "reading" /\ pc'[t] = "valid" =>
          /\ \A x \in Words : snap[t][x] \in {NotRead, data[x]}
          /\ \A s \in Threads : pc[s] # "writing"]_vars

Stage == [t \in Threads |-> IF pc[t] = "cas" THEN "idle" ELSE pc[t]]

Fresh == [t \in Threads |-> pc[t] = "reading" /\ ver[t] = version]

Opt == INSTANCE OptimisticLock WITH locked <- ~Even(version), stage <- Stage, fresh <- Fresh

(* The version number implements the promise DataLayer relies on: a reader *)
(* validates exactly when no writer has taken the lock since its           *)
(* read_lock, in particular not when writers came and went in between.     *)
ImplementsOptimisticLock == Opt!Spec
=============================================================================
