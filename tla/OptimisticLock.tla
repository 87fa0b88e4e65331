-------------------------- MODULE OptimisticLock --------------------------
(***************************************************************************)
(* What a VersionedLock promises to the list nodes it guards, without the  *)
(* version number: one writer at a time, and a reader that overlaps a      *)
(* writer does not validate.  DataLayer uses the lock in this form.        *)
(***************************************************************************)
CONSTANTS Threads, Words, Values, NotRead

Nothing == [x \in Words |-> NotRead]

VARIABLES
    locked,   \* a writer holds the lock
    stage,    \* "idle", "reading", "valid" or "writing"
    fresh,    \* fresh[t]: no writer has come since t began to read
    data,     \* the words the lock guards
    snap      \* snap[t]: what t has read of them

vars == <<locked, stage, fresh, data, snap>>

Init ==
    /\ locked = FALSE
    /\ stage = [t \in Threads |-> "idle"]
    /\ fresh = [t \in Threads |-> FALSE]
    /\ data \in [Words -> Values]
    /\ snap = [t \in Threads |-> Nothing]

BeginRead(t) ==
    /\ stage[t] = "idle" /\ ~locked
    /\ stage' = [stage EXCEPT ![t] = "reading"]
    /\ fresh' = [fresh EXCEPT ![t] = TRUE]
    /\ UNCHANGED <<locked, data, snap>>

ReadWord(t, x) ==
    /\ stage[t] = "reading"
    /\ snap' = [snap EXCEPT ![t][x] = data[x]]
    /\ UNCHANGED <<locked, stage, fresh, data>>

EndRead(t) ==
    /\ stage[t] = "reading"
    /\ stage' = [stage EXCEPT ![t] = IF fresh[t] THEN "valid" ELSE "idle"]
    /\ fresh' = [fresh EXCEPT ![t] = FALSE]
    /\ snap' = IF fresh[t] THEN snap ELSE [snap EXCEPT ![t] = Nothing]
    /\ UNCHANGED <<locked, data>>

Leave(t) ==
    /\ stage[t] = "valid"
    /\ stage' = [stage EXCEPT ![t] = "idle"]
    /\ snap' = [snap EXCEPT ![t] = Nothing]
    /\ UNCHANGED <<locked, fresh, data>>

Acquire(t) ==
    /\ stage[t] = "idle" /\ ~locked
    /\ locked' = TRUE
    /\ stage' = [stage EXCEPT ![t] = "writing"]
    /\ fresh' = [s \in Threads |-> FALSE]
    /\ UNCHANGED <<data, snap>>

WriteWord(t, x) ==
    /\ stage[t] = "writing"
    /\ \E v \in Values : data' = [data EXCEPT ![x] = v]
    /\ UNCHANGED <<locked, stage, fresh, snap>>

Release(t) ==
    /\ stage[t] = "writing"
    /\ locked' = FALSE
    /\ stage' = [stage EXCEPT ![t] = "idle"]
    /\ UNCHANGED <<fresh, data, snap>>

Next ==
    \E t \in Threads :
        \/ BeginRead(t) \/ EndRead(t) \/ Leave(t) \/ Acquire(t) \/ Release(t)
        \/ \E x \in Words : ReadWord(t, x) \/ WriteWord(t, x)

Spec == Init /\ [][Next]_vars
=============================================================================
