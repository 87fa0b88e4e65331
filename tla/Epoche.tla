------------------------------- MODULE Epoche -------------------------------
(***************************************************************************)
(* Epoch-based reclamation of the nodes of the radix tree                  *)
(* (hydralist/lib/ARTROWEX/Epoche.cpp).  A thread publishes the epoch it   *)
(* read when it enters the tree; a node taken out of the tree is put on    *)
(* the deletion list of the thread that took it out, in a label stamped    *)
(* with the epoch; a label is freed once its stamp is below every epoch    *)
(* published.  The tree is abstracted to the set of nodes linked in it.    *)
(* A thread inside it may hold a pointer to any node that was linked at    *)
(* some moment since it published its epoch: a node already unlinked still *)
(* leads to its children, which were linked when it was unlinked.          *)
(***************************************************************************)
EXTENDS Integers, FiniteSets

CONSTANTS
    Threads,
    Nodes,
    NoThread,
    LabelSize,       \* the nodes of a label (32)
    EpochPeriod,     \* markings per epoch (64)
    StartGC,         \* startGCThreshhold (256)
    MaxEpoch         \* a bound on currentEpoche

ASSUME NoThreadAssumption == NoThread \notin Threads

ASSUME BoundAssumption ==
    /\ LabelSize \in Nat \ {0} /\ EpochPeriod \in Nat \ {0} /\ StartGC \in Nat
    /\ MaxEpoch \in Nat

(* numeric_limits<uint64_t>::max(), above every epoch.                     *)
Infinity == MaxEpoch + 1

VARIABLES
    currentEpoche,
    localEpoche,         \* per thread; Infinity outside the tree and before the first use
    thresholdCounter,    \* per thread: the nodes marked since its last GC
    at,                  \* at[n]: "free", "linked", "unlinked" or "listed"
    by,                  \* by[n]: the thread that unlinked n
    label, stamp,        \* label[n], stamp[n]: its label there, and its epoch
    pc,
    seen,                \* seen[t]: the epoch t has loaded to publish it
    held,                \* held[t]: the nodes t may have a pointer to
    scanned, oldest      \* the loop over the deletion lists, and oldestEpoche

lists == <<thresholdCounter, by, label, stamp>>
gc == <<scanned, oldest>>
vars == <<currentEpoche, localEpoche, lists, at, pc, seen, held, gc>>

Init ==
    /\ currentEpoche = 0
    /\ localEpoche = [t \in Threads |-> Infinity]
    /\ thresholdCounter = [t \in Threads |-> 0]
    /\ at \in [Nodes -> {"free", "linked"}]
    /\ by = [n \in Nodes |-> NoThread]
    /\ label = [n \in Nodes |-> 0] /\ stamp = [n \in Nodes |-> 0]
    /\ pc = [t \in Threads |-> "new"]
    /\ seen = [t \in Threads |-> 0]
    /\ held = [t \in Threads |-> {}]
    /\ scanned = [t \in Threads |-> {}]
    /\ oldest = [t \in Threads |-> 0]

Goto(t, l) == pc' = [pc EXCEPT ![t] = l]

Inside(t) == pc[t] \in {"reading", "writing"}

Listed(t) == {n \in Nodes : at[n] = "listed" /\ by[n] = t}
-----------------------------------------------------------------------------
(* The first getThreadInfo of a thread makes its deletion list, which      *)
(* publishes epoch 0 until enterEpoche stores another.                     *)
NewList(t) ==
    /\ pc[t] = "new"
    /\ localEpoche' = [localEpoche EXCEPT ![t] = 0]
    /\ Goto(t, "enter")
    /\ UNCHANGED <<currentEpoche, lists, at, seen, held, gc>>

(* enterEpoche: the load of the current epoch, and its publication.        *)
LoadEpoche(t) ==
    /\ pc[t] \in {"enter", "out"}
    /\ seen' = [seen EXCEPT ![t] = currentEpoche]
    /\ Goto(t, "store")
    /\ UNCHANGED <<currentEpoche, localEpoche, lists, at, held, gc>>

StoreEpoche(t) ==
    /\ pc[t] = "store"
    /\ localEpoche' = [localEpoche EXCEPT ![t] = seen[t]]
    /\ held' = [held EXCEPT ![t] = {n \in Nodes : at[n] = "linked"}]
    /\ \E l \in {"reading", "writing"} : Goto(t, l)
    /\ UNCHANGED <<currentEpoche, lists, at, seen, gc>>

(* A writer allocates a node and links it.                                 *)
Link(t, n) ==
    /\ pc[t] = "writing" /\ at[n] = "free"
    /\ at' = [at EXCEPT ![n] = "linked"]
    /\ held' = [s \in Threads |-> IF Inside(s) THEN held[s] \cup {n} ELSE held[s]]
    /\ UNCHANGED <<currentEpoche, localEpoche, lists, pc, seen, gc>>

(* It replaces a node in its parent, and then marks the node for deletion. *)
Unlink(t, n) ==
    /\ pc[t] = "writing" /\ at[n] = "linked"
    /\ at' = [at EXCEPT ![n] = "unlinked"]
    /\ by' = [by EXCEPT ![n] = t]
    /\ UNCHANGED <<currentEpoche, localEpoche, thresholdCounter, label, stamp, pc, seen, held, gc>>

(* The newest label of a list, 0 if there is none.                         *)
HeadLabel(t) ==
    IF Listed(t) = {} THEN 0
    ELSE CHOOSE l \in {label[n] : n \in Listed(t)} : \A n \in Listed(t) : label[n] <= l

Members(t, l) == {n \in Listed(t) : label[n] = l}

(* DeletionList::add: the label of the head, or a new one if it is full.   *)
AddLabel(t) ==
    IF Listed(t) # {} /\ Cardinality(Members(t, HeadLabel(t))) < LabelSize
      THEN HeadLabel(t) ELSE HeadLabel(t) + 1

(* Variant: the label keeps the epoch of its first node. *)
MarkKeepsStamp(t, n) ==
    /\ pc[t] = "writing" /\ at[n] = "unlinked" /\ by[n] = t
    /\ at' = [at EXCEPT ![n] = "listed"]
    /\ label' = [label EXCEPT ![n] = AddLabel(t)]
    /\ stamp' = [stamp EXCEPT ![n] =
         IF Members(t, AddLabel(t)) = {} THEN currentEpoche
         ELSE stamp[CHOOSE m \in Members(t, AddLabel(t)) : TRUE]]
    /\ thresholdCounter' = [thresholdCounter EXCEPT ![t] = @ + 1]
    /\ UNCHANGED <<currentEpoche, localEpoche, by, pc, seen, held, gc>>

(* markNodeForDeletion: the whole label takes the current epoch.           *)
Mark(t, n) ==
    /\ pc[t] = "writing" /\ at[n] = "unlinked" /\ by[n] = t
    /\ LET l == AddLabel(t) IN
       /\ label' = [label EXCEPT ![n] = l]
       /\ stamp' = [m \in Nodes |-> IF m = n \/ m \in Members(t, l) THEN currentEpoche
                                                                    ELSE stamp[m]]
    /\ at' = [at EXCEPT ![n] = "listed"]
    /\ thresholdCounter' = [thresholdCounter EXCEPT ![t] = @ + 1]
    /\ UNCHANGED <<currentEpoche, localEpoche, by, pc, seen, held, gc>>

(* The end of a read-only guard, which publishes nothing.                  *)
ReadDone(t) ==
    /\ pc[t] = "reading"
    /\ held' = [held EXCEPT ![t] = {}]
    /\ Goto(t, "return")
    /\ UNCHANGED <<currentEpoche, localEpoche, lists, at, seen, gc>>

Advances(t) == thresholdCounter[t] % EpochPeriod = 1

(* exitEpocheAndCleanup: a new epoch after so many markings, and a garbage *)
(* collection after so many more, unless there is nothing to collect.      *)
ExitEpoche(t) ==
    /\ pc[t] = "writing" /\ \A n \in Nodes : ~(at[n] = "unlinked" /\ by[n] = t)
    /\ held' = [held EXCEPT ![t] = {}]
    /\ Advances(t) => currentEpoche < MaxEpoch
    /\ currentEpoche' = IF Advances(t) THEN currentEpoche + 1 ELSE currentEpoche
    /\ IF thresholdCounter[t] > StartGC
         THEN IF Listed(t) = {}
                THEN /\ thresholdCounter' = [thresholdCounter EXCEPT ![t] = 0]
                     /\ Goto(t, "return")
                ELSE Goto(t, "collect") /\ UNCHANGED thresholdCounter
         ELSE Goto(t, "return") /\ UNCHANGED thresholdCounter
    /\ UNCHANGED <<localEpoche, at, by, label, stamp, seen, gc>>

(* The collector withdraws its own epoch before it looks at the others.    *)
Withdraw(t) ==
    /\ pc[t] = "collect"
    /\ localEpoche' = [localEpoche EXCEPT ![t] = Infinity]
    /\ oldest' = [oldest EXCEPT ![t] = Infinity]
    /\ scanned' = [scanned EXCEPT ![t] = {}]
    /\ Goto(t, "scan")
    /\ UNCHANGED <<currentEpoche, lists, at, seen, held>>

Scan(t, s) ==
    /\ pc[t] = "scan" /\ s \notin scanned[t]
    /\ oldest' = [oldest EXCEPT ![t] = IF localEpoche[s] < @ THEN localEpoche[s] ELSE @]
    /\ scanned' = [scanned EXCEPT ![t] = @ \cup {s}]
    /\ UNCHANGED <<currentEpoche, localEpoche, lists, at, pc, seen, held>>

Reclaimable(t) == {n \in Listed(t) : stamp[n] < oldest[t]}

FreeLabels(t) ==
    /\ pc[t] = "scan" /\ scanned[t] = Threads
    /\ at' = [n \in Nodes |-> IF n \in Reclaimable(t) THEN "free" ELSE at[n]]
    /\ by' = [n \in Nodes |-> IF n \in Reclaimable(t) THEN NoThread ELSE by[n]]
    /\ thresholdCounter' = [thresholdCounter EXCEPT ![t] = 0]
    /\ Goto(t, "return")
    /\ UNCHANGED <<currentEpoche, localEpoche, label, stamp, seen, held, gc>>

(* Variant: the epoch stays published. *)
ReturnPublished(t) ==
    /\ pc[t] = "return"
    /\ Goto(t, "out")
    /\ UNCHANGED <<currentEpoche, localEpoche, lists, at, seen, held, gc>>

(* ~ThreadInfo, at the end of an operation on the tree.                    *)
Return(t) ==
    /\ pc[t] = "return"
    /\ localEpoche' = [localEpoche EXCEPT ![t] = Infinity]
    /\ Goto(t, "out")
    /\ UNCHANGED <<currentEpoche, lists, at, seen, held, gc>>

Next ==
    \E t \in Threads :
        \/ NewList(t) \/ LoadEpoche(t) \/ StoreEpoche(t) \/ ReadDone(t) \/ ExitEpoche(t)
        \/ Withdraw(t) \/ FreeLabels(t) \/ Return(t)
        \/ \E n \in Nodes : Link(t, n) \/ Unlink(t, n) \/ Mark(t, n)
        \/ \E s \in Threads : Scan(t, s)

Spec == Init /\ [][Next]_vars
-----------------------------------------------------------------------------
(* Type invariant (labels are only compared).                              *)
TypeOK ==
    /\ currentEpoche \in 0 .. MaxEpoch
    /\ localEpoche \in [Threads -> 0 .. Infinity]
    /\ thresholdCounter \in [Threads -> Nat]
    /\ at \in [Nodes -> {"free", "linked", "unlinked", "listed"}]
    /\ by \in [Nodes -> Threads \cup {NoThread}]
    /\ stamp \in [Nodes -> Nat]
    /\ pc \in [Threads -> {"new", "enter", "out", "store", "reading", "writing",
                        "collect", "scan", "return"}]
    /\ seen \in [Threads -> Nat]
    /\ held \in [Threads -> SUBSET Nodes]
    /\ scanned \in [Threads -> SUBSET Threads]
    /\ oldest \in [Threads -> 0 .. Infinity]

(* No thread can hold a pointer to a node that was freed: the load and the *)
(* publication of an epoch are two steps, the collector reads the epochs   *)
(* one at a time while threads come and go, and a label takes nodes of     *)
(* several epochs.                                                         *)
NoUseAfterFree == \A t \in Threads : \A n \in held[t] : at[n] # "free"

(* The assertion of ~Epoche: when no operation is running, every label is  *)
(* below the oldest epoch published, so the destructor frees everything.   *)
QuietMeansReclaimable ==
    (\A t \in Threads : pc[t] \in {"new", "out"}) =>
        \A n \in Nodes, t \in Threads : at[n] = "listed" => stamp[n] < localEpoche[t]
=============================================================================
