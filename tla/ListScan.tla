------------------------------ MODULE ListScan ------------------------------
(***************************************************************************)
(* LinkedList::scan beside the operations of DataLayer.  A scan validates  *)
(* each node by itself and then follows next, which it reads after the     *)
(* validation.  What a node contributes is the sorted list of its entries  *)
(* (ListNode shows that a validated node scan is exact).                   *)
(***************************************************************************)
EXTENDS DataLayerMap

CONSTANTS
    Scanners,     \* threads that scan, once each
    StartKeys,    \* the keys a scan starts from
    ScanRange     \* the number of values it asks for

ASSUME RangeAssumption == ScanRange \in Nat \ {0}

SE == INSTANCE SequencesExt

VARIABLES
    sc,       \* sc[s]: the call of scanner s
    always,   \* always[s]: the keys in the map ever since s last restarted
    gap       \* gap[s]: a next pointer changed between validation and use

scanVars == <<vars, sc, always, gap>>

ScanInit ==
    /\ Init
    /\ sc = [s \in Scanners |-> [pc |-> "idle", key |-> 0, start |-> HeadNode, cur |-> HeadNode,
                                 fresh |-> FALSE, next |-> Null, end |-> FALSE, out |-> <<>>]]
    /\ always = [s \in Scanners |-> {}]
    /\ gap = [s \in Scanners |-> FALSE]

(* The keys of the list, the value of each being the one of its entry.     *)
Stored == {k \in Keys : Homes(k) # {}}

To(s, c) == sc' = [sc EXCEPT ![s] = c]

(* The node a scan enters the list at: getJumpNode.                        *)
JumpNodes(k) == IF SL!IsEmpty(sl) THEN {HeadNode}
                ELSE {IF n = Null THEN HeadNode ELSE n : n \in SL!SLLookup(sl, k)}

(* Variant: a restart keeps what was collected. *)
RestartKeepsOut(s, c) ==
    /\ To(s, [c EXCEPT !.pc = "walk", !.cur = c.start, !.end = FALSE])
    /\ always' = [always EXCEPT ![s] = Stored]
    /\ gap' = [gap EXCEPT ![s] = FALSE]

(* The label restart: an empty vector, and the node the search layer gave. *)
RestartScan(s, c) ==
    /\ To(s, [c EXCEPT !.pc = "walk", !.cur = c.start, !.end = FALSE, !.out = <<>>])
    /\ always' = [always EXCEPT ![s] = Stored]
    /\ gap' = [gap EXCEPT ![s] = FALSE]

ScanCall(s) ==
    /\ sc[s].pc = "idle"
    /\ \E k \in StartKeys : \E n \in JumpNodes(k) :
          RestartScan(s, [sc[s] EXCEPT !.key = k, !.start = n])
    /\ UNCHANGED vars

ScanWalk(s) ==
    /\ sc[s].pc = "walk"
    /\ LET c == sc[s] IN
       To(s, IF node[c.cur].min > c.key THEN [c EXCEPT !.cur = node[c.cur].prev]
             ELSE IF CheckRange(c.cur, c.key) THEN [c EXCEPT !.pc = "lock"]
             ELSE [c EXCEPT !.pc = "right"])
    /\ UNCHANGED <<vars, always, gap>>

ScanWalkRight(s) ==
    /\ sc[s].pc = "right"
    /\ To(s, [sc[s] EXCEPT !.pc = "walk", !.cur = node[sc[s].cur].next])
    /\ UNCHANGED <<vars, always, gap>>

ScanReadLock(s) ==
    /\ sc[s].pc = "lock"
    /\ IF Unlocked(sc[s].cur)
         THEN /\ To(s, [sc[s] EXCEPT !.pc = "read", !.fresh = TRUE])
              /\ UNCHANGED <<always, gap>>
         ELSE RestartScan(s, sc[s])
    /\ UNCHANGED vars

(* Variant: the loop over a node ends one entry early. *)
ContributionShort(c) ==
    LET e == node[c.cur].entries
        K == {k \in Present(e) : c.key > node[c.cur].min => k >= c.key}
        s == SE!SetToSortSeq(K, LAMBDA x, y : x < y)
        n == IF Len(s) <= ScanRange - Len(c.out) THEN Len(s) - 1 ELSE ScanRange - Len(c.out)
    IN  SubSeq(s, 1, n)

(* What ListNode::scan adds: the entries from the start key on, unless the *)
(* key is not above min, until ScanRange is reached.                       *)
Contribution(c) ==
    LET e == node[c.cur].entries
        K == {k \in Present(e) : c.key > node[c.cur].min => k >= c.key}
        s == SE!SetToSortSeq(K, LAMBDA x, y : x < y)
        n == IF Len(s) <= ScanRange - Len(c.out) THEN Len(s) ELSE ScanRange - Len(c.out)
    IN  SubSeq(s, 1, n)

(* getDeleted, then ListNode::scan; the tail ends the scan.                *)
ScanRead(s) ==
    /\ sc[s].pc = "read"
    /\ IF node[sc[s].cur].deleted
         THEN RestartScan(s, sc[s])
         ELSE /\ To(s, IF node[sc[s].cur].next = Null
                         THEN [sc[s] EXCEPT !.pc = "validate", !.end = TRUE]
                         ELSE [sc[s] EXCEPT !.pc = "validate", !.out = @ \o Contribution(sc[s])])
              /\ UNCHANGED <<always, gap>>
    /\ UNCHANGED vars

ScanReadUnlock(s) ==
    /\ sc[s].pc = "validate"
    /\ IF sc[s].fresh
         THEN /\ To(s, [sc[s] EXCEPT !.pc = "next", !.next = node[sc[s].cur].next])
              /\ UNCHANGED <<always, gap>>
         ELSE RestartScan(s, sc[s])
    /\ UNCHANGED vars

(* cur = cur->getNext(), and the test of the loop.                         *)
ScanNext(s) ==
    /\ sc[s].pc = "next"
    /\ LET n == node[sc[s].cur].next IN
       /\ gap' = [gap EXCEPT ![s] = @ \/ n # sc[s].next]
       /\ To(s, IF Len(sc[s].out) = ScanRange \/ sc[s].end
                  THEN [sc[s] EXCEPT !.pc = "done", !.next = Null]
                  ELSE [sc[s] EXCEPT !.pc = "lock", !.next = Null, !.cur = n])
    /\ UNCHANGED <<vars, always>>

ScanStep(s) ==
    \/ ScanCall(s) \/ ScanWalk(s) \/ ScanWalkRight(s) \/ ScanReadLock(s)
    \/ ScanRead(s) \/ ScanReadUnlock(s) \/ ScanNext(s)

(* A step of the other threads: a write lock of the node a scan is reading *)
(* makes its validation fail, a removal ends a key's stay.                 *)
OtherStep ==
    /\ Next
    /\ sc' = [s \in Scanners |->
         LET c == sc[s].cur IN
         [sc[s] EXCEPT !.fresh = @ /\ (node'[c].locked => node[c].locked)]]
    /\ always' = [s \in Scanners |-> always[s] \cap Stored']
    /\ UNCHANGED gap

NextWithScan == OtherStep \/ \E s \in Scanners : ScanStep(s)

ScanSpec == ScanInit /\ [][NextWithScan]_scanVars
-----------------------------------------------------------------------------
Collected(s) == {sc[s].out[i] : i \in DOMAIN sc[s].out}

(* A scan returns keys in strictly increasing order, none twice, across    *)
(* nodes that split and merge under it, unless the successor of a node     *)
(* changed between its validation (linkedList.cpp:279) and the use of next *)
(* (linkedList.cpp:281): then a split makes it visit moved entries twice.  *)
ScanInOrder ==
    \A s \in Scanners : sc[s].pc = "done" /\ ~gap[s] =>
        \A i, j \in DOMAIN sc[s].out : i < j => sc[s].out[i] < sc[s].out[j]

(* With the same exception, in which a merge makes it miss entries, a scan *)
(* returns every key that was in the list all the time since its last      *)
(* restart, up to the last key it returns.                                 *)
ScanMissesNothing ==
    \A s \in Scanners : sc[s].pc = "done" /\ ~gap[s] =>
        \A k \in always[s] :
            k >= sc[s].key /\ (Len(sc[s].out) = ScanRange => k <= SE!Last(sc[s].out))
                => k \in Collected(s)
=============================================================================
