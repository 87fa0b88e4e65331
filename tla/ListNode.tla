------------------------------ MODULE ListNode ------------------------------
(***************************************************************************)
(* One node of the list (hydralist/src/listNode.cpp) at the level of its   *)
(* slots: the bitmap, the fingerprints and the unsorted keyArray that a    *)
(* writer changes under the version lock, and the permuter, the sorted     *)
(* order of the slots that the readers compute, publish and share under a  *)
(* mutex of their own.  DataLayer sees such a node as a map.               *)
(*                                                                         *)
(* Only a lock holder writes, so one record describes the writer.  The     *)
(* version is the one of VersionedLock: odd while a writer is inside.      *)
(***************************************************************************)
EXTENDS Integers, Sequences, FiniteSets

CONSTANTS
    Readers,
    Pairs,        \* the pairs [key, val] that callers insert and update
    Fillings,     \* what the node holds at the start: sequences of pairs
    Batches,      \* what a neighbour may hold that is merged into this node
    ReadKeys,     \* the keys that readers look up or scan from
    Hash,         \* getKeyFingerPrint; keys may share a fingerprint
    MaxEntries,   \* MAX_ENTRIES (64)
    ScanRange,    \* the number of values a scan asks for
    MaxVersion,   \* a bound on the version
    ReadVersion,  \* a bound on the version while readers are active
    NoReader

Slots == 0 .. MaxEntries - 1
Keys == {p.key : p \in Pairs}
Min == CHOOSE k \in Keys : \A j \in Keys : k <= j

ASSUME SizeAssumption == MaxEntries \in Nat /\ MaxEntries >= 2 /\ MaxEntries % 2 = 0

ASSUME KeyAssumption == Keys \subseteq Nat /\ IsFiniteSet(Keys) /\ Keys # {}
                        /\ \A p \in Pairs : p = [key |-> p.key, val |-> p.val]

ASSUME RangeAssumption == ScanRange \in Nat \ {0} /\ MaxVersion \in Nat /\ ReadVersion \in Nat

ASSUME FillingAssumption ==
    /\ ReadKeys \subseteq Keys
    /\ \A s \in Fillings :
          /\ s \in Seq(Pairs) /\ Len(s) \in 1 .. MaxEntries /\ s[1].key = Min
          /\ \A i, j \in DOMAIN s : s[i].key = s[j].key => i = j

ASSUME BatchAssumption ==
    \A s \in Batches :
        /\ s \in Seq(Pairs) /\ Len(s) <= MaxEntries
        /\ \A i, j \in DOMAIN s : s[i].key = s[j].key => i = j

ASSUME ReaderAssumption == NoReader \notin Readers

VARIABLES
    version,      \* verLock
    keyArray,     \* keyArray[i] and its fingerprint, stale where the bit is clear
    fingerPrint,
    bitMap,       \* the set of slots in use
    numEntries,
    lastScanVersion, permuter, pLock,
    wr,           \* the writer that holds the lock
    rd            \* rd[r]: the call of reader r

entries == <<keyArray, fingerPrint, bitMap, numEntries>>
sorted == <<lastScanVersion, permuter, pLock>>
vars == <<version, entries, sorted, wr, rd>>

Even(v) == v % 2 = 0

Live == {keyArray[i] : i \in bitMap}

NoWriter == [pc |-> "idle", todo |-> <<>>, at |-> 0, i |-> 0, med |-> Min,
             moved |-> {}, left |-> {}, want |-> {}]

NoCall == [pc |-> "idle", op |-> "scan", key |-> Min, ver |-> 0, i |-> 0,
           mask |-> {}, copy |-> {}, out |-> <<>>]

(* The node holds its minimum, as the head does after initialize, or has   *)
(* been filled by insertions since; the permuter has never been written.   *)
Init ==
    /\ version = 2
    /\ \E s \in Fillings :
          /\ keyArray = [i \in Slots |-> IF i < Len(s) THEN s[i + 1] ELSE s[1]]
          /\ fingerPrint = [i \in Slots |-> Hash[keyArray[i].key]]
          /\ bitMap = 0 .. Len(s) - 1 /\ numEntries = Len(s)
    /\ lastScanVersion = 0 /\ permuter = [i \in Slots |-> 0] /\ pLock = NoReader
    /\ wr = NoWriter
    /\ rd = [r \in Readers |-> NoCall]
-----------------------------------------------------------------------------
(* The slots getKeyIndex finds: the fingerprint filters, the key decides.  *)
KeySlots(k) == {i \in bitMap : fingerPrint[i] = Hash[k] /\ keyArray[i].key = k}

Lowest(S) == CHOOSE i \in S : \A j \in S : i <= j

Free == Slots \ bitMap

(* Writes go on up to ReadVersion beside readers, then up to MaxVersion.    *)
VersionBound == IF \A r \in Readers : rd[r].pc = "idle" THEN MaxVersion ELSE ReadVersion

(* writeLock by an operation that will leave want in the node, or in the  *)
(* node and the new node of its split together.                            *)
Begin(pc, todo, at, want) ==
    /\ Even(version) /\ version + 2 <= VersionBound
    /\ version' = version + 1
    /\ wr' = [NoWriter EXCEPT !.pc = pc, !.todo = todo, !.at = at, !.want = want]

(* The key at index MAX_ENTRIES/2 of the sorted copy split makes.          *)
Median ==
    CHOOSE k \in {p.key : p \in Live} :
        Cardinality({p \in Live : p.key < k}) = MaxEntries \div 2

Has(k) == \E q \in Live : q.key = k

With(p) == IF Has(p.key) THEN Live ELSE Live \cup {p}

(* getFreeIndex answers that the key is there, that the node is full, or   *)
(* with the lowest free slot.                                              *)
Insert(p) ==
    /\ \/ /\ KeySlots(p.key) # {}
          /\ Begin("unlock", <<>>, 0, With(p))
       \/ /\ KeySlots(p.key) = {} /\ Free # {}
          /\ Begin("place", <<p>>, Lowest(Free), With(p))
    /\ UNCHANGED <<entries, sorted, rd>>

InsertSplits(p) ==
    /\ KeySlots(p.key) = {} /\ Free = {}
    /\ Even(version) /\ version + 2 <= VersionBound
    /\ version' = version + 1
    /\ wr' = [NoWriter EXCEPT !.pc = "split", !.todo = <<p>>, !.at = -1,
                              !.med = Median, !.want = With(p)]
    /\ UNCHANGED <<entries, sorted, rd>>

Update(p) ==
    /\ Begin("unlock", <<>>, 0,
             IF Has(p.key) THEN {q \in Live : q.key # p.key} \cup {p} ELSE Live)
    /\ keyArray' = [i \in Slots |-> IF i \in KeySlots(p.key) THEN p ELSE keyArray[i]]
    /\ UNCHANGED <<fingerPrint, bitMap, numEntries, sorted, rd>>

RemoveFromIndex(i) == bitMap' = bitMap \ {i} /\ numEntries' = numEntries - 1

Remove(k) ==
    /\ Begin("unlock", <<>>, 0, {q \in Live : q.key # k})
    /\ IF KeySlots(k) = {} THEN UNCHANGED <<bitMap, numEntries>>
                           ELSE RemoveFromIndex(Lowest(KeySlots(k)))
    /\ UNCHANGED <<keyArray, fingerPrint, sorted, rd>>

(* The next round of the loops of mergeWithNext and mergeWithPrev: an      *)
(* entry goes to the first of the free slots not yet passed.  There is no  *)
(* test for room: the entries that find no slot stay in the deleted node.  *)
PlaceNext(w, s, slots) ==
    IF s # <<>> /\ slots # {}
      THEN [w EXCEPT !.pc = "place", !.todo = s, !.at = Lowest(slots)]
      ELSE [w EXCEPT !.pc = "unlock", !.todo = <<>>, !.left = {s[n] : n \in DOMAIN s}]

(* The receiving side of a merge: s are the entries of the node on the     *)
(* right, in the order of its slots.                                       *)
Absorb(s) ==
    /\ \A n \in DOMAIN s : \A q \in Live : q.key < s[n].key
    /\ Even(version) /\ version + 2 <= VersionBound
    /\ version' = version + 1
    /\ wr' = PlaceNext([NoWriter EXCEPT !.want = Live \cup {s[n] : n \in DOMAIN s}], s, Free)
    /\ UNCHANGED <<entries, sorted, rd>>

(* Variant: the median itself stays. *)
SplitStepAbove ==
    /\ wr.pc = "split" /\ wr.i < MaxEntries
    /\ IF keyArray[wr.i].key > wr.med
         THEN /\ RemoveFromIndex(wr.i)
              /\ wr' = [wr EXCEPT !.i = @ + 1, !.moved = @ \cup {keyArray[wr.i]},
                                  !.at = IF @ = -1 THEN wr.i ELSE @]
         ELSE wr' = [wr EXCEPT !.i = @ + 1] /\ UNCHANGED <<bitMap, numEntries>>
    /\ UNCHANGED <<version, keyArray, fingerPrint, sorted, rd>>

(* One round of the loop of split: an entry at or above the median goes to *)
(* the new node and its slot is freed.                                     *)
SplitStep ==
    /\ wr.pc = "split" /\ wr.i < MaxEntries
    /\ IF keyArray[wr.i].key >= wr.med
         THEN /\ RemoveFromIndex(wr.i)
              /\ wr' = [wr EXCEPT !.i = @ + 1, !.moved = @ \cup {keyArray[wr.i]},
                                  !.at = IF @ = -1 THEN wr.i ELSE @]
         ELSE wr' = [wr EXCEPT !.i = @ + 1] /\ UNCHANGED <<bitMap, numEntries>>
    /\ UNCHANGED <<version, keyArray, fingerPrint, sorted, rd>>

(* The new key goes below into the first slot freed, or to the new node.   *)
SplitPlace ==
    /\ wr.pc = "split" /\ wr.i = MaxEntries
    /\ wr' = IF wr.todo[1].key < wr.med
               THEN [wr EXCEPT !.pc = "place"]
               ELSE [wr EXCEPT !.pc = "unlock", !.todo = <<>>,
                               !.moved = @ \cup {wr.todo[1]}]
    /\ UNCHANGED <<version, entries, sorted, rd>>

(* Variant: the slot keeps the fingerprint of an older key. *)
StorePairOnly ==
    /\ wr.pc = "place"
    /\ keyArray' = [keyArray EXCEPT ![wr.at] = Head(wr.todo)]
    /\ wr' = [wr EXCEPT !.pc = "bit"]
    /\ UNCHANGED <<version, fingerPrint, bitMap, numEntries, sorted, rd>>

(* insertAtIndex: the pair and its fingerprint, then the bit and the count. *)
StorePair ==
    /\ wr.pc = "place"
    /\ keyArray' = [keyArray EXCEPT ![wr.at] = Head(wr.todo)]
    /\ fingerPrint' = [fingerPrint EXCEPT ![wr.at] = Hash[Head(wr.todo).key]]
    /\ wr' = [wr EXCEPT !.pc = "bit"]
    /\ UNCHANGED <<version, bitMap, numEntries, sorted, rd>>

SetBit ==
    /\ wr.pc = "bit"
    /\ bitMap' = bitMap \cup {wr.at} /\ numEntries' = numEntries + 1
    /\ wr' = PlaceNext(wr, Tail(wr.todo), {j \in Free : j > wr.at})
    /\ UNCHANGED <<version, keyArray, fingerPrint, sorted, rd>>

WriteUnlock ==
    /\ wr.pc = "unlock"
    /\ version' = version + 1
    /\ wr' = NoWriter
    /\ UNCHANGED <<entries, sorted, rd>>
-----------------------------------------------------------------------------
Move(r, c) == rd' = [rd EXCEPT ![r] = c]

(* readLock by a scan from key k, or by a lookup of k.                     *)
ReadLock(r, op, k) ==
    /\ rd[r].pc = "idle" /\ Even(version) /\ version <= ReadVersion
    /\ Move(r, [NoCall EXCEPT !.pc = IF op = "scan" THEN "test" ELSE "mask",
                              !.op = op, !.key = k, !.ver = version])
    /\ UNCHANGED <<version, entries, sorted, wr>>

(* scan asks, without the mutex, whether the permuter is old.              *)
TestPermuter(r) ==
    /\ rd[r].pc = "test"
    /\ Move(r, [rd[r] EXCEPT !.pc =
                  IF rd[r].ver > lastScanVersion THEN "plock" ELSE "start"])
    /\ UNCHANGED <<version, entries, sorted, wr>>

(* generatePermuter: under the mutex the reader asks again, now whether    *)
(* another reader of its version has done the work.                        *)
LockPermuter(r) ==
    /\ rd[r].pc = "plock" /\ pLock = NoReader
    /\ IF rd[r].ver = lastScanVersion
         THEN Move(r, [rd[r] EXCEPT !.pc = "start"]) /\ UNCHANGED pLock
         ELSE Move(r, [rd[r] EXCEPT !.pc = "gather"]) /\ pLock' = r
    /\ UNCHANGED <<version, entries, lastScanVersion, permuter, wr>>

Gather(r) ==
    /\ rd[r].pc = "gather"
    /\ LET i == rd[r].i
           seen == IF i \in bitMap THEN rd[r].copy \cup {<<keyArray[i].key, i>>}
                                   ELSE rd[r].copy
       IN  Move(r, IF i + 1 < MaxEntries
                     THEN [rd[r] EXCEPT !.i = i + 1, !.copy = seen]
                     ELSE [rd[r] EXCEPT !.pc = "store", !.i = 0, !.copy = seen])
    /\ UNCHANGED <<version, entries, sorted, wr>>

Before(x, y) == x[1] < y[1] \/ (x[1] = y[1] /\ x[2] < y[2])

(* std::sort of pairs <<key, slot>>: the one at index n, counted from 0.   *)
Nth(S, n) == CHOOSE x \in S : Cardinality({y \in S : Before(y, x)}) = n

StorePermuter(r) ==
    /\ rd[r].pc = "store" /\ rd[r].i < Cardinality(rd[r].copy)
    /\ permuter' = [permuter EXCEPT ![rd[r].i] = Nth(rd[r].copy, rd[r].i)[2]]
    /\ Move(r, [rd[r] EXCEPT !.i = @ + 1])
    /\ UNCHANGED <<version, entries, lastScanVersion, pLock, wr>>

(* Variant: the version stored is the one current at the end. *)
PublishCurrent(r) ==
    /\ rd[r].pc = "store" /\ rd[r].i = Cardinality(rd[r].copy)
    /\ lastScanVersion' = version
    /\ pLock' = NoReader
    /\ Move(r, [rd[r] EXCEPT !.pc = "start", !.copy = {}])
    /\ UNCHANGED <<version, entries, permuter, wr>>

(* lastScanVersion = writeVersion, and the mutex is released.  A reader    *)
(* that was delayed takes lastScanVersion back to an older version.        *)
Publish(r) ==
    /\ rd[r].pc = "store" /\ rd[r].i = Cardinality(rd[r].copy)
    /\ lastScanVersion' = rd[r].ver
    /\ pLock' = NoReader
    /\ Move(r, [rd[r] EXCEPT !.pc = "start", !.copy = {}])
    /\ UNCHANGED <<version, entries, permuter, wr>>

(* permuterLowerBound: a binary search that stops early on the key itself. *)
LowerBound(k) ==
    LET find[lo \in 0 .. MaxEntries, hi \in 0 .. MaxEntries] ==
          LET mid == (hi - lo) \div 2 + lo
              at == keyArray[permuter[mid]].key
          IN  IF k < at THEN IF lo < mid THEN find[lo, mid] ELSE lo
              ELSE IF k > at THEN IF mid + 1 < hi THEN find[mid + 1, hi] ELSE mid + 1
              ELSE mid
    IN  find[0, numEntries]

StartScan(r) ==
    /\ rd[r].pc = "start"
    /\ Move(r, [rd[r] EXCEPT !.pc = "emit",
                  !.i = IF rd[r].key > Min THEN LowerBound(rd[r].key) ELSE 0])
    /\ UNCHANGED <<version, entries, sorted, wr>>

Emits(r) == rd[r].i < numEntries /\ Len(rd[r].out) < ScanRange

Emit(r) ==
    /\ rd[r].pc = "emit" /\ Emits(r)
    /\ Move(r, [rd[r] EXCEPT !.i = @ + 1,
                  !.out = Append(@, keyArray[permuter[rd[r].i]].val)])
    /\ UNCHANGED <<version, entries, sorted, wr>>

(* getKeyIndex in lookup: the fingerprints that match, masked by the       *)
(* bitmap, then the keys of those slots one at a time, then the value.     *)
Mask(r) ==
    /\ rd[r].pc = "mask"
    /\ Move(r, [rd[r] EXCEPT !.pc = "probe",
                  !.mask = {i \in bitMap : fingerPrint[i] = Hash[rd[r].key]}])
    /\ UNCHANGED <<version, entries, sorted, wr>>

Probe(r) ==
    /\ rd[r].pc = "probe" /\ rd[r].mask # {}
    /\ \E i \in rd[r].mask :
          Move(r, IF keyArray[i].key = rd[r].key
                    THEN [rd[r] EXCEPT !.pc = "value", !.i = i, !.mask = {}]
                    ELSE [rd[r] EXCEPT !.mask = @ \ {i}])
    /\ UNCHANGED <<version, entries, sorted, wr>>

Value(r) ==
    /\ rd[r].pc = "value"
    /\ Move(r, [rd[r] EXCEPT !.pc = "probe", !.i = 0, !.out = <<keyArray[rd[r].i].val>>])
    /\ UNCHANGED <<version, entries, sorted, wr>>

(* The scan has its values, or the lookup its value or no slot left.       *)
Finished(r) == \/ rd[r].pc = "emit" /\ ~Emits(r)
               \/ rd[r].pc = "probe" /\ rd[r].mask = {}

(* readUnlock; a call whose version is gone starts again.                  *)
ReadUnlock(r) ==
    /\ Finished(r)
    /\ Move(r, IF version = rd[r].ver THEN [rd[r] EXCEPT !.pc = "valid"] ELSE NoCall)
    /\ UNCHANGED <<version, entries, sorted, wr>>

Return(r) ==
    /\ rd[r].pc = "valid"
    /\ Move(r, NoCall)
    /\ UNCHANGED <<version, entries, sorted, wr>>
-----------------------------------------------------------------------------
Write ==
    \/ \E p \in Pairs : Insert(p) \/ InsertSplits(p) \/ Update(p)
    \/ \E k \in Keys : Remove(k)
    \/ \E s \in Batches : Absorb(s)
    \/ SplitStep \/ SplitPlace \/ StorePair \/ SetBit \/ WriteUnlock

Read(r) ==
    \/ \E k \in ReadKeys : ReadLock(r, "scan", k) \/ ReadLock(r, "lookup", k)
    \/ TestPermuter(r) \/ LockPermuter(r) \/ Gather(r) \/ StorePermuter(r)
    \/ Publish(r) \/ StartScan(r) \/ Emit(r)
    \/ Mask(r) \/ Probe(r) \/ Value(r)
    \/ ReadUnlock(r) \/ Return(r)

Next == Write \/ \E r \in Readers : Read(r)

Spec == Init /\ [][Next]_vars
-----------------------------------------------------------------------------
(* The entries with a key at or above k, in the order of their keys.       *)
SortedFrom(k) ==
    LET S == {p \in Live : p.key >= k} IN
    [n \in 1 .. Cardinality(S) |->
       (CHOOSE p \in S : Cardinality({q \in S : q.key < p.key}) = n - 1).val]

(* What the scan r has gathered is the node from its start key on.         *)
ScanIsExact(r) ==
    LET s == SortedFrom(rd[r].key) IN
    rd[r].out = IF Len(s) > ScanRange THEN SubSeq(s, 1, ScanRange) ELSE s

(* What the lookup r has found is the value of its key, if it has one.     *)
LookupIsExact(r) ==
    {rd[r].out[n] : n \in DOMAIN rd[r].out} = {p.val : p \in {q \in Live : q.key = rd[r].key}}

(* A scan of a node that readUnlock validates returned the values of the   *)
(* node from the start key on, in key order, although it reads a permuter  *)
(* that other readers, some of them long out of date, may have rewritten   *)
(* meanwhile; a validated lookup returned the value of its key.            *)
ValidatedReadsAreExact ==
    [][\A r \in Readers : rd[r].pc # "valid" /\ rd'[r].pc = "valid" =>
          IF rd[r].op = "scan" THEN ScanIsExact(r) ELSE LookupIsExact(r)]_vars

(* While no writer is inside, numEntries counts the bits of the bitmap, no *)
(* two slots hold the same key, and every slot has its key's fingerprint.  *)
SlotsAreAMap ==
    Even(version) =>
        /\ numEntries = Cardinality(bitMap)
        /\ \A i, j \in bitMap : keyArray[i].key = keyArray[j].key => i = j
        /\ \A i \in bitMap : fingerPrint[i] = Hash[keyArray[i].key]

(* Every operation accounts for the entries it should leave.  The slot     *)
(* arithmetic of insert and of a split loses nothing and copies nothing    *)
(* twice: the two nodes of a split hold the entries below the median and   *)
(* from it on.  A merge moves entries until the node is full: only then    *)
(* does it leave the others behind in the node it deletes.                 *)
WritesTakeEffect ==
    [][wr.pc = "unlock" /\ wr'.pc = "idle" =>
          /\ Live \cup wr.moved \cup wr.left = wr.want
          /\ wr.left # {} => Free = {}
          /\ \A p \in wr.left : ~Has(p.key)
          /\ \A p \in Live, q \in wr.moved : p.key < wr.med /\ wr.med <= q.key]_vars
=============================================================================
