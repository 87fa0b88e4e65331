--------------------------- MODULE ListNodeProofs ---------------------------
(***************************************************************************)
(* Proofs about ListNode, for any number of readers, keys, values and      *)
(* slots: what the writer does to the slots of a node, and what a lookup   *)
(* sees of it.                                                             *)
(***************************************************************************)
EXTENDS ListNode, WellFoundedInduction, TLAPS

(* A step may take half a minute: the provers' own limit is shorter.       *)
USE SMTT(30), ZenonT(30)

-----------------------------------------------------------------------------
(* The slots, at every step of a writer.                                   *)
SlotInv ==
    /\ keyArray \in [Slots -> Pairs]
    /\ fingerPrint = [i \in Slots |-> Hash[keyArray[i].key]]
    /\ bitMap \subseteq Slots
    /\ \A i, j \in bitMap : keyArray[i].key = keyArray[j].key => i = j

CountInv == numEntries = Cardinality(bitMap)

(* The types, and when there is a writer.                                  *)
Writer == [pc : {"idle", "place", "bit", "split", "unlock"}, todo : Seq(Pairs),
           at : Slots \cup {-1}, i : 0 .. MaxEntries, med : Keys,
           moved : SUBSET Pairs, left : SUBSET Pairs, want : SUBSET Pairs]

WriterType ==
    /\ version \in Nat /\ wr \in Writer
    /\ Even(version) <=> wr.pc = "idle"
    /\ wr.pc = "idle" => wr.moved = {}

(* A split separates the entries at the median.                            *)
Halves == /\ \A q \in wr.moved : wr.med <= q.key
          /\ wr.moved # {} => \A p \in Live : p.key < wr.med

ToPlace == {wr.todo[n] : n \in DOMAIN wr.todo}

(* Entries to place: the next one goes to the lowest free slot.            *)
Placing ==
    /\ wr.at \in Free /\ \A j \in Free : wr.at <= j
    /\ wr.todo # <<>> /\ wr.left = {}
    /\ \A i, j \in DOMAIN wr.todo : wr.todo[i].key = wr.todo[j].key => i = j
    /\ \A p \in ToPlace : ~Has(p.key) /\ (wr.moved # {} => p.key < wr.med)
    /\ Live \cup wr.moved \cup ToPlace = wr.want /\ Halves

(* A split in progress: the slots below i have been looked at.             *)
Dividing ==
    /\ Len(wr.todo) = 1 /\ ~Has(wr.todo[1].key) /\ wr.left = {}
    /\ \A j \in Slots : j >= wr.i => j \in bitMap
    /\ \A j \in Slots : j < wr.i => (j \in bitMap <=> keyArray[j].key < wr.med)
    /\ \A q \in wr.moved : wr.med <= q.key
    /\ wr.at = -1 => \A j \in Slots : j < wr.i => j \in bitMap
    /\ wr.at # -1 => wr.at \in Free /\ \A j \in Free : wr.at <= j
    /\ \E m \in Slots : keyArray[m].key = wr.med
    /\ Live \cup wr.moved \cup {wr.todo[1]} = wr.want

(* The work is done: what is left behind found no slot.                    *)
Accounted ==
    /\ Live \cup wr.moved \cup wr.left = wr.want /\ Halves
    /\ wr.left # {} => Free = {}
    /\ \A p \in wr.left : ~Has(p.key)

WriterInv ==
    /\ wr.pc = "unlock" => Accounted
    /\ wr.pc \in {"place", "bit"} => Placing
    /\ wr.pc = "bit" => keyArray[wr.at] = wr.todo[1]
    /\ wr.pc = "split" => Dividing

NodeInv == SlotInv /\ WriterType /\ WriterInv

(* What a lookup c has seen, if its version is still that of the node.     *)
LookupInv(c) ==
    /\ c.pc = "mask" => c.out = <<>>
    /\ c.pc = "probe" =>
          \/ c.out = <<>> /\ KeySlots(c.key) \subseteq c.mask /\ c.mask \subseteq bitMap
          \/ c.mask = {} /\ \E i \in KeySlots(c.key) : c.out = <<keyArray[i].val>>
    /\ c.pc = "value" => c.i \in KeySlots(c.key) /\ c.mask = {} /\ c.out = <<>>

IsCall(c) == c = [pc |-> c.pc, op |-> c.op, key |-> c.key, ver |-> c.ver, i |-> c.i,
                  mask |-> c.mask, copy |-> c.copy, out |-> c.out]

CallInv(c) ==
    /\ IsCall(c) /\ c.ver \in Nat /\ Even(c.ver) /\ c.ver <= version
    /\ c.pc \in {"mask", "probe", "value"} => c.op = "lookup"
    /\ c.op = "lookup" => c.pc \in {"mask", "probe", "value", "valid"}
    /\ c.op = "lookup" /\ c.ver = version => LookupInv(c)

ReaderInv == DOMAIN rd = Readers /\ \A r \in Readers : CallInv(rd[r])

-----------------------------------------------------------------------------
(***************************************************************************)
(* Numbers, slots and keys.                                                *)
(***************************************************************************)
(* Induction is used in the form that a set of naturals has a least one.   *)
LEMMA Least ==
  ASSUME NEW T, T \subseteq Nat, T # {}
  PROVE  \E x \in T : \A y \in T : x <= y
  <1> DEFINE R == {ss \in Nat \X Nat : ss[1] < ss[2]}
  <1>1. IsWellFoundedOn(R, Nat)
    BY NatLessThanWellFounded DEF OpToRel
  <1>2. PICK x \in T : \A y \in T : ~(<<y, x>> \in R)
    <2> HIDE DEF R
    <2>1. QED
      BY <1>1, WFMin, Zenon
  <1>3. ASSUME NEW y \in T PROVE x <= y
    <2>1. x \in Nat /\ y \in Nat /\ ~(<<y, x>> \in R)
      BY <1>2
    <2>2. QED
      BY <2>1
  <1>4. QED
    BY <1>3

(* The lowest slot of a set is in it.                                      *)
LEMMA LowestIn ==
  ASSUME NEW S, S \subseteq Nat, S # {}
  PROVE  Lowest(S) \in S /\ \A j \in S : Lowest(S) <= j
  <1>1. \E i \in S : \A j \in S : i <= j
    BY Least, Zenon
  <1>2. QED
    BY <1>1, Zenon DEF Lowest

(* Slots and keys are natural numbers, and Min is a key.                   *)
LEMMA Constants ==
  /\ Slots \subseteq Nat /\ -1 \notin Slots /\ MaxEntries \in Nat
  /\ \A j : j \in Slots <=> j \in Nat /\ j < MaxEntries
  /\ Min \in Keys /\ Keys \subseteq Nat /\ \A p \in Pairs : p.key \in Keys /\ p.key \in Nat
  <1>1. \E k \in Keys : \A j \in Keys : k <= j
    BY KeyAssumption, Least
  <1>2. Min \in Keys
    BY <1>1, Zenon DEF Min
  <1>3. \A p \in Pairs : p.key \in Keys
    BY DEF Keys
  <1>4. QED
    BY <1>2, <1>3, SizeAssumption, KeyAssumption DEF Slots

(* A version is odd after an even one and even after an odd one.           *)
LEMMA Parity == \A v \in Nat : v + 1 \in Nat /\ (Even(v + 1) <=> ~Even(v))
  BY DEF Even

(* The fingerprints only filter: getKeyIndex finds the slot of the key.    *)
LEMMA KeySlotsFound ==
  ASSUME SlotInv, NEW k
  PROVE  /\ KeySlots(k) = {i \in bitMap : keyArray[i].key = k}
         /\ KeySlots(k) \subseteq Slots
         /\ Has(k) <=> KeySlots(k) # {}
  <1>1. \A i \in bitMap : i \in Slots /\ fingerPrint[i] = Hash[keyArray[i].key]
    BY DEF SlotInv
  <1>2. KeySlots(k) = {i \in bitMap : keyArray[i].key = k}
    BY <1>1 DEF KeySlots
  <1>3. QED
    BY <1>1, <1>2 DEF Has, Live

(* The entries in use are those of the slots whose bit is set.             *)
LEMMA LivePairs ==
  ASSUME SlotInv
  PROVE  /\ Live \subseteq Pairs
         /\ \A i \in bitMap : i \in Slots /\ keyArray[i] \in Pairs /\ keyArray[i] \in Live
         /\ \A p : p \in Live <=> \E i \in bitMap : keyArray[i] = p
  BY DEF SlotInv, Live

(* A call that takes the lock becomes the writer.                          *)
LEMMA BeginWriter ==
  ASSUME NodeInv, NEW pc \in {"place", "unlock"}, NEW todo \in Seq(Pairs), NEW at \in Slots,
         NEW want \in SUBSET Pairs, Begin(pc, todo, at, want)
  PROVE  /\ WriterType' /\ wr.pc = "idle" /\ wr'.pc = pc /\ wr'.todo = todo /\ wr'.at = at
         /\ wr'.want = want /\ wr'.moved = {} /\ wr'.left = {}
  <1>1. version \in Nat /\ Even(version) /\ wr.pc = "idle" /\ version' = version + 1
    BY DEF NodeInv, WriterType, Begin
  <1>2. wr' = [pc |-> pc, todo |-> todo, at |-> at, i |-> 0, med |-> Min,
               moved |-> {}, left |-> {}, want |-> want]
    BY Zenon DEF Begin, NoWriter
  <1>3. wr' \in Writer
    BY <1>2, Constants DEF Writer
  <1>4. version' \in Nat /\ ~Even(version')
    BY <1>1, Parity
  <1>5. QED
    BY <1>1, <1>2, <1>3, <1>4 DEF WriterType

-----------------------------------------------------------------------------
(***************************************************************************)
(* The steps of the writer.                                                *)
(***************************************************************************)
LEMMA InsertStep ==
  ASSUME NodeInv, NEW p \in Pairs, Insert(p)
  PROVE  NodeInv'
  <1>0. SlotInv /\ UNCHANGED <<keyArray, fingerPrint, bitMap>>
    BY DEF NodeInv, Insert, entries
  <1>1. SlotInv' /\ Live' = Live /\ Live \subseteq Pairs /\ Free' = Free
    BY <1>0, LivePairs DEF SlotInv, Live, Free
  <1>2. 0 \in Slots /\ <<>> \in Seq(Pairs) /\ <<p>> \in Seq(Pairs) /\ With(p) \in SUBSET Pairs
    BY <1>1, SizeAssumption DEF Slots, With
  <1>3. CASE KeySlots(p.key) # {} /\ Begin("unlock", <<>>, 0, With(p))
    <2>1. With(p) = Live
      BY <1>0, <1>3, KeySlotsFound DEF With
    <2>2. /\ WriterType' /\ wr'.pc = "unlock" /\ wr'.moved = {} /\ wr'.want = Live
          /\ wr'.left = {}
      BY <1>2, <1>3, <2>1, BeginWriter, Zenon
    <2>3. QED
      BY <1>1, <2>2 DEF NodeInv, WriterInv, Accounted, Halves
  <1>4. CASE KeySlots(p.key) = {} /\ Free # {} /\ Begin("place", <<p>>, Lowest(Free), With(p))
    <2>1. With(p) = Live \cup {p} /\ ~Has(p.key)
      BY <1>0, <1>4, KeySlotsFound DEF With
    <2>2. Lowest(Free) \in Free /\ Lowest(Free) \in Slots /\ \A j \in Free : Lowest(Free) <= j
      BY <1>4, LowestIn, Constants DEF Free
    <2>3. /\ WriterType' /\ wr'.pc = "place" /\ wr'.moved = {} /\ wr'.want = Live \cup {p}
          /\ wr'.todo = <<p>> /\ wr'.at = Lowest(Free) /\ wr'.left = {}
      BY <1>2, <1>4, <2>1, <2>2, BeginWriter, Zenon
    <2>4. /\ ToPlace' = {p} /\ wr'.todo # <<>>
          /\ \A i, j \in DOMAIN wr'.todo : i = j
      BY <2>3 DEF ToPlace
    <2>5. Has(p.key)' <=> Has(p.key)
      BY <1>1 DEF Has
    <2>6. Placing'
      BY <1>1, <2>1, <2>2, <2>3, <2>4, <2>5 DEF Placing, Halves
    <2>7. QED
      BY <1>1, <2>3, <2>6 DEF NodeInv, WriterInv
  <1>5. QED
    BY <1>3, <1>4 DEF Insert

(* The value is replaced in the slot of the key.                           *)
LEMMA UpdateStep ==
  ASSUME NodeInv, NEW p \in Pairs, Update(p)
  PROVE  NodeInv'
  <1> DEFINE new == IF Has(p.key) THEN {q \in Live : q.key # p.key} \cup {p} ELSE Live
  <1>0. SlotInv /\ UNCHANGED <<fingerPrint, bitMap>>
        /\ keyArray' = [i \in Slots |-> IF i \in KeySlots(p.key) THEN p ELSE keyArray[i]]
    BY DEF NodeInv, Update
  <1>1. \A i \in Slots : /\ keyArray'[i] \in Pairs /\ keyArray'[i].key = keyArray[i].key
                         /\ i \in KeySlots(p.key) => keyArray'[i] = p
                         /\ i \notin KeySlots(p.key) => keyArray'[i] = keyArray[i]
    BY <1>0, KeySlotsFound DEF SlotInv
  <1>2. SlotInv'
    <2>1. keyArray' \in [Slots -> Pairs]
      BY <1>0, <1>1 DEF SlotInv
    <2>2. fingerPrint' = [i \in Slots |-> Hash[keyArray'[i].key]]
      BY <1>0, <1>1 DEF SlotInv
    <2>3. QED
      BY <1>0, <1>1, <2>1, <2>2 DEF SlotInv
  <1>3. Live' = new
    <2>1. \A i \in bitMap : i \in Slots /\ (i \in KeySlots(p.key) <=> keyArray[i].key = p.key)
      BY <1>0, KeySlotsFound, LivePairs
    <2>2. ASSUME NEW q PROVE q \in Live' <=> q \in new
      <3>1. q \in Live' <=> \E i \in bitMap : keyArray'[i] = q
        BY <1>0, <1>2 DEF Live
      <3>2. q \in Live <=> \E i \in bitMap : keyArray[i] = q
        BY DEF Live
      <3>3. Has(p.key) <=> \E i \in bitMap : keyArray[i].key = p.key
        BY DEF Has, Live
      <3>4. QED
        BY <1>1, <2>1, <3>1, <3>2, <3>3
    <2>3. QED
      BY <2>2
  <1>4. 0 \in Slots /\ <<>> \in Seq(Pairs) /\ new \in SUBSET Pairs
    BY <1>0, LivePairs, SizeAssumption DEF Slots
  <1>5. Begin("unlock", <<>>, 0, new)
    BY DEF Update
  <1> HIDE DEF new
  <1>6. WriterType' /\ wr'.pc = "unlock" /\ wr'.moved = {} /\ wr'.left = {} /\ wr'.want = new
    BY <1>4, <1>5, BeginWriter, Zenon
  <1>7. QED
    BY <1>2, <1>3, <1>6 DEF NodeInv, WriterInv, Accounted, Halves

(* The bit of the slot is cleared.                                         *)
LEMMA RemoveStep ==
  ASSUME NodeInv, NEW k \in Keys, Remove(k)
  PROVE  NodeInv'
  <1> DEFINE new == {q \in Live : q.key # k}
  <1>0. SlotInv /\ UNCHANGED <<keyArray, fingerPrint>>
    BY DEF NodeInv, Remove
  <1>1. bitMap' = {i \in bitMap : keyArray[i].key # k}
    <2>1. CASE KeySlots(k) = {}
      BY <1>0, <2>1, KeySlotsFound DEF Remove
    <2>2. CASE KeySlots(k) # {}
      <3>1. Lowest(KeySlots(k)) \in KeySlots(k)
        BY <1>0, <2>2, LowestIn, KeySlotsFound, Constants
      <3>2. bitMap' = bitMap \ {Lowest(KeySlots(k))}
        BY <2>2 DEF Remove, RemoveFromIndex
      <3>3. QED
        BY <1>0, <3>1, <3>2, KeySlotsFound DEF SlotInv
    <2>3. QED
      BY <2>1, <2>2
  <1>2. SlotInv' /\ Live' = new
    <2>1. SlotInv'
      BY <1>0, <1>1 DEF SlotInv
    <2>2. Live' = {keyArray[i] : i \in bitMap'}
      BY <1>0 DEF Live
    <2>3. QED
      BY <1>1, <2>1, <2>2, Zenon DEF Live
  <1>3. 0 \in Slots /\ <<>> \in Seq(Pairs) /\ new \in SUBSET Pairs
    BY <1>0, LivePairs, SizeAssumption DEF Slots
  <1>4. Begin("unlock", <<>>, 0, new)
    BY DEF Remove
  <1> HIDE DEF new
  <1>5. WriterType' /\ wr'.pc = "unlock" /\ wr'.moved = {} /\ wr'.left = {} /\ wr'.want = new
    BY <1>3, <1>4, BeginWriter, Zenon
  <1>6. QED
    BY <1>2, <1>5 DEF NodeInv, WriterInv, Accounted, Halves

(* What a round of the loop of split does to the fields of the writer.     *)
LEMMA RoundFields ==
  ASSUME wr \in Writer, NEW i \in 0 .. MaxEntries, NEW at \in Slots \cup {-1},
         NEW moved \in SUBSET Pairs
  PROVE  /\ wr' = [wr EXCEPT !.i = i] =>
              /\ wr' \in Writer /\ wr'.pc = wr.pc /\ wr'.todo = wr.todo /\ wr'.med = wr.med
              /\ wr'.want = wr.want /\ wr'.i = i /\ wr'.moved = wr.moved /\ wr'.at = wr.at
              /\ wr'.left = wr.left
         /\ wr' = [wr EXCEPT !.i = i, !.moved = moved, !.at = at] =>
              /\ wr' \in Writer /\ wr'.pc = wr.pc /\ wr'.todo = wr.todo /\ wr'.med = wr.med
              /\ wr'.want = wr.want /\ wr'.i = i /\ wr'.moved = moved /\ wr'.at = at
              /\ wr'.left = wr.left
  BY ZenonT(60) DEF Writer

(* One round of the loop of split.                                         *)
LEMMA DivideStep ==
  ASSUME NodeInv, SplitStep
  PROVE  NodeInv'
  <1> DEFINE i == wr.i
             goes == keyArray[i].key >= wr.med
  <1>0. SlotInv /\ Dividing /\ UNCHANGED <<version, keyArray, fingerPrint>> /\ wr.pc = "split"
    BY DEF NodeInv, WriterInv, SplitStep
  <1>1. wr \in Writer /\ i \in Nat /\ i \in Slots /\ i \in bitMap /\ i + 1 \in 0 .. MaxEntries
        /\ \A j \in Slots : j \in Nat /\ (j < i + 1 <=> j < i \/ j = i)
    BY <1>0, Constants DEF NodeInv, WriterType, Writer, SplitStep, Dividing
  <1>2. keyArray[i] \in Pairs /\ keyArray[i].key \in Nat /\ wr.med \in Nat
    BY <1>0, <1>1, Constants, Zenon DEF SlotInv, Writer
  <1>3. CASE goes
    <2>1. /\ bitMap' = bitMap \ {i}
          /\ wr' = [wr EXCEPT !.i = i + 1, !.moved = wr.moved \cup {keyArray[i]},
                              !.at = IF wr.at = -1 THEN i ELSE wr.at]
      BY <1>3 DEF SplitStep, RemoveFromIndex
    <2>2. /\ wr' \in Writer /\ wr'.pc = "split" /\ wr'.todo = wr.todo /\ wr'.med = wr.med
          /\ wr'.want = wr.want /\ wr'.i = i + 1 /\ wr'.moved = wr.moved \cup {keyArray[i]}
          /\ wr'.at = (IF wr.at = -1 THEN i ELSE wr.at) /\ wr'.left = wr.left
      <3> DEFINE moved == wr.moved \cup {keyArray[i]}
                 at == IF wr.at = -1 THEN i ELSE wr.at
      <3>1. moved \in SUBSET Pairs /\ at \in Slots \cup {-1}
        BY <1>1, <1>2 DEF Writer
      <3>2. wr' = [wr EXCEPT !.i = i + 1, !.moved = moved, !.at = at]
        BY <2>1
      <3> HIDE DEF moved, at
      <3>3. /\ wr' \in Writer /\ wr'.pc = wr.pc /\ wr'.todo = wr.todo /\ wr'.med = wr.med
            /\ wr'.want = wr.want /\ wr'.i = i + 1 /\ wr'.moved = moved /\ wr'.at = at
            /\ wr'.left = wr.left
        BY <1>1, <3>1, <3>2, RoundFields, Zenon
      <3>4. QED
        BY <1>0, <3>3 DEF moved, at
    <2>3. SlotInv'
      BY <1>0, <2>1 DEF SlotInv
    <2>4. Live' \cup {keyArray[i]} = Live /\ Live' \subseteq Live
      BY <1>0, <1>1, <2>1 DEF Live
    <2>5. Dividing'
      <3>1. ~Has(wr.todo[1].key)'
        BY <1>0, <2>2, <2>4 DEF Dividing, Has
      <3>2. /\ \A j \in Slots : j >= i + 1 => j \in bitMap'
            /\ \A j \in Slots : j < i + 1 => (j \in bitMap' <=> keyArray[j].key < wr.med)
        BY <1>0, <1>1, <1>2, <1>3, <2>1 DEF Dividing
      <3>3. \A q \in wr'.moved : wr.med <= q.key
        BY <1>0, <1>2, <1>3, <2>2 DEF Dividing
      <3>4. wr'.at # -1 /\ wr'.at \in Free' /\ \A j \in Free' : wr'.at <= j
        <4>1. i # -1 /\ Free' = Free \cup {i}
          BY <1>1, <2>1, Constants DEF Free
        <4>2. CASE wr.at = -1
          <5>1. wr'.at = i /\ Free' = {i}
            BY <1>0, <1>1, <2>2, <4>1, <4>2, Constants DEF Dividing, Free
          <5>2. QED
            BY <1>1, <4>1, <5>1
        <4>3. CASE wr.at # -1
          <5>1. wr'.at = wr.at /\ wr.at \in Free /\ wr.at \in Slots /\ wr.at < i
                /\ \A j \in Free : wr.at <= j
            BY <1>0, <1>1, <2>2, <4>3, Constants DEF Dividing, Free
          <5>2. QED
            BY <1>1, <4>1, <4>3, <5>1, Constants
        <4>4. QED
          BY <4>2, <4>3
      <3>5. Live' \cup wr'.moved \cup {wr.todo[1]} = wr.want
        BY <1>0, <2>2, <2>4 DEF Dividing
      <3>6. QED
        BY <1>0, <2>2, <3>1, <3>2, <3>3, <3>4, <3>5, Zenon DEF Dividing
    <2>6. WriterType'
      BY <1>0, <2>2 DEF NodeInv, WriterType
    <2>7. QED
      BY <2>2, <2>3, <2>5, <2>6 DEF NodeInv, WriterInv
  <1>4. CASE ~goes
    <2>1. bitMap' = bitMap /\ wr' = [wr EXCEPT !.i = i + 1]
      BY <1>4 DEF SplitStep
    <2>2. /\ wr' \in Writer /\ wr'.pc = "split" /\ wr'.todo = wr.todo /\ wr'.med = wr.med
          /\ wr'.want = wr.want /\ wr'.i = i + 1 /\ wr'.moved = wr.moved /\ wr'.at = wr.at
          /\ wr'.left = wr.left
      BY <1>0, <1>1, <2>1, RoundFields, Zenon
    <2>3. SlotInv' /\ Live' = Live /\ Free' = Free
      BY <1>0, <2>1 DEF SlotInv, Live, Free
    <2>4. Dividing'
      <3>1. ~Has(wr.todo[1].key)'
        BY <1>0, <2>2, <2>3 DEF Dividing, Has
      <3>2. /\ \A j \in Slots : j >= i + 1 => j \in bitMap'
            /\ \A j \in Slots : j < i + 1 => (j \in bitMap' <=> keyArray[j].key < wr.med)
            /\ wr.at = -1 => \A j \in Slots : j < i + 1 => j \in bitMap'
        BY <1>0, <1>1, <1>2, <1>4, <2>1 DEF Dividing
      <3>3. QED
        BY <1>0, <2>2, <2>3, <3>1, <3>2, Zenon DEF Dividing
    <2>5. WriterType'
      BY <1>0, <2>2 DEF NodeInv, WriterType
    <2>6. QED
      BY <2>2, <2>3, <2>4, <2>5 DEF NodeInv, WriterInv
  <1>5. QED
    BY <1>3, <1>4

(* After the loop the node holds what is below the median, and a slot has  *)
(* been freed: that of the median at the latest.                           *)
LEMMA PlaceStep ==
  ASSUME NodeInv, SplitPlace
  PROVE  NodeInv'
  <1>0. SlotInv /\ Dividing /\ UNCHANGED <<version, keyArray, fingerPrint, bitMap>>
        /\ wr.pc = "split" /\ wr.i = MaxEntries
    BY DEF NodeInv, WriterInv, SplitPlace, entries
  <1>1. SlotInv' /\ Live' = Live /\ Free' = Free
    BY <1>0 DEF SlotInv, Live, Free
  <1>2. wr \in Writer /\ wr.todo \in Seq(Pairs) /\ Len(wr.todo) = 1 /\ wr.med \in Nat
    BY <1>0, Constants, Zenon DEF NodeInv, WriterType, Writer, Dividing
  <1>3. wr.todo[1] \in Pairs /\ wr.todo[1].key \in Nat /\ wr.todo = <<wr.todo[1]>>
    BY <1>2, Constants
  <1>4. \A p \in Live : p.key < wr.med
    BY <1>0, Constants, LivePairs DEF Dividing
  <1>5. wr.at \in Free /\ \A j \in Free : wr.at <= j
    <2>1. PICK m \in Slots : keyArray[m].key = wr.med
      BY <1>0, Zenon DEF Dividing
    <2>2. m \notin bitMap
      BY <1>0, <1>2, <2>1, Constants DEF Dividing
    <2>3. wr.at # -1
      BY <1>0, <2>2, Constants DEF Dividing
    <2>4. QED
      BY <1>0, <2>3 DEF Dividing
  <1>6. CASE wr.todo[1].key < wr.med
    <2>1. wr' = [wr EXCEPT !.pc = "place"]
      BY <1>6 DEF SplitPlace
    <2>2. /\ wr' \in Writer /\ wr'.pc = "place" /\ wr'.todo = wr.todo /\ wr'.med = wr.med
          /\ wr'.want = wr.want /\ wr'.moved = wr.moved /\ wr'.at = wr.at /\ wr'.left = wr.left
      BY <1>2, <2>1 DEF Writer
    <2>3. ToPlace' = {wr.todo[1]}
      BY <1>2, <1>3, <2>2 DEF ToPlace
    <2>4. Placing'
      <3>1. ~Has(wr.todo[1].key)'
        BY <1>0, <1>1, <2>2 DEF Dividing, Has
      <3>2. Halves'
        BY <1>0, <1>1, <1>4, <2>2 DEF Halves, Dividing
      <3>3. Live' \cup wr'.moved \cup ToPlace' = wr'.want
        BY <1>0, <1>1, <2>2, <2>3 DEF Dividing
      <3>4. wr'.left = {} /\ wr'.todo # <<>> /\ \A i, j \in DOMAIN wr'.todo : i = j
        BY <1>0, <1>2, <2>2 DEF Dividing
      <3>5. QED
        BY <1>1, <1>5, <1>6, <2>2, <2>3, <3>1, <3>2, <3>3, <3>4 DEF Placing
    <2>5. WriterType'
      BY <1>0, <2>2 DEF NodeInv, WriterType
    <2>6. QED
      BY <1>1, <2>2, <2>4, <2>5 DEF NodeInv, WriterInv
  <1>7. CASE ~(wr.todo[1].key < wr.med)
    <2>1. wr' = [wr EXCEPT !.pc = "unlock", !.todo = <<>>, !.moved = wr.moved \cup {wr.todo[1]}]
      BY <1>7 DEF SplitPlace
    <2>2. /\ wr' \in Writer /\ wr'.pc = "unlock" /\ wr'.med = wr.med
          /\ wr'.want = wr.want /\ wr'.moved = wr.moved \cup {wr.todo[1]} /\ wr'.left = {}
      <3>1. wr.moved \cup {wr.todo[1]} \in SUBSET Pairs /\ <<>> \in Seq(Pairs) /\ wr.left = {}
        BY <1>0, <1>2, <1>3 DEF Writer, Dividing
      <3>2. QED
        BY <1>2, <2>1, <3>1, Zenon DEF Writer
    <2>3. Live' \cup wr'.moved = wr'.want
      BY <1>0, <1>1, <2>2 DEF Dividing
    <2>4. Halves'
      BY <1>0, <1>1, <1>2, <1>3, <1>4, <1>7, <2>2 DEF Halves, Dividing
    <2>5. WriterType'
      BY <1>0, <2>2 DEF NodeInv, WriterType
    <2>6. QED
      BY <1>1, <2>2, <2>3, <2>4, <2>5 DEF NodeInv, WriterInv, Accounted
  <1>8. QED
    BY <1>6, <1>7

(* insertAtIndex writes a slot that no reader takes for an entry yet.      *)
LEMMA StoreStep ==
  ASSUME NodeInv, StorePair
  PROVE  NodeInv'
  <1>0. SlotInv /\ Placing /\ UNCHANGED <<version, bitMap>> /\ wr.pc = "place"
    BY DEF NodeInv, WriterInv, StorePair
  <1>1. wr \in Writer /\ wr.todo \in Seq(Pairs) /\ wr.todo # <<>>
    BY <1>0 DEF NodeInv, WriterType, Writer, Placing
  <1>2. Head(wr.todo) = wr.todo[1] /\ wr.todo[1] \in Pairs
    BY <1>1
  <1>3. wr.at \in Slots /\ wr.at \notin bitMap
    BY <1>0 DEF Placing, Free
  <1>4. /\ keyArray' = [keyArray EXCEPT ![wr.at] = wr.todo[1]]
        /\ fingerPrint' = [fingerPrint EXCEPT ![wr.at] = Hash[wr.todo[1].key]]
        /\ wr' = [wr EXCEPT !.pc = "bit"]
    BY <1>2 DEF StorePair
  <1>5. SlotInv' /\ keyArray'[wr.at] = wr.todo[1] /\ \A i \in bitMap : keyArray'[i] = keyArray[i]
    BY <1>0, <1>2, <1>3, <1>4 DEF SlotInv
  <1>6. Live' = Live /\ Free' = Free
    BY <1>0, <1>5 DEF Live, Free
  <1>7. /\ wr' \in Writer /\ wr'.pc = "bit" /\ wr'.todo = wr.todo /\ wr'.med = wr.med
        /\ wr'.want = wr.want /\ wr'.moved = wr.moved /\ wr'.at = wr.at /\ wr'.left = wr.left
    BY <1>1, <1>4, Zenon DEF Writer
  <1>8. Placing'
    BY <1>0, <1>6, <1>7 DEF Placing, ToPlace, Has, Halves
  <1>9. WriterType'
    BY <1>0, <1>7 DEF NodeInv, WriterType
  <1>10. QED
    BY <1>5, <1>7, <1>8, <1>9 DEF NodeInv, WriterInv

(* The entries to place after the first.                                   *)
LEMMA TailEntries ==
  ASSUME NEW s \in Seq(Pairs), s # <<>>
  PROVE  /\ Tail(s) \in Seq(Pairs) /\ 1 \in DOMAIN s /\ s[1] \in Pairs
         /\ \A n \in DOMAIN Tail(s) : n + 1 \in DOMAIN s /\ n + 1 # 1 /\ Tail(s)[n] = s[n + 1]
         /\ \A n \in DOMAIN s : n = 1 \/ (n - 1 \in DOMAIN Tail(s) /\ Tail(s)[n - 1] = s[n])
         /\ \A m, n \in DOMAIN Tail(s) : m + 1 = n + 1 => m = n
  OBVIOUS

(* The loops of a merge go on with the next entry and the next free slot,  *)
(* and are done when they run out of either.                               *)
LEMMA NextPlaced ==
  ASSUME NEW w \in Writer, w.left = {}, NEW s \in Seq(Pairs), NEW slots \in SUBSET Slots,
         wr' = PlaceNext(w, s, slots), Free' = slots,
         \A i, j \in DOMAIN s : s[i].key = s[j].key => i = j,
         \A n \in DOMAIN s : ~Has(s[n].key)' /\ (w.moved # {} => s[n].key < w.med),
         Live' \cup w.moved \cup {s[n] : n \in DOMAIN s} = w.want,
         \A q \in w.moved : w.med <= q.key,
         w.moved # {} => \A p \in Live' : p.key < w.med
  PROVE  /\ wr' \in Writer /\ wr'.pc \in {"place", "unlock"}
         /\ wr'.pc = "place" => Placing'
         /\ wr'.pc = "unlock" => Accounted'
  <1> DEFINE rest == {s[n] : n \in DOMAIN s}
  <1>0. rest \in SUBSET Pairs /\ <<>> \in Seq(Pairs)
    OBVIOUS
  <1>1. CASE s # <<>> /\ slots # {}
    <2>1. Lowest(slots) \in slots /\ \A j \in slots : Lowest(slots) <= j
      <3>1. slots \subseteq Nat
        BY Constants
      <3>2. QED
        BY <1>1, <3>1, LowestIn, Zenon
    <2>2. wr' = [w EXCEPT !.pc = "place", !.todo = s, !.at = Lowest(slots)]
      BY <1>1, Zenon DEF PlaceNext
    <2>3. /\ wr' \in Writer /\ wr'.pc = "place" /\ wr'.todo = s /\ wr'.at = Lowest(slots)
          /\ wr'.med = w.med /\ wr'.moved = w.moved /\ wr'.left = {} /\ wr'.want = w.want
      <3>1. Lowest(slots) \in Slots \cup {-1}
        BY <2>1
      <3>2. QED
        BY <2>2, <3>1, Zenon DEF Writer
    <2>4. ToPlace' = rest
      BY <2>3 DEF ToPlace
    <2>5. Halves'
      BY <2>3, Zenon DEF Halves
    <2>6. \A p \in ToPlace' : ~Has(p.key)' /\ (wr'.moved # {} => p.key < wr'.med)
      BY <2>3, <2>4, Zenon
    <2>7. wr'.at \in Free' /\ \A j \in Free' : wr'.at <= j
      BY <2>1, <2>3, Zenon
    <2>8. /\ wr'.todo # <<>> /\ wr'.left = {}
          /\ \A i, j \in DOMAIN wr'.todo : wr'.todo[i].key = wr'.todo[j].key => i = j
      BY <1>1, <2>3
    <2>9. Live' \cup wr'.moved \cup ToPlace' = wr'.want
      BY <2>3, <2>4
    <2>10. Placing'
      BY <2>5, <2>6, <2>7, <2>8, <2>9, Zenon DEF Placing
    <2>11. QED
      BY <2>3, <2>10
  <1>2. CASE ~(s # <<>> /\ slots # {})
    <2>1. wr' = [w EXCEPT !.pc = "unlock", !.todo = <<>>, !.left = rest]
      BY <1>2, Zenon DEF PlaceNext
    <2>2. /\ wr' \in Writer /\ wr'.pc = "unlock" /\ wr'.med = w.med
          /\ wr'.moved = w.moved /\ wr'.left = rest /\ wr'.want = w.want
      BY <1>0, <2>1, Zenon DEF Writer
    <2>3. Halves'
      BY <2>2, Zenon DEF Halves
    <2>4. rest # {} => slots = {}
      BY <1>2
    <2>5. \A p \in wr'.left : ~Has(p.key)'
      BY <2>2, Zenon
    <2>6. Accounted'
      BY <2>2, <2>3, <2>4, <2>5, Zenon DEF Accounted
    <2>7. QED
      BY <2>2, <2>6
  <1>3. QED
    BY <1>1, <1>2, Zenon

(* The bit makes it an entry; a merge goes on with the next free slot.     *)
LEMMA BitStep ==
  ASSUME NodeInv, SetBit
  PROVE  NodeInv'
  <1>0. /\ SlotInv /\ Placing /\ UNCHANGED <<version, keyArray, fingerPrint>> /\ wr.pc = "bit"
        /\ keyArray[wr.at] = wr.todo[1] /\ bitMap' = bitMap \cup {wr.at}
    BY DEF NodeInv, WriterInv, SetBit
  <1>1. wr \in Writer /\ wr.todo \in Seq(Pairs) /\ wr.todo # <<>> /\ wr.left = {}
    BY <1>0 DEF NodeInv, WriterType, Writer, Placing
  <1>2. PICK w, s, slots : w = wr /\ s = Tail(wr.todo) /\ slots = {j \in Free : j > wr.at}
    BY Zenon
  <1>3. /\ s \in Seq(Pairs) /\ 1 \in DOMAIN w.todo /\ w.todo[1] \in Pairs
        /\ \A n \in DOMAIN s : n + 1 \in DOMAIN w.todo /\ n + 1 # 1 /\ s[n] = w.todo[n + 1]
        /\ \A n \in DOMAIN w.todo : n = 1 \/ (n - 1 \in DOMAIN s /\ s[n - 1] = w.todo[n])
        /\ \A m, n \in DOMAIN s : m + 1 = n + 1 => m = n
    <2>1. PICK todo : todo = wr.todo
      BY Zenon
    <2>2. s = Tail(todo) /\ w.todo = todo /\ todo \in Seq(Pairs) /\ todo # <<>>
      BY <1>1, <1>2, <2>1, Zenon
    <2>3. QED
      BY <2>2, TailEntries, Zenon
  <1>4. wr.at \in Slots /\ wr.at \notin bitMap /\ w.todo[1] \in ToPlace
    BY <1>0, <1>2, <1>3 DEF Placing, Free, ToPlace
  <1>5. SlotInv'
    <2>1. \A i \in bitMap : keyArray[i].key # w.todo[1].key
      BY <1>0, <1>4 DEF Placing, Has, Live
    <2>2. QED
      BY <1>0, <1>2, <1>4, <2>1 DEF SlotInv
  <1>6. Live' = Live \cup {w.todo[1]}
    BY <1>0, <1>2 DEF Live
  <1>7. Free' = slots /\ slots \in SUBSET Slots
    <2>1. Free' = Free \ {wr.at} /\ Free \subseteq Slots
      BY <1>0 DEF Free
    <2>2. \A j \in Free : j \in Nat /\ wr.at \in Nat /\ wr.at <= j
      BY <1>0, <1>4, <2>1, Constants DEF Placing
    <2>3. QED
      BY <1>2, <2>1, <2>2
  <1>8. wr' = PlaceNext(w, s, slots)
    BY <1>2, Zenon DEF SetBit
  <1>9. \A i, j \in DOMAIN s : s[i].key = s[j].key => i = j
    BY <1>0, <1>2, <1>3 DEF Placing
  <1>10. \A n \in DOMAIN s : ~Has(s[n].key)' /\ (w.moved # {} => s[n].key < w.med)
    <2>1. ASSUME NEW n \in DOMAIN s
          PROVE  s[n] \in ToPlace /\ s[n].key # w.todo[1].key
      BY <1>0, <1>2, <1>3 DEF Placing, ToPlace
    <2>2. ASSUME NEW n \in DOMAIN s PROVE ~Has(s[n].key) /\ (w.moved # {} => s[n].key < w.med)
      BY <1>0, <1>2, <2>1, Zenon DEF Placing
    <2>3. QED
      BY <1>6, <2>1, <2>2, Zenon DEF Has
  <1>11. Live' \cup w.moved \cup {s[n] : n \in DOMAIN s} = w.want
    <2>1. ToPlace = {w.todo[1]} \cup {s[n] : n \in DOMAIN s}
      BY <1>2, <1>3 DEF ToPlace
    <2>2. Live \cup w.moved \cup ToPlace = w.want
      BY <1>0, <1>2, Zenon DEF Placing
    <2>3. QED
      BY <1>6, <2>1, <2>2
  <1>12. /\ \A q \in w.moved : w.med <= q.key
         /\ w.moved # {} => \A p \in Live' : p.key < w.med
    BY <1>0, <1>2, <1>4, <1>6, Zenon DEF Placing, Halves
  <1>13. w \in Writer /\ w.left = {}
    BY <1>1, <1>2
  <1>14. /\ wr' \in Writer /\ wr'.pc \in {"place", "unlock"}
         /\ wr'.pc = "place" => Placing'
         /\ wr'.pc = "unlock" => Accounted'
    BY <1>3, <1>7, <1>8, <1>9, <1>10, <1>11, <1>12, <1>13, NextPlaced, Zenon
  <1>15. WriterType'
    BY <1>0, <1>14 DEF NodeInv, WriterType
  <1>16. QED
    BY <1>5, <1>14, <1>15 DEF NodeInv, WriterInv

(* writeUnlock leaves no writer behind.                                    *)
LEMMA UnlockStep ==
  ASSUME NodeInv, WriteUnlock
  PROVE  NodeInv'
  <1>1. SlotInv' /\ wr' = NoWriter /\ version' = version + 1
    BY DEF NodeInv, SlotInv, WriteUnlock, entries
  <1>2. wr' \in Writer /\ wr'.pc = "idle" /\ wr'.moved = {}
    BY <1>1, Constants, SizeAssumption DEF NoWriter, Writer, Slots
  <1>3. version' \in Nat /\ Even(version')
    BY <1>1, Parity DEF NodeInv, WriterType, WriteUnlock
  <1>4. QED
    BY <1>1, <1>2, <1>3 DEF NodeInv, WriterType, WriterInv

(* Readers leave the entries alone.                                        *)
LEMMA ReadersOnlyRead ==
  ASSUME NEW r \in Readers, Read(r)
  PROVE  UNCHANGED <<version, keyArray, fingerPrint, bitMap, numEntries, wr>>
  BY Zenon DEF Read, ReadLock, TestPermuter, LockPermuter, Gather, StorePermuter, Publish,
         StartScan, Emit, Mask, Probe, Value, ReadUnlock, Return, entries

(* A step that leaves slots and writer alone preserves the invariant.      *)
LEMMA NodeKept ==
  ASSUME NodeInv, UNCHANGED <<version, keyArray, fingerPrint, bitMap, wr>>
  PROVE  NodeInv'
  <1>1. SlotInv' /\ WriterType'
    BY DEF NodeInv, SlotInv, WriterType
  <1>2. Live' = Live /\ Free' = Free /\ ToPlace' = ToPlace
    BY DEF Live, Free, ToPlace
  <1>3. /\ (Placing' <=> Placing) /\ (Halves' <=> Halves) /\ (Dividing' <=> Dividing)
        /\ Accounted' <=> Accounted
    BY <1>2, Zenon DEF Placing, Halves, Dividing, Accounted, Has
  <1>4. QED
    BY <1>1, <1>2, <1>3 DEF NodeInv, WriterInv

(* A writer moves the version on, or works under an odd one.               *)
LEMMA WriterSteps ==
  ASSUME NodeInv, Write
  PROVE  /\ rd' = rd
         /\ version' = version + 1 \/ (version' = version /\ ~Even(version))
  <1>1. rd' = rd
    BY Zenon DEF Write, Insert, InsertSplits, Update, Remove, Absorb, SplitStep, SplitPlace,
           StorePair, SetBit, WriteUnlock
  <1>2. \/ version' = version + 1
        \/ version' = version /\ wr.pc \in {"split", "place", "bit"}
    BY Zenon DEF Write, Insert, InsertSplits, Update, Remove, Absorb, SplitStep, SplitPlace,
           StorePair, SetBit, WriteUnlock, Begin
  <1>3. QED
    BY <1>1, <1>2 DEF NodeInv, WriterType

(* A writer puts every call under way out of date.                         *)
LEMMA WriterReaders ==
  ASSUME NodeInv, ReaderInv, Write
  PROVE  ReaderInv'
  <1>1. rd' = rd /\ version \in Nat /\ version' \in Nat /\ version <= version'
        /\ \A v \in Nat : Even(v) /\ v <= version => v <= version' /\ v # version'
    <2>1. version \in Nat
      BY ZenonT(60) DEF NodeInv, WriterType
    <2>2. QED
      BY <2>1, WriterSteps
  <1>2. ASSUME NEW r \in Readers PROVE CallInv(rd[r])'
    <2>1. CallInv(rd[r]) /\ rd'[r] = rd[r]
      BY <1>1 DEF ReaderInv
    <2>2. rd[r].ver <= version' /\ rd[r].ver # version'
      BY <1>1, <2>1 DEF CallInv
    <2>3. QED
      BY <2>1, <2>2 DEF CallInv
  <1>3. QED
    BY <1>1, <1>2 DEF ReaderInv

(* A reader's step leaves the calls of the other readers as they are.      *)
LEMMA MoveReader ==
  ASSUME ReaderInv, NEW r \in Readers, NEW c, Move(r, c), CallInv(c),
         UNCHANGED <<version, keyArray, fingerPrint, bitMap>>
  PROVE  ReaderInv'
  <1>1. DOMAIN rd' = Readers /\ \A s \in Readers : rd'[s] = IF s = r THEN c ELSE rd[s]
    BY ZenonT(60) DEF ReaderInv, Move
  <1>2. ASSUME NEW d, CallInv(d) PROVE CallInv(d)'
    BY <1>2 DEF CallInv, LookupInv, KeySlots
  <1>3. ASSUME NEW s \in Readers PROVE CallInv(rd[s])'
    <2>1. PICK d : d = rd'[s]
      OBVIOUS
    <2>2. CallInv(d)
      BY <1>1, <2>1 DEF ReaderInv
    <2>3. CallInv(d)'
      BY <1>2, <2>2
    <2>4. QED
      BY <2>1, <2>3, ZenonT(60) DEF CallInv, LookupInv, KeySlots
  <1>4. QED
    BY <1>1, <1>3 DEF ReaderInv

(* What a step makes of the call b.                                        *)
Call(b, pc, i, mask, copy, out) ==
    [pc |-> pc, op |-> b.op, key |-> b.key, ver |-> b.ver, i |-> i,
     mask |-> mask, copy |-> copy, out |-> out]

(* A scan stays a scan.                                                    *)
LEMMA ScanSteps ==
  ASSUME ReaderInv, NEW r \in Readers,
         \/ TestPermuter(r) \/ LockPermuter(r) \/ Gather(r) \/ StorePermuter(r)
         \/ Publish(r) \/ StartScan(r) \/ Emit(r)
  PROVE  \E c : CallInv(c) /\ Move(r, c)
  <1> DEFINE ScanPcs == {"test", "plock", "gather", "store", "start", "emit"}
  <1>0. PICK b : b = rd[r]
    BY ZenonT(60)
  <1>1. CallInv(b) /\ IsCall(b)
    BY <1>0 DEF ReaderInv, CallInv
  <1>2. b.pc \in ScanPcs
    BY <1>0, ZenonT(60) DEF TestPermuter, LockPermuter, Gather, StorePermuter, Publish, StartScan, Emit
  <1>3. ASSUME NEW pc \in ScanPcs, NEW i, NEW copy, NEW out
        PROVE  CallInv(Call(b, pc, i, b.mask, copy, out))
    BY <1>1, <1>2 DEF CallInv, IsCall, Call
  <1>4. CASE TestPermuter(r)
    <2>1. PICK pc \in {"plock", "start"} : Move(r, [b EXCEPT !.pc = pc])
      BY <1>0, <1>4 DEF TestPermuter
    <2>2. [b EXCEPT !.pc = pc] = Call(b, pc, b.i, b.mask, b.copy, b.out)
      BY <1>1 DEF IsCall, Call
    <2>3. QED
      BY <1>2, <1>3, <2>1, <2>2
  <1>5. CASE LockPermuter(r)
    <2>1. PICK pc \in {"gather", "start"} : Move(r, [b EXCEPT !.pc = pc])
      BY <1>0, <1>5 DEF LockPermuter
    <2>2. [b EXCEPT !.pc = pc] = Call(b, pc, b.i, b.mask, b.copy, b.out)
      BY <1>1 DEF IsCall, Call
    <2>3. QED
      BY <1>2, <1>3, <2>1, <2>2
  <1>6. CASE Gather(r)
    <2>1. PICK i, copy, c : /\ Move(r, c)
                            /\ \/ c = [b EXCEPT !.i = i, !.copy = copy]
                               \/ c = [b EXCEPT !.pc = "store", !.i = i, !.copy = copy]
      BY <1>0, <1>6, Zenon DEF Gather
    <2>2. \/ c = Call(b, b.pc, i, b.mask, copy, b.out)
          \/ c = Call(b, "store", i, b.mask, copy, b.out)
      BY <1>1, <2>1, Zenon DEF IsCall, Call
    <2>3. QED
      BY <1>2, <1>3, <2>1, <2>2
  <1>7. CASE StorePermuter(r)
    <2>1. PICK i : Move(r, [b EXCEPT !.i = i])
      BY <1>0, <1>7, Zenon DEF StorePermuter
    <2>2. [b EXCEPT !.i = i] = Call(b, b.pc, i, b.mask, b.copy, b.out)
      BY <1>1 DEF IsCall, Call
    <2>3. QED
      BY <1>2, <1>3, <2>1, <2>2
  <1>8. CASE Publish(r)
    <2>1. PICK copy, c : Move(r, c) /\ c = [b EXCEPT !.pc = "start", !.copy = copy]
      BY <1>0, <1>8, Zenon DEF Publish
    <2>2. c = Call(b, "start", b.i, b.mask, copy, b.out)
      BY <1>1, <2>1, Zenon DEF IsCall, Call
    <2>3. QED
      BY <1>2, <1>3, <2>1, <2>2
  <1>9. CASE StartScan(r)
    <2>1. PICK i, c : Move(r, c) /\ c = [b EXCEPT !.pc = "emit", !.i = i]
      BY <1>0, <1>9, Zenon DEF StartScan
    <2>2. c = Call(b, "emit", i, b.mask, b.copy, b.out)
      BY <1>1, <2>1, Zenon DEF IsCall, Call
    <2>3. QED
      BY <1>2, <1>3, <2>1, <2>2
  <1>10. CASE Emit(r)
    <2>1. PICK i, out, c : Move(r, c) /\ c = [b EXCEPT !.i = i, !.out = out]
      BY <1>0, <1>10, Zenon DEF Emit
    <2>2. c = Call(b, b.pc, i, b.mask, b.copy, out)
      BY <1>1, <2>1, Zenon DEF IsCall, Call
    <2>3. QED
      BY <1>2, <1>3, <2>1, <2>2
  <1>11. QED
    BY <1>4, <1>5, <1>6, <1>7, <1>8, <1>9, <1>10

(* getKeyIndex in a lookup whose version holds keeps the slot of its key   *)
(* among those it still has to look at.                                    *)
LEMMA LookupSteps ==
  ASSUME SlotInv, ReaderInv, NEW r \in Readers, Mask(r) \/ Probe(r) \/ Value(r)
  PROVE  \E c : CallInv(c) /\ Move(r, c) /\ c.pc # "valid"
  <1>0. PICK b : b = rd[r]
    BY ZenonT(60)
  <1>1. CallInv(b) /\ IsCall(b)
    BY <1>0 DEF ReaderInv, CallInv
  <1>2. CASE Mask(r)
    <2>0. PICK M : M = {i \in bitMap : fingerPrint[i] = Hash[b.key]}
      BY Zenon
    <2>1. PICK c : b.pc = "mask" /\ Move(r, c) /\ c = [b EXCEPT !.pc = "probe", !.mask = M]
      BY <1>0, <1>2, <2>0, Zenon DEF Mask
    <2>2. KeySlots(b.key) \subseteq M /\ M \subseteq bitMap
      BY <2>0 DEF KeySlots
    <2>3. c = Call(b, "probe", b.i, M, b.copy, b.out)
      BY <1>1, <2>1, Zenon DEF IsCall, Call
    <2>4. CallInv(Call(b, "probe", b.i, M, b.copy, b.out))
      BY <1>1, <2>1, <2>2 DEF CallInv, LookupInv, IsCall, Call
    <2>5. QED
      BY <2>1, <2>3, <2>4, ZenonT(60) DEF Call
  <1>3. CASE Probe(r)
    <2>1. PICK i, c : i \in b.mask /\ Move(r, c) /\ c = IF keyArray[i].key = b.key
                    THEN [b EXCEPT !.pc = "value", !.i = i, !.mask = {}]
                    ELSE [b EXCEPT !.mask = b.mask \ {i}]
      BY <1>0, <1>3, Zenon DEF Probe
    <2>2. b.pc = "probe" /\ b.op = "lookup"
      BY <1>0, <1>1, <1>3, Zenon DEF Probe, CallInv
    <2>3. CASE keyArray[i].key = b.key
      <3>1. c = Call(b, "value", i, {}, b.copy, b.out)
        BY <1>1, <2>1, <2>3, Zenon DEF IsCall, Call
      <3>2. b.ver = version => b.out = <<>> /\ i \in KeySlots(b.key)
        BY <1>1, <2>1, <2>2, <2>3, KeySlotsFound, ZenonT(60) DEF CallInv, LookupInv
      <3>3. CallInv(Call(b, "value", i, {}, b.copy, b.out))
        BY <1>1, <2>2, <3>2 DEF CallInv, LookupInv, IsCall, Call
      <3>4. c.pc = "value"
        BY <3>1 DEF Call
      <3>5. QED
        BY <2>1, <3>1, <3>3, <3>4, Zenon
    <2>4. CASE keyArray[i].key # b.key
      <3>1. c = Call(b, b.pc, b.i, b.mask \ {i}, b.copy, b.out)
        BY <1>1, <2>1, <2>4 DEF IsCall, Call
      <3>2. i \notin KeySlots(b.key)
        BY <2>4, Zenon DEF KeySlots
      <3>3. CallInv(Call(b, b.pc, b.i, b.mask \ {i}, b.copy, b.out))
        BY <1>1, <2>2, <3>2 DEF CallInv, LookupInv, IsCall, Call
      <3>4. QED
        BY <2>1, <2>2, <2>4, <3>1, <3>3, ZenonT(60) DEF Call
    <2>5. QED
      BY <2>3, <2>4
  <1>4. CASE Value(r)
    <2>0. PICK out : out = <<keyArray[b.i].val>>
      BY Zenon
    <2>1. PICK c : /\ b.pc = "value" /\ Move(r, c)
                   /\ c = [b EXCEPT !.pc = "probe", !.i = 0, !.out = out]
      BY <1>0, <1>4, <2>0 DEF Value
    <2>2. c = Call(b, "probe", 0, b.mask, b.copy, out)
      BY <1>1, <2>1, Zenon DEF IsCall, Call
    <2>3. CallInv(Call(b, "probe", 0, b.mask, b.copy, out))
      BY <1>1, <2>0, <2>1 DEF CallInv, LookupInv, IsCall, Call
    <2>4. QED
      BY <2>1, <2>2, <2>3, Zenon DEF Call
  <1>5. QED
    BY <1>2, <1>3, <1>4

(* The fields of a call that begins.                                       *)
LEMMA NewCall ==
  ASSUME NEW pc, NEW op, NEW k, NEW v,
         NEW c, c = [NoCall EXCEPT !.pc = pc, !.op = op, !.key = k, !.ver = v]
  PROVE  c = [pc |-> pc, op |-> op, key |-> k, ver |-> v, i |-> 0,
              mask |-> {}, copy |-> {}, out |-> <<>>]
  BY Zenon DEF NoCall

(* Every step of a reader preserves what lookups have seen.                *)
LEMMA ReaderSteps ==
  ASSUME SlotInv, version \in Nat, ReaderInv, NEW r \in Readers, Read(r)
  PROVE  ReaderInv'
  <1>1. UNCHANGED <<version, keyArray, fingerPrint, bitMap>>
    BY ReadersOnlyRead
  <1>2. Even(0) /\ 0 <= version
    BY DEF Even
  <1>3. CallInv(NoCall)
    BY <1>2, Zenon DEF CallInv, IsCall, NoCall
  <1>4. ASSUME NEW op \in {"scan", "lookup"}, NEW k, ReadLock(r, op, k)
        PROVE  \E c : CallInv(c) /\ Move(r, c)
    <2>1. PICK pc, v, c : /\ Move(r, c) /\ pc = IF op = "scan" THEN "test" ELSE "mask"
                          /\ v = version
                          /\ c = [NoCall EXCEPT !.pc = pc, !.op = op, !.key = k, !.ver = v]
      BY <1>4, Zenon DEF ReadLock
    <2>2. c = [pc |-> pc, op |-> op, key |-> k, ver |-> v, i |-> 0,
               mask |-> {}, copy |-> {}, out |-> <<>>]
      BY <2>1, NewCall, ZenonT(60)
    <2>3. Even(version)
      BY <1>4 DEF ReadLock
    <2>4. IsCall(c) /\ c.pc = pc /\ c.op = op /\ c.ver = v /\ c.out = <<>>
      BY <2>2 DEF IsCall
    <2>5. v = version /\ pc = IF op = "scan" THEN "test" ELSE "mask"
      BY <2>1
    <2>6. CallInv(c)
      BY <2>3, <2>4, <2>5 DEF CallInv, LookupInv
    <2>7. QED
      BY <2>1, <2>6
  <1>5. ASSUME ReadUnlock(r)
        PROVE  \E c : CallInv(c) /\ Move(r, c)
    <2>1. PICK b : b = rd[r]
      OBVIOUS
    <2>2. CallInv(b) /\ IsCall(b)
      BY <2>1 DEF ReaderInv, CallInv
    <2>3. Move(r, [b EXCEPT !.pc = "valid"]) \/ Move(r, NoCall)
      BY <1>5, <2>1 DEF ReadUnlock
    <2>4. [b EXCEPT !.pc = "valid"] = Call(b, "valid", b.i, b.mask, b.copy, b.out)
      BY <2>2 DEF IsCall, Call
    <2>5. CallInv(Call(b, "valid", b.i, b.mask, b.copy, b.out))
      BY <2>2 DEF CallInv, LookupInv, IsCall, Call
    <2>6. QED
      BY <1>3, <2>3, <2>4, <2>5
  <1>6. \E c : CallInv(c) /\ Move(r, c)
    BY <1>3, <1>4, <1>5, ScanSteps, LookupSteps, Zenon DEF Read, Return
  <1>7. QED
    BY <1>1, <1>6, MoveReader

(* A lookup that readUnlock validates has found the value of its key, and  *)
(* none only if there is none.                                             *)
LEMMA LookupValidated ==
  ASSUME SlotInv, ReaderInv, NEW r \in Readers, rd[r].op = "lookup", rd[r].pc # "valid",
         Next, rd'[r].pc = "valid", version \in Nat
  PROVE  LookupIsExact(r)
  <1> DEFINE k == rd[r].key
  <1>0. rd[r].pc \in {"mask", "probe", "value"} /\ IsCall(rd[r])
    BY Zenon DEF ReaderInv, CallInv
  <1>1. ReadUnlock(r) /\ version = rd[r].ver
    <2>1. rd' # rd
      BY <1>0
    <2>2. PICK s \in Readers : Read(s)
      BY <2>1, Zenon DEF Next, Write, Insert, InsertSplits, Update, Remove, Absorb, SplitStep,
             SplitPlace, StorePair, SetBit, WriteUnlock
    <2>3. ASSUME NEW c, Move(s, c)
          PROVE  s = r /\ c.pc = "valid"
      BY <1>0, <2>3 DEF Move, ReaderInv
    <2>4. s = r
      BY <2>2, <2>3, Zenon DEF Read, ReadLock, TestPermuter, LockPermuter, Gather, StorePermuter,
             Publish, StartScan, Emit, Mask, Probe, Value, ReadUnlock, Return
    <2>5. ~(Mask(r) \/ Probe(r) \/ Value(r))
      BY <2>3, <2>4, LookupSteps
    <2>6. ReadUnlock(r)
      BY <1>0, <2>2, <2>4, <2>5, Zenon DEF Read, ReadLock, TestPermuter, LockPermuter, Gather,
             StorePermuter, Publish, StartScan, Emit, Return
    <2>7. NoCall.pc # "valid"
      BY DEF NoCall
    <2>8. QED
      BY <2>3, <2>4, <2>6, <2>7, ZenonT(60) DEF ReadUnlock
  <1>2. rd[r].pc = "probe" /\ rd[r].mask = {} /\ LookupInv(rd[r])
    BY <1>1 DEF ReaderInv, CallInv, ReadUnlock, Finished
  <1>3. CASE rd[r].out = <<>> /\ KeySlots(k) = {}
    <2>1. ~Has(k)
      BY <1>3, KeySlotsFound
    <2>2. {q \in Live : q.key = k} = {}
      BY <2>1 DEF Has
    <2>3. {rd[r].out[n] : n \in DOMAIN rd[r].out} = {}
      BY <1>3
    <2>4. QED
      BY <2>2, <2>3, Zenon DEF LookupIsExact
  <1>4. ASSUME NEW i \in KeySlots(k), rd[r].out = <<keyArray[i].val>>
        PROVE  LookupIsExact(r)
    <2>1. {q \in Live : q.key = k} = {keyArray[i]}
      BY KeySlotsFound DEF SlotInv, Live
    <2>2. {rd[r].out[n] : n \in DOMAIN rd[r].out} = {keyArray[i].val}
      BY <1>4
    <2>3. QED
      BY <2>1, <2>2 DEF LookupIsExact
  <1>5. QED
    BY <1>2, <1>3, <1>4, ZenonT(60) DEF LookupInv

-----------------------------------------------------------------------------
(***************************************************************************)
(* Counting: what needs the cardinality of the sets of slots.              *)
(***************************************************************************)
INSTANCE FiniteSetTheorems

(* Among n entries with different keys there is one of every rank below n. *)
LEMMA Rank ==
  ASSUME NEW S, IsFiniteSet(S), \A p \in S : p.key \in Nat,
         \A p, q \in S : p.key = q.key => p = q, NEW r \in Nat, r < Cardinality(S)
  PROVE  \E p \in S : Cardinality({q \in S : q.key < p.key}) = r
  <1> DEFINE Below(p) == {q \in S : q.key < p.key}
             Ranked(n) == \E p \in S : Cardinality(Below(p)) = n
             T == {n \in Nat : n < Cardinality(S) /\ ~Ranked(n)}
  <1>0. Cardinality(S) \in Nat
    BY FS_CardinalityType
  <1>a. ASSUME NEW A, A \subseteq S, A # {}
        PROVE  \E p \in A : \A q \in A : p.key <= q.key
    <2>1. {p.key : p \in A} \subseteq Nat /\ {p.key : p \in A} # {}
      BY <1>a
    <2>2. PICK x \in {p.key : p \in A} : \A y \in {p.key : p \in A} : x <= y
      BY <2>1, Least, Zenon
    <2>3. QED
      BY <2>2
  <1> SUFFICES ASSUME T # {} PROVE FALSE
    OBVIOUS
  <1>1. PICK n \in T : \A m \in T : n <= m
    BY Least, Zenon
  <1>2. CASE n = 0
    <2>1. S # {}
      BY <1>0, <1>1, <1>2, FS_EmptySet
    <2>2. PICK p \in S : \A q \in S : p.key <= q.key
      BY <1>a, <2>1, Zenon
    <2>3. ASSUME NEW q \in Below(p) PROVE FALSE
      <3>1. q.key \in Nat /\ p.key \in Nat /\ p.key <= q.key /\ q.key < p.key
        BY <2>2
      <3>2. QED
        BY <3>1
    <2>4. Cardinality(Below(p)) = 0
      BY <2>3, FS_EmptySet, Zenon
    <2>5. QED
      BY <1>1, <1>2, <2>4, ZenonT(60)
  <1>3. CASE n # 0
    <2>0. n \in Nat /\ n < Cardinality(S)
      BY <1>1
    <2>1. n - 1 \in Nat /\ n - 1 < Cardinality(S) /\ (n - 1) + 1 = n /\ ~(n <= n - 1)
      BY <1>0, <1>3, <2>0
    <2>2. PICK p \in S : Cardinality(Below(p)) = n - 1
      BY <1>1, <2>1, Zenon
    <2> DEFINE Above == {q \in S : p.key < q.key}
               Upto == Below(p) \cup {p}
    <2>3. IsFiniteSet(Below(p)) /\ p \notin Below(p)
      <3>1. Below(p) \subseteq S /\ ~(p.key < p.key)
        OBVIOUS
      <3>2. QED
        BY <3>1, FS_Subset, Zenon
    <2>4. Cardinality(Upto) = n
      <3> HIDE DEF Below
      <3>1. Cardinality(Upto) = Cardinality(Below(p)) + 1
        BY <2>3, FS_AddElement, Zenon
      <3>2. QED
        BY <2>1, <2>2, <3>1
    <2>5. Above # {}
      <3>1. SUFFICES ASSUME Above = {} PROVE FALSE
        OBVIOUS
      <3>2. ASSUME NEW q \in S PROVE q \in Upto
        <4>1. q.key \in Nat /\ p.key \in Nat /\ ~(p.key < q.key)
          BY <3>1
        <4>2. q.key < p.key \/ q = p
          BY <4>1
        <4>3. QED
          BY <4>2, Zenon
      <3>3. S = Upto
        BY <3>2
      <3>4. Cardinality(S) = n /\ n < Cardinality(S)
        BY <1>1, <2>4, <3>3, Zenon
      <3>5. QED
        BY <1>0, <3>4
    <2>6. PICK x \in Above : \A y \in Above : x.key <= y.key
      BY <1>a, <2>5, ZenonT(60)
    <2>7. ASSUME NEW q \in S PROVE q \in Below(x) <=> q \in Upto
      <3>1. q.key \in Nat /\ p.key \in Nat /\ x.key \in Nat /\ p.key < x.key
            /\ (p.key < q.key => x.key <= q.key) /\ (p.key = q.key <=> p = q)
        BY <2>6, Zenon
      <3>2. q.key < x.key <=> q.key < p.key \/ q = p
        BY <3>1
      <3>3. QED
        BY <3>2, Zenon
    <2>8. Below(x) = Upto
      BY <2>7
    <2>9. QED
      BY <1>1, <2>4, <2>6, <2>8, ZenonT(60)
  <1>4. QED
    BY <1>2, <1>3, ZenonT(60)

(* There are MaxEntries slots.                                             *)
LEMMA FiniteSlots ==
  /\ IsFiniteSet(Slots) /\ Cardinality(Slots) = MaxEntries
  /\ \A S \in SUBSET Slots : IsFiniteSet(S) /\ Cardinality(S) \in Nat
  <1>1. IsFiniteSet(Slots) /\ Cardinality(Slots) = MaxEntries
    BY FS_Interval, SizeAssumption DEF Slots
  <1>2. QED
    BY <1>1, FS_Subset, FS_CardinalityType, Zenon

(* A full node has a median.                                               *)
LEMMA MedianFound ==
  ASSUME SlotInv, Free = {}
  PROVE  \E p \in Live : Median = p.key
  <1>1. bitMap = Slots /\ keyArray \in [Slots -> Pairs]
    BY Zenon DEF SlotInv, Free
  <1>2. keyArray \in Bijection(Slots, Live)
    <2>1. keyArray \in [Slots -> Live] /\ \A p \in Live : \E i \in Slots : keyArray[i] = p
      BY <1>1 DEF Live
    <2>2. \A i, j \in Slots : keyArray[i] = keyArray[j] => i = j
      BY <1>1 DEF SlotInv
    <2>3. QED
      BY <2>1, <2>2 DEF Bijection, Injection, Surjection, IsInjective
  <1>3. IsFiniteSet(Live) /\ Cardinality(Live) = MaxEntries
    BY <1>2, FiniteSlots, FS_Bijection, Zenon DEF ExistsBijection
  <1>4. MaxEntries \div 2 \in Nat /\ MaxEntries \div 2 < MaxEntries
    BY SizeAssumption
  <1>5. /\ \A p \in Live : p.key \in Nat
        /\ \A p, q \in Live : p.key = q.key => p = q
    BY Constants, LivePairs DEF SlotInv
  <1>6. PICK p \in Live : Cardinality({q \in Live : q.key < p.key}) = MaxEntries \div 2
    BY <1>3, <1>4, <1>5, Rank, Zenon
  <1>7. Median \in {q.key : q \in Live}
    BY <1>6, ZenonT(60) DEF Median
  <1>8. QED
    BY <1>7

(* insert into a full node begins a split whose loop has done nothing.     *)
LEMMA InsertSplitsStep ==
  ASSUME NodeInv, NEW p \in Pairs, InsertSplits(p)
  PROVE  NodeInv'
  <1>0. /\ SlotInv /\ UNCHANGED <<keyArray, fingerPrint, bitMap>> /\ Free = {}
        /\ KeySlots(p.key) = {} /\ version \in Nat /\ Even(version) /\ version' = version + 1
    BY DEF NodeInv, WriterType, InsertSplits, entries
  <1>1. SlotInv' /\ Live' = Live /\ Live \subseteq Pairs /\ bitMap = Slots
    BY <1>0, LivePairs, Zenon DEF SlotInv, Live, Free
  <1>2. PICK m \in Slots : keyArray[m].key = Median /\ Median \in Keys
    BY <1>0, MedianFound, LivePairs, Constants, ZenonT(60)
  <1>3. With(p) = Live \cup {p} /\ ~Has(p.key)
    BY <1>0, KeySlotsFound DEF With
  <1>4. wr' = [pc |-> "split", todo |-> <<p>>, at |-> -1, i |-> 0, med |-> Median,
               moved |-> {}, left |-> {}, want |-> Live \cup {p}]
    BY <1>3, ZenonT(60) DEF InsertSplits, NoWriter
  <1>5. wr' \in Writer
    BY <1>1, <1>2, <1>4, SizeAssumption DEF Writer
  <1>6. WriterType'
    BY <1>0, <1>4, <1>5, Parity, Zenon DEF WriterType
  <1>7. Dividing'
    <2>1. Has(p.key)' <=> Has(p.key)
      BY <1>1 DEF Has
    <2>2. \A j \in Slots : ~(j < 0)
      BY Constants
    <2>3. QED
      BY <1>0, <1>1, <1>2, <1>3, <1>4, <2>1, <2>2, Zenon DEF Dividing
  <1>8. QED
    BY <1>1, <1>4, <1>6, <1>7, ZenonT(60) DEF NodeInv, WriterInv

(* A merge begins with the first entry and the lowest free slot.           *)
LEMMA AbsorbStep ==
  ASSUME NodeInv, NEW s \in Batches, Absorb(s)
  PROVE  NodeInv'
  <1> DEFINE new == {s[n] : n \in DOMAIN s}
             w == [NoWriter EXCEPT !.want = Live \cup new]
  <1>0. SlotInv /\ UNCHANGED <<keyArray, fingerPrint, bitMap>>
    BY Zenon DEF NodeInv, Absorb, entries
  <1>1. SlotInv' /\ Live' = Live /\ Live \subseteq Pairs /\ Free' = Free /\ Free \subseteq Slots
    BY <1>0, LivePairs DEF SlotInv, Live, Free
  <1>2. s \in Seq(Pairs) /\ \A i, j \in DOMAIN s : s[i].key = s[j].key => i = j
    BY BatchAssumption, Zenon
  <1>3. Live \cup new \in SUBSET Pairs /\ \A n \in DOMAIN s : s[n] \in Pairs
    BY <1>1, <1>2
  <1>4. \A n \in DOMAIN s : ~Has(s[n].key)'
    <2>1. SUFFICES ASSUME NEW n \in DOMAIN s, NEW q \in Live, q.key = s[n].key PROVE FALSE
      BY <1>1, Zenon DEF Has
    <2>2. q.key < s[n].key /\ q.key \in Nat
      BY <1>1, Constants, Zenon DEF Absorb
    <2>3. QED
      BY <2>1, <2>2
  <1>5. /\ wr' = PlaceNext(w, s, Free) /\ version' = version + 1 /\ Even(version)
    BY Zenon DEF Absorb
  <1>6. NoWriter \in Writer /\ NoWriter.left = {} /\ NoWriter.moved = {}
    <2>1. 0 \in Slots /\ 0 \in 0 .. MaxEntries /\ <<>> \in Seq(Pairs)
      BY SizeAssumption DEF Slots
    <2>2. QED
      BY <2>1, Constants, Zenon DEF NoWriter, Writer
  <1>7. w \in Writer /\ w.left = {} /\ w.moved = {} /\ w.want = Live \cup new
    <2> HIDE DEF new
    <2>1. PICK x : x = Live \cup new
      BY Zenon
    <2>2. w = [NoWriter EXCEPT !.want = x] /\ x \in SUBSET Pairs
      BY <1>3, <2>1
    <2> HIDE DEF w
    <2>3. QED
      BY <1>6, <2>1, <2>2, Zenon DEF Writer
  <1>8. PICK v, free : v = w /\ free = Free
    BY Zenon
  <1> HIDE DEF w
  <1>9. /\ wr' \in Writer /\ wr'.pc \in {"place", "unlock"}
        /\ wr'.pc = "place" => Placing'
        /\ wr'.pc = "unlock" => Accounted'
    <2>1. v \in Writer /\ v.left = {} /\ free \in SUBSET Slots
      BY <1>1, <1>7, <1>8, Zenon
    <2>2. wr' = PlaceNext(v, s, free) /\ Free' = free
      BY <1>1, <1>5, <1>8, Zenon
    <2>3. v.moved = {} /\ Live' \cup v.moved \cup {s[n] : n \in DOMAIN s} = v.want
      BY <1>1, <1>7, <1>8
    <2>4. /\ \A n \in DOMAIN s : ~Has(s[n].key)' /\ (v.moved # {} => s[n].key < v.med)
          /\ \A q \in v.moved : v.med <= q.key
          /\ v.moved # {} => \A p \in Live' : p.key < v.med
      BY <1>4, <2>3, Zenon
    <2>5. QED
      BY <1>2, <2>1, <2>2, <2>3, <2>4, NextPlaced, Zenon
  <1>10. WriterType'
    <2>1. version' \in Nat /\ ~Even(version')
      BY <1>5, Parity DEF NodeInv, WriterType
    <2>2. QED
      BY <1>9, <2>1 DEF WriterType
  <1>11. QED
    BY <1>1, <1>9, <1>10 DEF NodeInv, WriterInv

(* The count follows the bits.                                             *)
LEMMA CountStep ==
  ASSUME NodeInv, CountInv, Write
  PROVE  CountInv'
  <1>1. bitMap \subseteq Slots /\ IsFiniteSet(bitMap)
    BY FiniteSlots DEF NodeInv, SlotInv
  <1>2. ASSUME NEW i \in bitMap, RemoveFromIndex(i) PROVE CountInv'
    BY <1>1, <1>2, FS_RemoveElement, ZenonT(60) DEF CountInv, RemoveFromIndex
  <1>3. ASSUME NEW i, i \notin bitMap, bitMap' = bitMap \cup {i}, numEntries' = numEntries + 1
        PROVE CountInv'
    BY <1>1, <1>3, FS_AddElement DEF CountInv
  <1>4. CASE UNCHANGED <<bitMap, numEntries>>
    BY <1>4 DEF CountInv
  <1>5. ASSUME NEW k \in Keys, Remove(k) PROVE CountInv'
    <2>1. CASE KeySlots(k) = {}
      BY <1>4, <1>5, <2>1, ZenonT(60) DEF Remove
    <2>2. CASE KeySlots(k) # {}
      <3>1. KeySlots(k) \subseteq Nat /\ KeySlots(k) \subseteq bitMap
        BY <1>1, Constants, Zenon DEF KeySlots
      <3>2. Lowest(KeySlots(k)) \in bitMap
        BY <2>2, <3>1, LowestIn, Zenon
      <3>3. QED
        BY <1>2, <1>5, <2>2, <3>2, ZenonT(60) DEF Remove
    <2>3. QED
      BY <2>1, <2>2, Zenon
  <1>6. CASE SplitStep
    <2>1. wr.i \in bitMap
      BY <1>6, Constants DEF SplitStep, NodeInv, WriterType, Writer, WriterInv, Dividing
    <2>2. QED
      BY <1>2, <1>4, <1>6, <2>1, ZenonT(60) DEF SplitStep
  <1>7. CASE SetBit
    <2>1. wr.at \notin bitMap
      BY <1>7 DEF SetBit, NodeInv, WriterInv, Placing, Free
    <2>2. QED
      BY <1>3, <1>7, <2>1, ZenonT(60) DEF SetBit
  <1>8. QED
    BY <1>4, <1>5, <1>6, <1>7, ZenonT(60) DEF Write, Insert, InsertSplits, Update, Absorb, SplitPlace,
       StorePair, WriteUnlock, entries

-----------------------------------------------------------------------------
(***************************************************************************)
(* The invariants and what they give.                                      *)
(***************************************************************************)
LEMMA InitInv == Init => NodeInv /\ CountInv /\ ReaderInv
  <1> SUFFICES ASSUME Init PROVE NodeInv /\ CountInv /\ ReaderInv
    BY Zenon
  <1>1. PICK s \in Fillings :
          /\ keyArray = [i \in Slots |-> IF i < Len(s) THEN s[i + 1] ELSE s[1]]
          /\ fingerPrint = [i \in Slots |-> Hash[keyArray[i].key]]
          /\ bitMap = 0 .. Len(s) - 1 /\ numEntries = Len(s)
    BY DEF Init
  <1>2. /\ s \in Seq(Pairs) /\ Len(s) \in 1 .. MaxEntries
        /\ \A i, j \in DOMAIN s : s[i].key = s[j].key => i = j
    BY FillingAssumption, Zenon
  <1>3. version = 2 /\ wr = NoWriter /\ rd = [r \in Readers |-> NoCall]
    BY DEF Init
  <1>4. SlotInv
    <2>1. \A i \in Slots : i \in Nat /\ (i < Len(s) => i + 1 \in DOMAIN s) /\ 1 \in DOMAIN s
      BY <1>2, Constants
    <2>2. \A i \in DOMAIN s : s[i] \in Pairs
      BY <1>2
    <2>3. keyArray \in [Slots -> Pairs]
      BY <1>1, <2>1, <2>2, Zenon
    <2>4. \A i \in bitMap : i \in Slots /\ i < Len(s) /\ keyArray[i] = s[i + 1]
      BY <1>1, <1>2, SizeAssumption DEF Slots
    <2>5. ASSUME NEW i \in bitMap, NEW j \in bitMap, keyArray[i].key = keyArray[j].key PROVE i = j
      <3>1. i + 1 = j + 1 /\ i \in Nat /\ j \in Nat
        BY <1>2, <2>1, <2>4, <2>5
      <3>2. QED
        BY <3>1
    <2>6. QED
      BY <1>1, <2>3, <2>4, <2>5, ZenonT(60) DEF SlotInv
  <1>5. wr \in Writer /\ wr.pc = "idle" /\ wr.moved = {}
    BY <1>3, Constants, SizeAssumption DEF NoWriter, Writer, Slots
  <1>6. version \in Nat /\ Even(version) /\ Even(0)
    BY <1>3 DEF Even
  <1>7. NodeInv
    BY <1>4, <1>5, <1>6, Zenon DEF NodeInv, WriterType, WriterInv
  <1>8. CountInv
    BY <1>1, <1>2, FS_Interval DEF CountInv
  <1>9. CallInv(NoCall)
    <2>1. IsCall(NoCall) /\ NoCall.pc = "idle" /\ NoCall.op = "scan" /\ NoCall.ver = 0
      BY Zenon DEF IsCall, NoCall
    <2>2. 0 \in Nat /\ 0 <= version
      BY <1>3
    <2>3. QED
      BY <1>6, <2>1, <2>2 DEF CallInv
  <1>10. ReaderInv
    BY <1>3, <1>9 DEF ReaderInv
  <1>11. QED
    BY <1>7, <1>8, <1>10, ZenonT(60)

(* Every step of a writer preserves the invariant of the slots.            *)
LEMMA WriteStep ==
  ASSUME NodeInv, Write
  PROVE  NodeInv'
  <1>1. ASSUME NEW p \in Pairs, Insert(p) \/ InsertSplits(p) \/ Update(p) PROVE NodeInv'
    BY <1>1, InsertStep, InsertSplitsStep, UpdateStep, Zenon
  <1>2. ASSUME NEW s \in Batches, Absorb(s) PROVE NodeInv'
    BY <1>2, AbsorbStep, Zenon
  <1>3. QED
    BY <1>1, <1>2, RemoveStep, DivideStep, PlaceStep, StoreStep, BitStep, UnlockStep, ZenonT(60) DEF Write

(* The invariant is inductive.                                             *)
LEMMA NextInv ==
  NodeInv /\ CountInv /\ ReaderInv /\ [Next]_vars => (NodeInv /\ CountInv /\ ReaderInv)'
  <1> SUFFICES ASSUME NodeInv, CountInv, ReaderInv, [Next]_vars
               PROVE  (NodeInv /\ CountInv /\ ReaderInv)'
    OBVIOUS
  <1>1. CASE Write
    BY <1>1, WriteStep, CountStep, WriterReaders, Zenon
  <1>2. ASSUME NEW r \in Readers, Read(r) PROVE (NodeInv /\ CountInv /\ ReaderInv)'
    <2>1. UNCHANGED <<version, keyArray, fingerPrint, bitMap, numEntries, wr>>
      BY <1>2, ReadersOnlyRead
    <2>2. SlotInv /\ version \in Nat
      BY DEF NodeInv, WriterType
    <2>3. NodeInv' /\ ReaderInv'
      BY <1>2, <2>1, <2>2, NodeKept, ReaderSteps, Zenon
    <2>4. QED
      BY <2>1, <2>3 DEF CountInv
  <1>3. CASE UNCHANGED vars
    <2>1. UNCHANGED <<version, keyArray, fingerPrint, bitMap, numEntries, wr, rd>>
      BY <1>3 DEF vars, entries
    <2>2. NodeInv' /\ CountInv'
      BY <2>1, NodeKept, Zenon DEF CountInv
    <2>3. ReaderInv'
      <3>1. ASSUME NEW c, CallInv(c) PROVE CallInv(c)'
        BY <2>1, <3>1, Zenon DEF CallInv, LookupInv, KeySlots
      <3>2. ASSUME NEW r \in Readers PROVE CallInv(rd[r])'
        <4>1. PICK c : c = rd[r] /\ c = rd'[r]
          BY <2>1
        <4>2. CallInv(c)'
          BY <3>1, <4>1, Zenon DEF ReaderInv
        <4>3. QED
          BY <4>1, <4>2 DEF CallInv, LookupInv, KeySlots
      <3>3. QED
        BY <2>1, <3>2, Zenon DEF ReaderInv
    <2>4. QED
      BY <2>2, <2>3, Zenon
  <1>4. QED
    BY <1>1, <1>2, <1>3 DEF Next

(* The slots, the writer and the readers, for every behaviour.             *)
THEOREM NodeInvariance == Spec => [](NodeInv /\ CountInv /\ ReaderInv)
  BY InitInv, NextInv, PTL DEF Spec

(* Between writers numEntries counts the bits of the bitmap, no key has    *)
(* two slots and every fingerprint is that of its key, whatever inserts,   *)
(* splits and merges have done to the slots before.                        *)
THEOREM SlotsStayAMap == Spec => []SlotsAreAMap
  <1>1. NodeInv /\ CountInv => SlotsAreAMap
    BY DEF NodeInv, SlotInv, CountInv, SlotsAreAMap
  <1>2. QED
    BY <1>1, NodeInvariance, PTL

(* No insert, update, remove or split loses an entry or keeps one twice; a *)
(* split separates the entries at its median; and a merge, of any number   *)
(* of entries into any node, moves all that find a slot, leaves the others *)
(* behind only in front of a full node, and copies none.                   *)
THEOREM WritesAreExact == Spec => WritesTakeEffect
  <1> DEFINE Exact ==
        /\ Live \cup wr.moved \cup wr.left = wr.want
        /\ wr.left # {} => Free = {}
        /\ \A p \in wr.left : ~Has(p.key)
        /\ \A p \in Live, q \in wr.moved : p.key < wr.med /\ wr.med <= q.key
  <1>1. NodeInv /\ wr.pc = "unlock" => Exact
    BY DEF NodeInv, WriterInv, Accounted, Halves
  <1>2. NodeInv /\ [Next]_vars => [wr.pc = "unlock" /\ wr'.pc = "idle" => Exact]_vars
    BY <1>1, Zenon
  <1>3. QED
    BY <1>2, NodeInvariance, PTL DEF Spec, WritesTakeEffect

(* The half of ValidatedReadsAreExact that is about lookups: with any      *)
(* number of readers and writers, a lookup whose version readUnlock        *)
(* accepts returned the value of its key, and nothing only if the key is   *)
(* not in the node.                                                        *)
ValidatedLookupsAreExact ==
    [][\A r \in Readers :
          rd[r].op = "lookup" /\ rd[r].pc # "valid" /\ rd'[r].pc = "valid" => LookupIsExact(r)]_vars

(* Lookups without a lock are exact whenever they are validated.           *)
THEOREM LookupsAreExact == Spec => ValidatedLookupsAreExact
  <1>1. NodeInv /\ ReaderInv /\ [Next]_vars =>
          [\A r \in Readers :
             rd[r].op = "lookup" /\ rd[r].pc # "valid" /\ rd'[r].pc = "valid" => LookupIsExact(r)]_vars
    BY LookupValidated DEF NodeInv, WriterType
  <1>2. QED
    BY <1>1, NodeInvariance, PTL DEF Spec, ValidatedLookupsAreExact
=============================================================================
