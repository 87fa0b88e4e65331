-------------------------- MODULE DataLayerProofs --------------------------
(***************************************************************************)
(* Proofs about DataLayer, for any threads, keys, values, node size, list  *)
(* and calls, in every behaviour in which no two nodes are merged: what    *)
(* concurrent inserts, updates, lookups and removals do to the list while  *)
(* its nodes split.                                                        *)
(***************************************************************************)
EXTENDS DataLayer, TLAPS

(* A step may take half a minute: the provers' own limit is shorter.       *)
USE SMTT(30), ZenonT(30)

(* No remove has got the lock of a neighbour.                              *)
NoMerge == \A t \in Threads : pc[t] \notin {"mnmove", "mpmove"}

(* The steps of a thread: those that hold no lock, those of a split (of    *)
(* which the first two hide the new node) and the others that hold the     *)
(* lock of cur.  At the tail a thread only walks.                          *)
Free == {"idle", "jump", "search", "walk", "right", "lock", "read", "validate", "return"}
Hidden == {"splitmax", "splitlink"}
Splitting == Hidden \cup {"splitnext", "splitprev", "splitlog"}
Keeping == {"locked", "unlock", "sizenext", "loadprev", "sizeprev", "reload", "mnlock", "mplock"}
Holding == Splitting \cup Keeping
Placed == Holding \cup {"right", "lock"}
Labels == Free \cup Holding

(* The nodes that others than the thread that made them can reach.         *)
Seen == {n \in 1 .. nalloc : ~Private(n)}

NodeType == [min : Keys \cup {MaxKey}, max : Keys \cup {MaxKey},
             next : NodeIds \cup {Null}, prev : NodeIds \cup {Null},
             deleted : {FALSE}, locked : BOOLEAN, entries : Entries]

(* Types, and what a thread at a label knows.                              *)
ThreadInv ==
    /\ nalloc \in NodeIds /\ nalloc >= 2
    /\ node \in [NodeIds -> NodeType]
    /\ pc \in [Threads -> Labels]
    /\ todo \in [Threads -> Seq(SUBSET Request)]
    /\ start \in [Threads -> Seen] /\ cur \in [Threads -> Seen]
    /\ nbr \in [Threads -> NodeIds \cup {Null}]
    /\ fresh \in [Threads -> BOOLEAN]
    /\ res \in [Threads -> {"pending", "ok", "no"} \cup Vals]
    /\ aux \in [Threads -> NodeIds \cup {Null, NoVal} \cup Vals]
    /\ DOMAIN req = Threads
    /\ \A t \in Threads : pc[t] # "idle" => req[t] \in Request
    /\ \A t \in Threads : pc[t] \in Placed => cur[t] # TailNode
    /\ \A t \in Threads : pc[t] = "validate" => aux[t] \in Vals \cup {NoVal}
    /\ sl \in SL!Replica /\ \A k \in Keys : sl.idx[k] \in Seen \cup {Null}
    /\ logged \subseteq [op : {"insert", "remove"}, node : Seen]

(* Each node points right to where its range ends, and left.               *)
Rightward(n) ==
    n # TailNode =>
        /\ node[n].min \in Keys /\ node[n].min < node[n].max
        /\ node[n].next \in Seen /\ node[n].max <= node[node[n].next].min
        /\ \A k \in Present(node[n].entries) : CheckRange(n, k)
        /\ \/ node[n].max = node[node[n].next].min
           \/ \E t \in Threads : pc[t] = "splitlink" /\ cur[t] = n

Leftward(n) ==
    /\ node[n].prev \in Seen \cup {Null}
    /\ n # HeadNode =>
          /\ node[n].prev # Null
          /\ node[node[n].prev].min < node[n].min \/ (n = TailNode /\ node[n].prev = n)

ListInv ==
    /\ node[HeadNode].min = 0 /\ node[TailNode].min = MaxKey
    /\ \A n \in 1 .. nalloc : Rightward(n) /\ Leftward(n)

(* The lock of a node has one holder.                                      *)
LockInv ==
    /\ \A t \in Threads : pc[t] \in Holding => node[cur[t]].locked
    /\ \A t, u \in Threads :
          t # u /\ pc[t] \in Holding /\ pc[u] \in Holding => cur[t] # cur[u]
    /\ \A n \in NodeIds : node[n].locked =>
          \E t \in Threads : pc[t] \in Holding /\ cur[t] = n

(* Where the new node of a split belongs.                                  *)
SplitOf(t) ==
    /\ pc[t] \in Splitting =>
          nbr[t] \in 1 .. nalloc \ {HeadNode, TailNode} /\ node[cur[t]].min < node[nbr[t]].min
    /\ pc[t] \in Splitting \ Hidden => nbr[t] \in Seen
    /\ pc[t] = "splitmax" =>
          /\ node[nbr[t]].min < node[cur[t]].max
          /\ \A k \in Present(node[cur[t]].entries) : k < node[nbr[t]].min
    /\ pc[t] = "splitlink" => node[cur[t]].max = node[nbr[t]].min
    /\ pc[t] = "splitprev" => aux[t] \in Seen /\ node[nbr[t]].min < node[aux[t]].min

SplitInv ==
    /\ \A t \in Threads : SplitOf(t)
    /\ \A t, u \in Threads :
          t # u /\ pc[t] \in Hidden /\ pc[u] \in Hidden => nbr[t] # nbr[u]

DataInv == ThreadInv /\ ListInv /\ LockInv /\ SplitInv

(* How the sets of labels lie in each other.                               *)
LEMMA LabelSets ==
  /\ Hidden \subseteq Splitting /\ Splitting \subseteq Holding /\ Keeping \subseteq Holding
  /\ Keeping \cap Splitting = {} /\ Free \cap Holding = {}
  /\ Labels = Free \cup Holding /\ Holding \subseteq Placed
  /\ \A l \in Free : l \in Placed => l \in {"right", "lock"}
  /\ "validate" \notin Holding
  BY DEF Labels, Placed, Free, Holding, Splitting, Hidden, Keeping

(* Node numbers: the nodes in use, and those that others can see.          *)
LEMMA NodesInUse ==
  ASSUME ThreadInv
  PROVE  /\ nalloc \in Nat /\ nalloc \in NodeIds /\ nalloc >= 2 /\ MaxNodes \in Nat
         /\ \A n \in 1 .. nalloc : n \in NodeIds
         /\ Seen \subseteq 1 .. nalloc /\ Seen \subseteq NodeIds
  <1>1. nalloc \in NodeIds /\ nalloc >= 2 /\ MaxNodes \in Nat
    BY ConstantsAssumption, Zenon DEF ThreadInv
  <1>2. nalloc \in Nat /\ \A n \in 1 .. nalloc : n \in NodeIds
    BY <1>1 DEF NodeIds
  <1>3. Seen \subseteq 1 .. nalloc
    BY DEF Seen
  <1>4. QED
    BY <1>1, <1>2, <1>3, Zenon

-----------------------------------------------------------------------------
(***************************************************************************)
(* The initial list.                                                       *)
(***************************************************************************)
(* The nodes of a layout, by their place in it.                            *)
LEMMA LayoutNodes ==
  ASSUME NEW L, IsLayout(L), MaxNodes > Len(L), node = InitialNodes(L)
  PROVE  /\ Len(L) \in Nat /\ Len(L) >= 1
         /\ \A i \in 1 .. Len(L) : L[i].min \in Keys /\ L[i].entries \in Entries
         /\ \A i \in 1 .. Len(L) + 1 : LayoutId(L, i) \in 1 .. Len(L) + 1
         /\ \A n \in 1 .. Len(L) + 1 : \E i \in 1 .. Len(L) + 1 : LayoutId(L, i) = n
         /\ node[TailNode] =
              [Blank EXCEPT !.min = MaxKey, !.max = MaxKey,
                            !.prev = IF Len(L) = 1 THEN TailNode ELSE LayoutId(L, Len(L))]
         /\ \A i \in 1 .. Len(L) :
              /\ LayoutId(L, i) # TailNode
              /\ node[LayoutId(L, i)] =
                   [Blank EXCEPT !.min = L[i].min, !.max = LayoutMax(L, i),
                                 !.next = LayoutId(L, i + 1),
                                 !.prev = IF i = 1 THEN Null ELSE LayoutId(L, i - 1),
                                 !.entries = L[i].entries]
         /\ \A n \in NodeIds : n > Len(L) + 1 => node[n] = Blank
  <1>1. /\ L \in Seq([min : Keys, entries : Entries]) /\ Len(L) \in Nat /\ Len(L) >= 1
        /\ MaxNodes \in Nat
    BY ConstantsAssumption DEF IsLayout
  <1>2. \A i \in 1 .. Len(L) : L[i].min \in Keys /\ L[i].entries \in Entries
    <2> DEFINE S == [min : Keys, entries : Entries]
    <2>0. L \in Seq(S)
      BY <1>1
    <2> HIDE DEF S
    <2>1. \A i \in 1 .. Len(L) : L[i] \in S
      BY <2>0
    <2>2. QED
      BY <2>1 DEF S
  <1>3. \A i \in 1 .. Len(L) + 1 : LayoutId(L, i) \in 1 .. Len(L) + 1
    BY <1>1 DEF LayoutId, HeadNode, TailNode
  <1>4. ASSUME NEW n \in 1 .. Len(L) + 1
        PROVE  \E i \in 1 .. Len(L) + 1 : LayoutId(L, i) = n
    <2>1. CASE n = 1
      BY <1>1, <2>1 DEF LayoutId, HeadNode
    <2>2. CASE n = 2
      <3>1. Len(L) + 1 \in 1 .. Len(L) + 1 /\ LayoutId(L, Len(L) + 1) = n
        BY <1>1, <2>2 DEF LayoutId, TailNode
      <3>2. QED
        BY <3>1
    <2>3. CASE n > 2
      <3>1. n - 1 \in 1 .. Len(L) + 1 /\ LayoutId(L, n - 1) = n
        BY <1>1, <2>3 DEF LayoutId
      <3>2. QED
        BY <3>1
    <2>4. QED
      BY <1>1, <2>1, <2>2, <2>3
  <1>5. TailNode \in NodeIds /\ \A n \in 1 .. Len(L) + 1 : n \in NodeIds
    BY <1>1 DEF NodeIds, TailNode
  <1>6. node[TailNode] =
              [Blank EXCEPT !.min = MaxKey, !.max = MaxKey,
                            !.prev = IF Len(L) = 1 THEN TailNode ELSE LayoutId(L, Len(L))]
    BY <1>5, Zenon DEF InitialNodes
  <1>7. ASSUME NEW i \in 1 .. Len(L)
        PROVE  /\ LayoutId(L, i) # TailNode
               /\ node[LayoutId(L, i)] =
                   [Blank EXCEPT !.min = L[i].min, !.max = LayoutMax(L, i),
                                 !.next = LayoutId(L, i + 1),
                                 !.prev = IF i = 1 THEN Null ELSE LayoutId(L, i - 1),
                                 !.entries = L[i].entries]
    <2>1. /\ LayoutId(L, i) # TailNode /\ LayoutId(L, i) \in NodeIds /\ ~(i > Len(L))
          /\ (IF LayoutId(L, i) = HeadNode THEN 1 ELSE LayoutId(L, i) - 1) = i
      BY <1>1, <1>5, <1>3 DEF LayoutId, HeadNode, TailNode
    <2>2. QED
      BY <2>1, Zenon DEF InitialNodes
  <1>8. ASSUME NEW n \in NodeIds, n > Len(L) + 1 PROVE node[n] = Blank
    <2>1. /\ n # TailNode /\ n # HeadNode /\ n - 1 > Len(L)
      BY <1>1, <1>8 DEF NodeIds, HeadNode, TailNode
    <2>2. QED
      BY <2>1, Zenon DEF InitialNodes
  <1>9. QED
    BY <1>1, <1>2, <1>3, <1>4, <1>6, <1>7, <1>8, Zenon

(* Their fields.                                                           *)
LEMMA LayoutFields ==
  ASSUME NEW L, IsLayout(L), MaxNodes > Len(L), node = InitialNodes(L)
  PROVE  /\ node \in [NodeIds -> NodeType] /\ \A n \in NodeIds : ~node[n].locked
         /\ node[HeadNode].min = 0 /\ node[TailNode].min = MaxKey
         /\ node[TailNode].prev = IF Len(L) = 1 THEN TailNode ELSE LayoutId(L, Len(L))
         /\ \A i \in 1 .. Len(L) : LET n == LayoutId(L, i) IN
              /\ n # TailNode /\ node[n].min = L[i].min /\ node[n].min \in Keys
              /\ node[n].max = node[LayoutId(L, i + 1)].min /\ node[n].min < node[n].max
              /\ node[n].next = LayoutId(L, i + 1)
              /\ node[n].prev = IF i = 1 THEN Null ELSE LayoutId(L, i - 1)
              /\ \A k \in Present(node[n].entries) : CheckRange(n, k)
  <1>0. MaxKey \in Nat /\ 0 \in Keys /\ NoEntries \in Entries /\ MaxNodes \in Nat
    BY ConstantsAssumption DEF NoEntries, Entries
  <1>1. /\ Len(L) \in Nat /\ Len(L) >= 1
        /\ \A i \in 1 .. Len(L) : L[i].min \in Keys /\ L[i].entries \in Entries
        /\ \A i \in 1 .. Len(L) + 1 : LayoutId(L, i) \in 1 .. Len(L) + 1
        /\ \A n \in 1 .. Len(L) + 1 : \E i \in 1 .. Len(L) + 1 : LayoutId(L, i) = n
    BY LayoutNodes, Zenon
  <1>2. \A n \in 1 .. Len(L) + 1 : n \in NodeIds
    BY <1>0, <1>1 DEF NodeIds
  <1>3. /\ node[TailNode] \in NodeType /\ ~node[TailNode].locked /\ node[TailNode].min = MaxKey
        /\ node[TailNode].prev = IF Len(L) = 1 THEN TailNode ELSE LayoutId(L, Len(L))
    <2> DEFINE p == IF Len(L) = 1 THEN TailNode ELSE LayoutId(L, Len(L))
    <2>1. p \in NodeIds
      BY <1>0, <1>1, <1>2 DEF NodeIds, TailNode
    <2>2. node[TailNode] = [Blank EXCEPT !.min = MaxKey, !.max = MaxKey, !.prev = p]
      BY LayoutNodes, Zenon
    <2> HIDE DEF p
    <2>3. /\ node[TailNode] \in NodeType /\ ~node[TailNode].locked /\ node[TailNode].min = MaxKey
          /\ node[TailNode].prev = p
      BY <1>0, <2>1, <2>2, Zenon DEF Blank, NodeType
    <2>4. QED
      BY <2>3 DEF p
  <1>4. ASSUME NEW i \in 1 .. Len(L)
        PROVE  /\ node[LayoutId(L, i)] \in NodeType /\ ~node[LayoutId(L, i)].locked
               /\ node[LayoutId(L, i)].min = L[i].min /\ node[LayoutId(L, i)].max = LayoutMax(L, i)
               /\ node[LayoutId(L, i)].next = LayoutId(L, i + 1)
               /\ node[LayoutId(L, i)].prev = IF i = 1 THEN Null ELSE LayoutId(L, i - 1)
               /\ node[LayoutId(L, i)].entries = L[i].entries
               /\ LayoutId(L, i) # TailNode
    <2> DEFINE n == LayoutId(L, i)
               p == IF i = 1 THEN Null ELSE LayoutId(L, i - 1)
               q == LayoutId(L, i + 1)
               m == LayoutMax(L, i)
    <2>1. p \in NodeIds \cup {Null} /\ q \in NodeIds
      <3>1. i + 1 \in 1 .. Len(L) + 1 /\ (i # 1 => i - 1 \in 1 .. Len(L) + 1)
        BY <1>1
      <3>2. QED
        BY <1>1, <1>2, <3>1, Zenon
    <2>2. m \in Keys \cup {MaxKey}
      <3>1. i # Len(L) => i + 1 \in 1 .. Len(L)
        BY <1>1
      <3>2. QED
        BY <1>1, <3>1 DEF LayoutMax
    <2>3. n # TailNode /\ node[n] = [Blank EXCEPT !.min = L[i].min, !.max = m, !.next = q, !.prev = p,
                                    !.entries = L[i].entries]
      BY LayoutNodes, ZenonT(60)
    <2>4. L[i].min \in Keys /\ L[i].entries \in Entries
      BY <1>1
    <2> HIDE DEF n, p, q, m
    <2>5. /\ node[n] \in NodeType /\ ~node[n].locked /\ node[n].min = L[i].min /\ node[n].max = m
          /\ node[n].next = q /\ node[n].prev = p /\ node[n].entries = L[i].entries
      BY <1>0, <2>1, <2>2, <2>3, <2>4, Zenon DEF Blank, NodeType
    <2>6. QED
      BY <2>3, <2>5 DEF n, p, q, m
  <1>5. ASSUME NEW n \in NodeIds PROVE node[n] \in NodeType /\ ~node[n].locked
    <2>1. CASE n > Len(L) + 1
      <3>1. node[n] = Blank
        BY <2>1, LayoutNodes, Zenon
      <3>2. QED
        BY <1>0, <3>1 DEF Blank, NodeType
    <2>2. CASE n = TailNode
      BY <1>3, <2>2
    <2>3. CASE ~(n > Len(L) + 1) /\ n # TailNode
      <3>1. n \in 1 .. Len(L) + 1
        BY <1>0, <1>1, <2>3 DEF NodeIds
      <3>2. PICK i \in 1 .. Len(L) + 1 : LayoutId(L, i) = n
        BY <1>1, <3>1
      <3>3. i \in 1 .. Len(L)
        <4>1. i # Len(L) + 1
          BY <1>1, <2>3, <3>2 DEF LayoutId
        <4>2. QED
          BY <1>1, <4>1
      <3>4. QED
        BY <1>4, <3>2, <3>3
    <2>4. QED
      BY <2>1, <2>2, <2>3
  <1>6. node \in [NodeIds -> NodeType]
    BY <1>5, Zenon DEF InitialNodes
  <1>7. node[HeadNode].min = 0
    <2>1. LayoutId(L, 1) = HeadNode /\ 1 \in 1 .. Len(L) /\ L[1].min = 0
      BY <1>1 DEF LayoutId, IsLayout
    <2>2. QED
      BY <1>4, <2>1
  <1>8. ASSUME NEW i \in 1 .. Len(L)
        PROVE  LayoutMax(L, i) = node[LayoutId(L, i + 1)].min
    <2>1. CASE i = Len(L)
      <3>1. LayoutId(L, i + 1) = TailNode /\ LayoutMax(L, i) = MaxKey
        BY <1>1, <2>1 DEF LayoutId, LayoutMax
      <3>2. QED
        BY <1>3, <3>1
    <2>2. CASE i # Len(L)
      <3>1. i + 1 \in 1 .. Len(L) /\ LayoutMax(L, i) = L[i + 1].min
        BY <1>1, <2>2 DEF LayoutMax
      <3>2. QED
        BY <1>4, <3>1
    <2>3. QED
      BY <2>1, <2>2
  <1>9. ASSUME NEW i \in 1 .. Len(L)
        PROVE  /\ L[i].min < LayoutMax(L, i)
               /\ \A k \in Present(L[i].entries) : L[i].min <= k /\ k < LayoutMax(L, i)
    <2>1. i \in DOMAIN L
      BY DEF IsLayout
    <2>2. QED
      BY <2>1 DEF IsLayout, Present
  <1>10. QED
    BY <1>1, <1>3, <1>4, <1>5, <1>6, <1>7, <1>8, <1>9 DEF CheckRange

(* Every initial list, the one of initialize included, has the invariant.  *)
LEMMA InitDataInv ==
  ASSUME Init
  PROVE  DataInv
  <1>1. PICK s \in Scenarios : /\ node = InitialNodes(s.layout) /\ nalloc = Len(s.layout) + 1
                               /\ sl = InitialIndex(s.layout) /\ todo = s.program
    BY DEF Init
  <1> DEFINE L == s.layout
             N == Len(L)
  <1>2. IsLayout(L) /\ MaxNodes > N
    BY LayoutAssumption, ConstantsAssumption
  <1>3. /\ N \in Nat /\ N >= 1 /\ MaxNodes \in Nat
        /\ \A i \in 1 .. N : L[i].min \in Keys
        /\ \A i \in 1 .. N + 1 : LayoutId(L, i) \in 1 .. N + 1
        /\ \A n \in 1 .. N + 1 : \E i \in 1 .. N + 1 : LayoutId(L, i) = n
    BY <1>1, <1>2, LayoutNodes, ConstantsAssumption, Zenon
  <1>4. /\ node \in [NodeIds -> NodeType] /\ \A n \in NodeIds : ~node[n].locked
        /\ node[HeadNode].min = 0 /\ node[TailNode].min = MaxKey
        /\ node[TailNode].prev = IF N = 1 THEN TailNode ELSE LayoutId(L, N)
    BY <1>1, <1>2, LayoutFields, ZenonT(60)
  <1>5. \A i \in 1 .. N : LET n == LayoutId(L, i) IN
           /\ n # TailNode /\ node[n].min = L[i].min /\ node[n].min \in Keys
           /\ node[n].max = node[LayoutId(L, i + 1)].min /\ node[n].min < node[n].max
           /\ node[n].next = LayoutId(L, i + 1)
           /\ node[n].prev = IF i = 1 THEN Null ELSE LayoutId(L, i - 1)
           /\ \A k \in Present(node[n].entries) : CheckRange(n, k)
    BY <1>1, <1>2, LayoutFields
  <1>a. /\ nalloc = N + 1 /\ MaxNodes > N
        /\ \A i : LayoutId(L, i) = IF i = 1 THEN HeadNode ELSE IF i = N + 1 THEN TailNode ELSE i + 1
    BY <1>1, <1>2 DEF LayoutId
  <1>b. sl.numInserts = (N - 1) % CounterRange /\ sl = InitialIndex(L)
    BY <1>1 DEF InitialIndex
  <1> HIDE DEF L, N
  <1>6. /\ nalloc = N + 1 /\ nalloc \in NodeIds /\ nalloc >= 2
        /\ HeadNode \in 1 .. nalloc /\ TailNode \in 1 .. nalloc /\ MaxKey \in Nat
    BY <1>a, <1>3, ConstantsAssumption DEF NodeIds, HeadNode, TailNode
  <1>7. \A t \in Threads : pc[t] = "idle"
    BY DEF Init
  <1>8. Seen = 1 .. nalloc /\ Null \notin Seen
    <2>1. \A n : ~Private(n)
      BY <1>7 DEF Private
    <2>2. QED
      BY <1>6, <2>1 DEF Seen, Null, NodeIds
  <1>9. sl \in SL!Replica /\ \A k \in Keys : sl.idx[k] \in Seen \cup {Null}
    <2> DEFINE ix == [k \in Keys |-> IF \E i \in 2 .. N : L[i].min = k
                                       THEN LayoutId(L, CHOOSE i \in 2 .. N : L[i].min = k)
                                       ELSE Null]
               low == IF N = 1 THEN MaxKey ELSE L[2].min
               num == (N - 1) % CounterRange
    <2>1. sl = [idx |-> ix, curMin |-> low, numInserts |-> num]
      BY <1>b DEF InitialIndex, N
    <2>2. \A k \in Keys : ix[k] \in Seen \cup {Null}
      <3>1. ASSUME NEW k \in Keys, \E i \in 2 .. N : L[i].min = k
            PROVE  LayoutId(L, CHOOSE i \in 2 .. N : L[i].min = k) \in Seen
        <4> DEFINE i == CHOOSE j \in 2 .. N : L[j].min = k
        <4>1. i \in 2 .. N
          BY <3>1
        <4> HIDE DEF i
        <4>2. i \in 1 .. N + 1
          BY <1>3, <4>1
        <4>3. LayoutId(L, i) \in Seen
          BY <1>3, <1>6, <1>8, <4>2, Zenon
        <4>4. QED
          BY <4>3 DEF i
      <3>2. QED
        BY <3>1
    <2>3. ix \in [Keys -> NodeIds \cup {Null}]
      <3>1. Seen \subseteq NodeIds /\ ix = [k \in Keys |-> ix[k]]
        BY <1>3, <1>6, <1>8 DEF NodeIds
      <3> HIDE DEF ix
      <3>2. QED
        BY <2>2, <3>1
    <2>4. low \in Keys \cup {MaxKey}
      <3>1. N # 1 => 2 \in 1 .. N
        BY <1>3
      <3>2. QED
        BY <1>3, <3>1
    <2>5. num \in 0 .. CounterRange - 1
      <3>1. \A n \in Nat : (n - 1) % CounterRange \in 0 .. CounterRange - 1
        BY ConstantsAssumption
      <3>2. N \in Nat
        BY <1>3
      <3>3. QED
        BY <3>1, <3>2
    <2> HIDE DEF ix, low, num
    <2>6. QED
      BY <2>1, <2>2, <2>3, <2>4, <2>5 DEF SL!Replica
  <1>10. ThreadInv
    <2>1. /\ pc \in [Threads -> Labels] /\ start \in [Threads -> Seen] /\ cur \in [Threads -> Seen]
          /\ nbr \in [Threads -> NodeIds \cup {Null}]
          /\ fresh \in [Threads -> BOOLEAN]
          /\ res \in [Threads -> {"pending", "ok", "no"} \cup Vals]
          /\ aux \in [Threads -> NodeIds \cup {Null, NoVal} \cup Vals]
          /\ DOMAIN req = Threads /\ logged = {}
      BY <1>6, <1>8 DEF Init, Labels, Free
    <2>2. \A t \in Threads : pc[t] \notin Placed
      BY <1>7, LabelSets DEF Free
    <2>3. todo \in [Threads -> Seq(SUBSET Request)]
      BY <1>1, ProgramAssumption
    <2>4. QED
      BY <1>4, <1>6, <1>7, <1>9, <2>1, <2>2, <2>3, ZenonT(60) DEF ThreadInv
  <1>11. ListInv
    <2>1. ASSUME NEW i \in 1 .. N
          PROVE  Rightward(LayoutId(L, i)) /\ Leftward(LayoutId(L, i))
      <3> DEFINE n == LayoutId(L, i)
      <3>1. i + 1 \in 1 .. N + 1 /\ i \in 1 .. N + 1
        BY <1>3
      <3>2. /\ node[n].min \in Keys /\ node[n].min < node[n].max
            /\ node[n].next \in Seen /\ node[n].max = node[node[n].next].min
            /\ \A k \in Present(node[n].entries) : CheckRange(n, k)
        <4>1. /\ node[n].min \in Keys /\ node[n].min < node[n].max
              /\ node[n].next = LayoutId(L, i + 1) /\ node[n].max = node[LayoutId(L, i + 1)].min
              /\ \A k \in Present(node[n].entries) : CheckRange(n, k)
          BY <1>5
        <4>2. LayoutId(L, i + 1) \in Seen
          BY <1>3, <1>6, <1>8, <3>1, Zenon
        <4>3. QED
          BY <4>1, <4>2, Zenon
      <3>3. node[n].max <= node[node[n].next].min
        <4>1. n \in NodeIds
          BY <1>3, <1>6, <3>1 DEF NodeIds
        <4>2. node[n].max \in Keys \cup {MaxKey}
          BY <1>4, <4>1, Zenon DEF NodeType
        <4>3. node[n].max \in Nat
          BY <4>2, ConstantsAssumption, Zenon
        <4>4. QED
          BY <3>2, <4>3
      <3>4. Rightward(n)
        BY <3>2, <3>3 DEF Rightward
      <3>5. CASE i = 1
        <4>1. n = HeadNode /\ node[n].prev = Null
          BY <1>5, <1>a, <3>5, Zenon
        <4>2. QED
          BY <3>4, <4>1 DEF Leftward
      <3>6. CASE i # 1
        <4>1. i - 1 \in 1 .. N /\ i - 1 \in 1 .. N + 1 /\ (i - 1) + 1 = i
          BY <1>3, <3>6
        <4>2. node[n].prev = LayoutId(L, i - 1)
          BY <1>5, <3>6, Zenon
        <4>3. /\ node[LayoutId(L, i - 1)].min < node[LayoutId(L, i - 1)].max
              /\ node[LayoutId(L, i - 1)].max = node[n].min
          BY <1>5, <4>1
        <4>4. LayoutId(L, i - 1) \in Seen
          BY <1>3, <1>6, <1>8, <4>1, Zenon
        <4>5. QED
          BY <1>8, <3>4, <4>2, <4>3, <4>4 DEF Leftward
      <3>7. QED
        BY <3>5, <3>6
    <2>2. Rightward(TailNode) /\ Leftward(TailNode)
      <3>1. CASE N = 1
        BY <1>4, <1>6, <1>8, <3>1 DEF Rightward, Leftward
      <3>2. CASE N # 1
        <4>1. N \in 1 .. N /\ N \in 1 .. N + 1 /\ LayoutId(L, N + 1) = TailNode
          BY <1>3, <1>a
        <4>2. LayoutId(L, N) \in Seen /\ node[TailNode].prev = LayoutId(L, N)
          BY <1>3, <1>4, <1>6, <1>8, <3>2, <4>1, Zenon
        <4>3. node[LayoutId(L, N)].min < node[TailNode].min
          BY <1>5, <4>1
        <4>4. QED
          BY <1>8, <4>2, <4>3 DEF Rightward, Leftward
      <3>3. QED
        BY <3>1, <3>2
    <2>3. ASSUME NEW n \in 1 .. nalloc PROVE Rightward(n) /\ Leftward(n)
      <3>1. PICK i \in 1 .. N + 1 : LayoutId(L, i) = n
        BY <1>3, <1>6
      <3>2. CASE i = N + 1
        <4>1. n = TailNode
          BY <1>3, <1>a, <3>1, <3>2 DEF HeadNode, TailNode
        <4>2. QED
          BY <2>2, <4>1
      <3>3. CASE i # N + 1
        <4>1. i \in 1 .. N
          BY <1>3, <3>3
        <4>2. QED
          BY <2>1, <3>1, <4>1
      <3>4. QED
        BY <3>2, <3>3
    <2>4. QED
      BY <1>4, <2>3 DEF ListInv
  <1>12. LockInv /\ SplitInv
    <2>1. \A t \in Threads : pc[t] \notin Holding /\ pc[t] \notin Splitting /\ pc[t] \notin Hidden
      BY <1>7, LabelSets DEF Free
    <2>2. LockInv
      BY <1>4, <2>1 DEF LockInv
    <2>3. SplitInv
      BY <1>7, <2>1 DEF SplitInv, SplitOf
    <2>4. QED
      BY <2>2, <2>3
  <1>13. QED
    BY <1>10, <1>11, <1>12 DEF DataInv

-----------------------------------------------------------------------------
(***************************************************************************)
(* What most steps have in common: one thread moves, and no link, minimum  *)
(* or maximum changes.                                                     *)
(***************************************************************************)
Others(t) ==
    \A u \in Threads \ {t} :
        /\ pc'[u] = pc[u] /\ cur'[u] = cur[u] /\ start'[u] = start[u]
        /\ nbr'[u] = nbr[u] /\ aux'[u] = aux[u] /\ req'[u] = req[u]

SameLinks ==
    /\ nalloc' = nalloc
    /\ \A n \in NodeIds :
          /\ node'[n].min = node[n].min /\ node'[n].max = node[n].max
          /\ node'[n].next = node[n].next /\ node'[n].prev = node[n].prev

InRange ==
    \A n \in 1 .. nalloc \ {TailNode} : \A k \in Present(node'[n].entries) : CheckRange(n, k)

SameLocks == \A n \in NodeIds : node'[n].locked = node[n].locked

(* A step that leaves nodes and positions alone leaves the list alone.     *)
LEMMA ListSame ==
  ASSUME UNCHANGED <<node, nalloc, pc, cur, nbr, aux>>
  PROVE  /\ Seen' = Seen
         /\ (ListInv' <=> ListInv) /\ (LockInv' <=> LockInv) /\ (SplitInv' <=> SplitInv)
  <1>1. Seen' = Seen
    BY DEF Seen, Private
  <1>2. \A n : (Rightward(n)' <=> Rightward(n)) /\ (Leftward(n)' <=> Leftward(n))
    BY <1>1 DEF Rightward, Leftward, CheckRange
  <1>3. \A t : SplitOf(t)' <=> SplitOf(t)
    BY <1>1 DEF SplitOf
  <1>4. (ListInv' <=> ListInv) /\ (SplitInv' <=> SplitInv)
    BY <1>2, <1>3 DEF ListInv, SplitInv
  <1>5. LockInv' <=> LockInv
    BY DEF LockInv
  <1>6. QED
    BY <1>1, <1>4, <1>5

(* Entries that do not change stay in range.                               *)
LEMMA RangeKept ==
  ASSUME ListInv, UNCHANGED node
  PROVE  InRange
  BY DEF ListInv, Rightward, InRange

(* No node appears unless a thread begins or ends hiding one.              *)
LEMMA SeenKept ==
  ASSUME NEW t \in Threads, Others(t), nalloc' = nalloc,
         pc[t] \notin Hidden, pc'[t] \notin Hidden
  PROVE  Seen' = Seen
  <1>1. ASSUME NEW n PROVE Private(n)' <=> Private(n)
    BY Zenon DEF Private, Others, Hidden
  <1>2. QED
    BY <1>1 DEF Seen

(* A node whose links do not change.                                       *)
LEMMA RightKept ==
  ASSUME ListInv, NEW t \in Threads, Others(t), Seen \subseteq Seen',
         NEW n \in 1 .. nalloc, \A i \in 1 .. nalloc : node'[i].min = node[i].min,
         node'[n].max = node[n].max, node'[n].next = node[n].next,
         n # TailNode => \A k \in Present(node'[n].entries) : CheckRange(n, k),
         pc[t] = "splitlink" => cur[t] # n
  PROVE  Rightward(n)'
  <1> SUFFICES ASSUME n # TailNode
               PROVE  /\ node'[n].min \in Keys /\ node'[n].min < node'[n].max
                      /\ node'[n].next \in Seen' /\ node'[n].max <= node'[node'[n].next].min
                      /\ \A k \in Present(node'[n].entries) : CheckRange(n, k)'
                      /\ \/ node'[n].max = node'[node'[n].next].min
                         \/ \E u \in Threads : pc'[u] = "splitlink" /\ cur'[u] = n
    BY Zenon DEF Rightward
  <1>1. Rightward(n)
    BY DEF ListInv
  <1>2. /\ node[n].min \in Keys /\ node[n].min < node[n].max
        /\ node[n].next \in Seen /\ node[n].max <= node[node[n].next].min
    BY <1>1 DEF Rightward
  <1>3. node'[node[n].next].min = node[node[n].next].min
    BY <1>2 DEF Seen
  <1>4. \A k \in Present(node'[n].entries) : CheckRange(n, k)'
    BY DEF CheckRange
  <1>5. ASSUME NEW u \in Threads, pc[u] = "splitlink", cur[u] = n
        PROVE  pc'[u] = "splitlink" /\ cur'[u] = n
    BY <1>5 DEF Others
  <1>6. QED
    BY <1>1, <1>2, <1>3, <1>4, <1>5, ZenonT(60) DEF Rightward

(* A node keeps pointing left when its prev and the minima are kept.       *)
LEMMA LeftKept ==
  ASSUME ListInv, Seen \subseteq Seen', NEW n \in 1 .. nalloc,
         \A i \in 1 .. nalloc : node'[i].min = node[i].min, node'[n].prev = node[n].prev
  PROVE  Leftward(n)'
  <1>1. Leftward(n)
    BY DEF ListInv
  <1>2. node[n].prev \in Seen => node'[node[n].prev].min = node[node[n].prev].min
    BY DEF Seen
  <1>3. QED
    BY <1>1, <1>2 DEF Leftward

(* The list keeps its shape.                                               *)
LEMMA ListKept ==
  ASSUME ThreadInv, ListInv, NEW t \in Threads, Others(t), SameLinks, InRange,
         pc[t] \notin Hidden, pc'[t] \notin Hidden
  PROVE  ListInv'
  <1>0. nalloc' = nalloc /\ nalloc \in NodeIds /\ nalloc >= 2 /\ MaxNodes \in Nat
    BY ConstantsAssumption, Zenon DEF SameLinks, ThreadInv
  <1>1. Seen' = Seen
    BY <1>0, SeenKept
  <1>2. \A n \in 1 .. nalloc : n \in NodeIds
    BY <1>0 DEF NodeIds
  <1>3. HeadNode \in NodeIds /\ TailNode \in NodeIds
    BY <1>0 DEF HeadNode, TailNode, NodeIds
  <1>4. node'[HeadNode].min = 0 /\ node'[TailNode].min = MaxKey
    BY <1>3 DEF ListInv, SameLinks
  <1>5. pc[t] # "splitlink"
    BY DEF Hidden
  <1>6. ASSUME NEW n \in 1 .. nalloc PROVE Rightward(n)' /\ Leftward(n)'
    <2>1. \A i \in 1 .. nalloc : node'[i].min = node[i].min
      BY <1>2 DEF SameLinks
    <2>2. node'[n].max = node[n].max /\ node'[n].next = node[n].next /\ node'[n].prev = node[n].prev
      BY <1>2 DEF SameLinks
    <2>3. n # TailNode => \A k \in Present(node'[n].entries) : CheckRange(n, k)
      BY DEF InRange
    <2>4. QED
      BY <1>1, <1>5, <2>1, <2>2, <2>3, RightKept, LeftKept
  <1>7. QED
    BY <1>0, <1>4, <1>6 DEF ListInv

(* The locks keep their holders.                                           *)
LEMMA LockKept ==
  ASSUME ThreadInv, LockInv, NEW t \in Threads, Others(t), SameLocks,
         pc'[t] \in Holding <=> pc[t] \in Holding, pc[t] \in Holding => cur'[t] = cur[t]
  PROVE  LockInv'
  <1>1. \A u \in Threads : /\ pc'[u] \in Holding <=> pc[u] \in Holding
                           /\ pc[u] \in Holding => cur'[u] = cur[u]
    BY Zenon DEF Others
  <1>2. \A u \in Threads : cur[u] \in NodeIds
    BY NodesInUse, Zenon DEF ThreadInv
  <1>3. \A u \in Threads : pc'[u] \in Holding => node'[cur'[u]].locked
    BY <1>1, <1>2, ZenonT(60) DEF LockInv, SameLocks
  <1>4. \A u, v \in Threads :
          u # v /\ pc'[u] \in Holding /\ pc'[v] \in Holding => cur'[u] # cur'[v]
    BY <1>1 DEF LockInv
  <1>5. ASSUME NEW n \in NodeIds, node'[n].locked
        PROVE  \E u \in Threads : pc'[u] \in Holding /\ cur'[u] = n
    BY <1>1, <1>5, ZenonT(60) DEF LockInv, SameLocks
  <1>6. QED
    BY <1>3, <1>4, <1>5 DEF LockInv

(* The splits of other threads are not disturbed.                          *)
Apart(t) ==
    \A u \in Threads \ {t} : pc[u] \in Splitting =>
        /\ node'[cur[u]].max = node[cur[u]].max
        /\ node'[cur[u]].entries = node[cur[u]].entries

(* A thread's step leaves the splits of the others as they are.            *)
LEMMA SplitOthers ==
  ASSUME ThreadInv, SplitInv, NEW t \in Threads, Others(t), Apart(t), SplitOf(t)',
         nalloc' \in Nat, nalloc <= nalloc', Seen \subseteq Seen',
         \A n \in 1 .. nalloc : node'[n].min = node[n].min,
         \A u \in Threads \ {t} :
            pc'[t] \in Hidden /\ pc[u] \in Hidden => nbr'[t] # nbr[u]
  PROVE  SplitInv'
  <1>1. ASSUME NEW u \in Threads, u # t PROVE SplitOf(u)'
    <2>1. pc'[u] = pc[u] /\ cur'[u] = cur[u] /\ nbr'[u] = nbr[u] /\ aux'[u] = aux[u]
      BY <1>1, Zenon DEF Others
    <2>2. SplitOf(u) /\ nalloc \in Nat
      BY NodesInUse, ZenonT(60) DEF SplitInv
    <2>3. node'[cur[u]].min = node[cur[u]].min
      BY DEF ThreadInv, Seen
    <2>4. pc[u] \in Splitting =>
            /\ nbr[u] \in 1 .. nalloc' \ {HeadNode, TailNode}
            /\ node'[nbr[u]].min = node[nbr[u]].min
      <3>1. pc[u] \in Splitting => nbr[u] \in 1 .. nalloc \ {HeadNode, TailNode}
        BY <2>2, ZenonT(60) DEF SplitOf
      <3>2. \A n \in 1 .. nalloc : n \in 1 .. nalloc'
        BY <2>2
      <3>3. QED
        BY <3>1, <3>2, Zenon
    <2>5. pc[u] = "splitprev" => aux[u] \in Seen' /\ node'[aux[u]].min = node[aux[u]].min
      BY <2>2, ZenonT(60) DEF SplitOf, Seen
    <2>6. pc[u] \in Splitting => /\ node'[cur[u]].max = node[cur[u]].max
                                 /\ node'[cur[u]].entries = node[cur[u]].entries
      BY <1>1 DEF Apart
    <2>7. {"splitmax", "splitlink", "splitprev"} \subseteq Splitting
      BY DEF Splitting, Hidden
    <2>8. QED
      BY <2>1, <2>2, <2>3, <2>4, <2>5, <2>6, <2>7, ZenonT(60) DEF SplitOf
  <1>2. \A u, v \in Threads :
          u # v /\ pc'[u] \in Hidden /\ pc'[v] \in Hidden => nbr'[u] # nbr'[v]
    BY DEF SplitInv, Others
  <1>3. QED
    BY <1>1, <1>2 DEF SplitInv

(* A thread outside a split is one that splits nothing.                    *)
LEMMA SplitKept ==
  ASSUME ThreadInv, SplitInv, NEW t \in Threads, Others(t), Apart(t), SameLinks,
         pc[t] \notin Hidden, pc'[t] \notin Splitting
  PROVE  SplitInv'
  <1>0. nalloc' = nalloc /\ nalloc \in Nat /\ \A n \in 1 .. nalloc : n \in NodeIds
    BY NodesInUse DEF SameLinks
  <1>1. Seen' = Seen
    BY <1>0, SeenKept DEF Splitting
  <1>2. SplitOf(t)' /\ pc'[t] \notin Hidden
    BY Zenon DEF SplitOf, Splitting, Hidden
  <1>3. \A n \in 1 .. nalloc : node'[n].min = node[n].min
    BY <1>0 DEF SameLinks
  <1>4. nalloc' \in Nat /\ nalloc <= nalloc' /\ Seen \subseteq Seen'
    BY <1>0, <1>1
  <1>5. QED
    BY <1>2, <1>3, <1>4, SplitOthers, Zenon

-----------------------------------------------------------------------------
(***************************************************************************)
(* The move of one thread.                                                 *)
(***************************************************************************)
(* A thread goes to step l, with s, c, m and a in its variables.           *)
Moves(t, l, s, c, m, a) ==
    /\ pc' = [pc EXCEPT ![t] = l]
    /\ start' = [start EXCEPT ![t] = s] /\ cur' = [cur EXCEPT ![t] = c]
    /\ nbr' = [nbr EXCEPT ![t] = m] /\ aux' = [aux EXCEPT ![t] = a]

Rest(t) ==
    /\ todo' \in [Threads -> Seq(SUBSET Request)]
    /\ fresh' \in [Threads -> BOOLEAN]
    /\ res' \in [Threads -> {"pending", "ok", "no"} \cup Vals]
    /\ DOMAIN req' = Threads /\ \A u \in Threads \ {t} : req'[u] = req[u]
    /\ pc'[t] # "idle" => req'[t] \in Request

(* A variable that does not change moves to where it is.                   *)
LEMMA Unmoved ==
  ASSUME ThreadInv, NEW t \in Threads
  PROVE  /\ pc = [pc EXCEPT ![t] = pc[t]]
         /\ start = [start EXCEPT ![t] = start[t]] /\ start[t] \in Seen
         /\ cur = [cur EXCEPT ![t] = cur[t]] /\ cur[t] \in Seen
         /\ nbr = [nbr EXCEPT ![t] = nbr[t]] /\ nbr[t] \in NodeIds \cup {Null}
         /\ aux = [aux EXCEPT ![t] = aux[t]] /\ aux[t] \in NodeIds \cup {Null, NoVal} \cup Vals
  BY DEF ThreadInv

(* Calls, version flags and results keep their types.                      *)
LEMMA RestKept ==
  ASSUME ThreadInv, NEW t \in Threads, pc[t] # "idle", UNCHANGED <<todo, req>>,
         fresh' \in [Threads -> BOOLEAN], res' \in [Threads -> {"pending", "ok", "no"} \cup Vals]
  PROVE  Rest(t)
  BY ZenonT(60) DEF ThreadInv, Rest

(* What a move of one thread does to its variables, and to no other.       *)
LEMMA OneMoves ==
  ASSUME ThreadInv, NEW t \in Threads, NEW l, NEW s, NEW c, NEW m, NEW a,
         Moves(t, l, s, c, m, a), Rest(t)
  PROVE  Others(t) /\ pc'[t] = l /\ cur'[t] = c /\ nbr'[t] = m /\ aux'[t] = a
  BY DEF Moves, ThreadInv, Others, Rest

(* A move to a label, with what that label asks for, keeps ThreadInv.      *)
LEMMA MoveThread ==
  ASSUME ThreadInv, NEW t \in Threads, NEW l \in Labels,
         NEW s \in Seen', NEW c \in Seen', NEW m \in NodeIds \cup {Null},
         NEW a \in NodeIds \cup {Null, NoVal} \cup Vals,
         Moves(t, l, s, c, m, a), Rest(t), Seen \subseteq Seen',
         nalloc' \in NodeIds, nalloc' >= 2, node' \in [NodeIds -> NodeType],
         sl' = sl, logged' \subseteq [op : {"insert", "remove"}, node : Seen'],
         l \in Placed => c # TailNode, l = "validate" => a \in Vals \cup {NoVal}
  PROVE  ThreadInv'
  <1>1. /\ pc \in [Threads -> Labels] /\ start \in [Threads -> Seen] /\ cur \in [Threads -> Seen]
        /\ nbr \in [Threads -> NodeIds \cup {Null}]
        /\ aux \in [Threads -> NodeIds \cup {Null, NoVal} \cup Vals]
    BY Zenon DEF ThreadInv
  <1>2. /\ pc' \in [Threads -> Labels] /\ start' \in [Threads -> Seen'] /\ cur' \in [Threads -> Seen']
        /\ nbr' \in [Threads -> NodeIds \cup {Null}]
        /\ aux' \in [Threads -> NodeIds \cup {Null, NoVal} \cup Vals]
    BY <1>1 DEF Moves
  <1>3. Others(t) /\ pc'[t] = l /\ cur'[t] = c /\ nbr'[t] = m /\ aux'[t] = a
    BY OneMoves, Zenon
  <1>4. /\ \A u \in Threads : pc'[u] # "idle" => req'[u] \in Request
        /\ \A u \in Threads : pc'[u] \in Placed => cur'[u] # TailNode
        /\ \A u \in Threads : pc'[u] = "validate" => aux'[u] \in Vals \cup {NoVal}
    BY <1>3, Zenon DEF ThreadInv, Others, Rest
  <1>5. sl' \in SL!Replica /\ \A k \in Keys : sl'.idx[k] \in Seen' \cup {Null}
    BY DEF ThreadInv
  <1>6. QED
    BY <1>2, <1>3, <1>4, <1>5, Zenon DEF ThreadInv, Rest

(* A thread that goes on with the node it is at.                           *)
LEMMA MoveAtNode ==
  ASSUME ThreadInv, NEW t \in Threads, pc[t] \in Placed, NEW l \in Holding,
         NEW m \in NodeIds \cup {Null}, NEW a \in NodeIds \cup {Null, NoVal} \cup Vals,
         Moves(t, l, start[t], cur[t], m, a), Rest(t), Seen \subseteq Seen',
         nalloc' \in NodeIds, nalloc' >= 2, node' \in [NodeIds -> NodeType],
         UNCHANGED <<sl, logged>>
  PROVE  ThreadInv'
  <1>1. start[t] \in Seen' /\ cur[t] \in Seen' /\ cur[t] # TailNode
    BY Zenon DEF ThreadInv
  <1>2. logged' \subseteq [op : {"insert", "remove"}, node : Seen']
    BY ZenonT(60) DEF ThreadInv
  <1>3. l \in Labels /\ l # "validate"
    BY LabelSets
  <1>4. QED
    BY <1>1, <1>2, <1>3, MoveThread, ZenonT(60)

-----------------------------------------------------------------------------
(***************************************************************************)
(* Steps that leave the list and its locks alone.                          *)
(***************************************************************************)
LEMMA QuietMove ==
  ASSUME DataInv, NEW t \in Threads, NEW l, NEW s \in Seen, NEW c \in Seen,
         NEW m \in NodeIds \cup {Null}, NEW a \in NodeIds \cup {Null, NoVal} \cup Vals,
         Moves(t, l, s, c, m, a), Rest(t), sl' = sl,
         node' \in [NodeIds -> NodeType], SameLinks, SameLocks, InRange, Apart(t),
         logged' \subseteq [op : {"insert", "remove"}, node : Seen],
         \/ /\ pc[t] \in Free /\ l \in Free
            /\ l \in {"right", "lock"} => c # TailNode
            /\ l = "validate" => a \in Vals \cup {NoVal}
         \/ pc[t] \in Holding \ Hidden /\ l \in Keeping /\ c = cur[t]
  PROVE  DataInv'
  <1>0. ThreadInv /\ ListInv /\ LockInv /\ SplitInv
    BY ZenonT(60) DEF DataInv
  <1>1. /\ l \in Labels /\ l \notin Splitting /\ pc[t] \notin Hidden /\ l \notin Hidden
        /\ l \in Holding <=> pc[t] \in Holding
        /\ pc[t] \in Holding => c = cur[t]
    BY LabelSets
  <1>2. l \in Placed => c # TailNode
    BY <1>0, LabelSets, Zenon DEF ThreadInv
  <1>3. l = "validate" => a \in Vals \cup {NoVal}
    BY LabelSets, ZenonT(60)
  <1>4. pc'[t] = l /\ cur'[t] = c /\ Others(t)
    BY <1>0, OneMoves
  <1>5. nalloc' = nalloc
    BY Zenon DEF SameLinks
  <1>6. Seen' = Seen
    BY <1>1, <1>4, <1>5, SeenKept, Zenon
  <1>7. nalloc' \in NodeIds /\ nalloc' >= 2
    BY <1>0, <1>5, Zenon DEF ThreadInv
  <1>8. ThreadInv'
    BY <1>0, <1>1, <1>2, <1>3, <1>6, <1>7, MoveThread, Zenon
  <1>9. ListInv' /\ LockInv' /\ SplitInv'
    BY <1>0, <1>1, <1>4, ListKept, LockKept, SplitKept, ZenonT(60)
  <1>10. QED
    BY <1>8, <1>9, ZenonT(60) DEF DataInv

(* A step that does not write to the list.                                 *)
LEMMA NoWrite ==
  ASSUME DataInv, NEW t \in Threads, UNCHANGED <<node, nalloc>>
  PROVE  node' \in [NodeIds -> NodeType] /\ SameLinks /\ SameLocks /\ InRange /\ Apart(t)
  BY RangeKept DEF DataInv, ThreadInv, SameLinks, SameLocks, Apart

(* The node a thread is at.                                                *)
LEMMA CurType ==
  ASSUME ThreadInv, NEW t \in Threads
  PROVE  /\ cur[t] \in Seen /\ cur[t] \in 1 .. nalloc /\ cur[t] \in NodeIds
         /\ node[cur[t]] \in NodeType /\ node[cur[t]].entries \in Entries
  <1>1. cur[t] \in Seen /\ cur[t] \in 1 .. nalloc /\ cur[t] \in NodeIds
    BY NodesInUse, Zenon DEF ThreadInv
  <1>2. node[cur[t]] \in NodeType
    BY <1>1 DEF ThreadInv
  <1>3. QED
    BY <1>1, <1>2, ZenonT(60) DEF NodeType

(* Where a restart takes a thread.                                         *)
LEMMA RestartSeen ==
  ASSUME DataInv, NEW t \in Threads, Restart(t)
  PROVE  \E s \in Seen : /\ start' = [start EXCEPT ![t] = s] /\ cur' = [cur EXCEPT ![t] = s]
                         /\ fresh' = [fresh EXCEPT ![t] = FALSE]
                         /\ pc' = [pc EXCEPT ![t] = "walk"]
  <1>1. start[t] \in Seen /\ start[t] \in 1 .. nalloc
    BY DEF DataInv, ThreadInv, Seen
  <1>2. node[start[t]].prev \in Seen \cup {Null}
    BY <1>1, Zenon DEF DataInv, ListInv, Leftward
  <1>3. QED
    BY <1>1, <1>2, Zenon DEF Restart, Goto

(* The search layer gives nodes that can be seen.                          *)
LEMMA JumpSeen ==
  ASSUME ThreadInv, NEW k \in Keys, NEW n \in SL!SLLookup(sl, k), n # Null
  PROVE  n \in Seen
  <1>1. \A j \in Keys : sl.idx[j] \in Seen \cup {Null}
    BY DEF ThreadInv
  <1>2. \A j \in SL!Present(sl) : j \in Keys
    BY DEF SL!Present
  <1>3. n \in {sl.idx[j] : j \in SL!Present(sl)}
    BY DEF SL!SLLookup, SL!Floor, SL!Ceiling
  <1>4. QED
    BY <1>1, <1>2, <1>3, ZenonT(60)

(* The head can always be seen.                                            *)
LEMMA HeadSeen ==
  ASSUME ThreadInv, SplitInv
  PROVE  HeadNode \in Seen /\ TailNode \in Seen
  <1>1. nalloc \in Nat /\ nalloc >= 2
    BY NodesInUse
  <1>2. \A t \in Threads : pc[t] \in Hidden => nbr[t] # HeadNode /\ nbr[t] # TailNode
    BY DEF SplitInv, SplitOf, Splitting
  <1>3. QED
    BY <1>1, <1>2 DEF Seen, Private, Hidden, HeadNode, TailNode

(* A thread finds its way to the node of its key.                          *)
LEMMA SearchStep ==
  ASSUME DataInv, NEW t \in Threads,
         Call(t) \/ GetJumpNode(t) \/ SearchTree(t) \/ Walk(t) \/ WalkRight(t)
  PROVE  DataInv'
  <1> DEFINE c == cur[t]
             Ends(l, j, d) == Moves(t, l, j, d, nbr[t], aux[t])
  <1>0. ThreadInv /\ ListInv /\ HeadNode \in Seen /\ TailNode \in Seen
    BY HeadSeen DEF DataInv
  <1>1. /\ UNCHANGED <<node, nalloc, nbr, aux, fresh, sl, logged>>
        /\ pc[t] \in {"idle", "jump", "search", "walk", "right"}
    BY Zenon DEF Call, GetJumpNode, SearchTree, Walk, WalkRight, local
  <1>2. Key(t) \in Keys \/ pc[t] = "idle"
    BY <1>0, Zenon DEF ThreadInv, Request, Key
  <1>3. \E l \in Free \ {"validate"}, j \in Seen, d \in Seen :
           Ends(l, j, d) /\ (l \in {"right", "lock"} => d # TailNode)
    <2>1. CASE Call(t)
      <3>1. Ends("jump", start[t], c)
        BY <1>0, <2>1, Unmoved, Zenon DEF Call, Goto, local, Moves
      <3>2. QED
        BY <1>0, <3>1, Unmoved DEF Free
    <2>2. CASE GetJumpNode(t)
      <3>1. Ends("walk", HeadNode, HeadNode) \/ Ends("search", start[t], c)
        BY <1>0, <2>2, Unmoved, Zenon DEF GetJumpNode, Goto, Moves
      <3>2. QED
        BY <1>0, <3>1, Unmoved DEF Free
    <2>3. CASE SearchTree(t)
      <3>1. \E j \in Seen : start' = [start EXCEPT ![t] = j] /\ cur' = [cur EXCEPT ![t] = j]
        BY <1>0, <1>2, <2>3, JumpSeen, Zenon DEF SearchTree
      <3>2. \E j \in Seen : Ends("walk", j, j)
        BY <1>0, <2>3, <3>1, Unmoved, Zenon DEF SearchTree, Goto, Moves
      <3>3. QED
        BY <3>2 DEF Free
    <2>4. CASE Walk(t)
      <3>1. Key(t) \in Nat /\ Key(t) < MaxKey /\ MaxKey \in Nat
        BY <1>2, <2>4, ConstantsAssumption, Zenon DEF Walk
      <3>2. c \in 1 .. nalloc
        BY <1>0, CurType, Zenon
      <3>3. CASE node[c].min > Key(t)
        <4>1. c # HeadNode
          BY <1>0, <3>1, <3>3 DEF ListInv
        <4>2. node[c].prev \in Seen
          BY <1>0, <3>2, <4>1, Zenon DEF ListInv, Leftward
        <4>3. ~(node[c].min <= Key(t))
          <5>1. node[c].min \in Keys \cup {MaxKey}
            BY <1>0, CurType, Zenon DEF NodeType
          <5>2. node[c].min \in Nat
            BY <5>1, ConstantsAssumption, Zenon
          <5>3. QED
            BY <3>1, <3>3, <5>2
        <4>4. Ends("walk", start[t], node[c].prev)
          BY <1>0, <2>4, <4>3, Unmoved, Zenon DEF Walk, Moves
        <4>5. QED
          BY <1>0, <4>2, <4>4, Unmoved DEF Free
      <3>4. CASE node[c].min <= Key(t) /\ ~(node[c].min > Key(t))
        <4>1. c # TailNode
          BY <1>0, <3>1, <3>4 DEF ListInv
        <4>2. Ends("lock", start[t], c) \/ Ends("right", start[t], c)
          BY <1>0, <2>4, <3>4, Unmoved, Zenon DEF Walk, Goto, Moves
        <4>3. QED
          BY <1>0, <4>1, <4>2, Unmoved, Zenon DEF Free
      <3>5. QED
        BY <2>4, <3>3, <3>4, Zenon DEF Walk
    <2>5. CASE WalkRight(t)
      <3>1. c \in 1 .. nalloc /\ c # TailNode
        BY <1>0, <2>5, CurType, Zenon DEF WalkRight, ThreadInv, Placed
      <3>2. node[c].next \in Seen
        BY <1>0, <3>1, Zenon DEF ListInv, Rightward
      <3>3. Ends("walk", start[t], node[c].next)
        BY <1>0, <2>5, Unmoved DEF WalkRight, Goto, Moves
      <3>4. QED
        BY <1>0, <3>2, <3>3, Unmoved DEF Free
    <2>6. QED
      BY <2>1, <2>2, <2>3, <2>4, <2>5, Zenon
  <1>4. Rest(t)
    <2>1. CASE Call(t)
      <3>1. todo[t] \in Seq(SUBSET Request) /\ todo[t] # << >>
        BY <1>0, <2>1, Zenon DEF ThreadInv, Call
      <3>2. Head(todo[t]) \in SUBSET Request /\ Tail(todo[t]) \in Seq(SUBSET Request)
        BY <3>1
      <3>3. \E r \in Request : req' = [req EXCEPT ![t] = r]
        BY <2>1, <3>2, Zenon DEF Call
      <3>4. QED
        BY <1>0, <1>1, <2>1, <3>2, <3>3, Zenon DEF Call, ThreadInv, Rest
    <2>2. CASE pc[t] # "idle"
      <3>1. UNCHANGED <<todo, req, res>>
        BY <2>2, Zenon DEF Call, GetJumpNode, SearchTree, Walk, WalkRight
      <3>2. fresh \in [Threads -> BOOLEAN] /\ res \in [Threads -> {"pending", "ok", "no"} \cup Vals]
        BY <1>0, Zenon DEF ThreadInv
      <3>3. QED
        BY <1>0, <1>1, <2>2, <3>1, <3>2, RestKept
    <2>3. QED
      BY <2>1, <2>2, Zenon DEF GetJumpNode, SearchTree, Walk, WalkRight
  <1>5. pc[t] \in Free /\ logged' \subseteq [op : {"insert", "remove"}, node : Seen]
    BY <1>0, <1>1, Zenon DEF Free, ThreadInv
  <1>6. QED
    <2>1. nbr[t] \in NodeIds \cup {Null} /\ aux[t] \in NodeIds \cup {Null, NoVal} \cup Vals
      BY <1>0, Unmoved
    <2>2. QED
      BY <1>1, <1>3, <1>4, <1>5, <2>1, NoWrite, QuietMove, Zenon

(* A lock that is not obtained, and the steps of a lookup at its node.     *)
LEMMA ReadStep ==
  ASSUME DataInv, NEW t \in Threads,
         WriteLockFails(t) \/ ReadLock(t) \/ Read(t) \/ ReadUnlock(t) \/ LookupReturn(t)
  PROVE  DataInv'
  <1> DEFINE Answers == NodeIds \cup {Null, NoVal} \cup Vals
             Results == {"pending", "ok", "no"} \cup Vals
             Ends(l, j, d, a) == Moves(t, l, j, d, nbr[t], a)
  <1>0. ThreadInv /\ HeadNode \in Seen
    BY HeadSeen DEF DataInv
  <1>1. /\ UNCHANGED <<node, nalloc, todo, req, nbr, sl, logged>>
        /\ pc[t] \in {"lock", "read", "validate", "return"}
    BY Zenon DEF WriteLockFails, ReadLock, Read, ReadUnlock, LookupReturn
  <1>2. ASSUME NEW a \in Answers, Restart(t), aux' = [aux EXCEPT ![t] = a]
        PROVE  \E j \in Seen : Ends("walk", j, j, a)
    BY <1>0, <1>1, <1>2, RestartSeen, Unmoved DEF Moves
  <1>3. /\ \E l \in Free, j \in Seen, d \in Seen, a \in Answers :
              /\ Ends(l, j, d, a) /\ l \notin {"right", "lock"}
              /\ l = "validate" => a \in Vals \cup {NoVal}
        /\ fresh' \in [Threads -> BOOLEAN] /\ res' \in [Threads -> Results]
    <2>0. /\ aux = [aux EXCEPT ![t] = aux[t]] /\ aux[t] \in Answers
          /\ fresh \in [Threads -> BOOLEAN] /\ res \in [Threads -> Results]
      BY <1>0, Unmoved, Zenon DEF ThreadInv
    <2>1. CASE WriteLockFails(t) \/ ReadLock(t)
      <3>1. aux' = [aux EXCEPT ![t] = aux[t]] /\ UNCHANGED res
        BY <2>0, <2>1 DEF WriteLockFails, ReadLock
      <3>2. fresh' \in [Threads -> BOOLEAN]
        BY <2>0, <2>1, Zenon DEF WriteLockFails, ReadLock, Restart
      <3>3. CASE Restart(t)
        BY <1>2, <2>0, <3>1, <3>2, <3>3, ZenonT(60) DEF Free
      <3>4. CASE ~Restart(t)
        <4>1. Ends("read", start[t], cur[t], aux[t])
          BY <1>0, <1>1, <2>1, <3>1, <3>4, Unmoved, ZenonT(60) DEF WriteLockFails, ReadLock, Goto, Moves
        <4>2. QED
          BY <1>0, <2>0, <3>1, <3>2, <4>1, Unmoved DEF Free
      <3>5. QED
        BY <3>3, <3>4, Zenon
    <2>2. CASE Read(t)
      <3>1. node[cur[t]].entries \in Entries /\ Key(t) \in Keys
        BY <1>0, <2>2, CurType, Zenon DEF Read, ThreadInv, Request, Key
      <3>2. node[cur[t]].entries[Key(t)] \in Vals \cup {NoVal}
        BY <3>1, Zenon DEF Entries
      <3>3. UNCHANGED res /\ fresh' \in [Threads -> BOOLEAN]
        BY <2>0, <2>2, Zenon DEF Read, Restart
      <3>4. CASE Restart(t) /\ UNCHANGED aux
        BY <1>2, <2>0, <3>3, <3>4, ZenonT(60) DEF Free
      <3>5. CASE ~(Restart(t) /\ UNCHANGED aux)
        <4>1. Ends("validate", start[t], cur[t], node[cur[t]].entries[Key(t)])
          BY <1>0, <1>1, <2>2, <3>5, Unmoved, Zenon DEF Read, Goto, Moves
        <4>2. QED
          BY <1>0, <2>0, <3>2, <3>3, <4>1, Unmoved DEF Free
      <3>6. QED
        BY <3>4, <3>5
    <2>3. CASE ReadUnlock(t)
      <3>1. aux[t] \in Vals \cup {NoVal} /\ aux' = [aux EXCEPT ![t] = Null]
        BY <1>0, <2>3, Zenon DEF ReadUnlock, ThreadInv
      <3>2. fresh' \in [Threads -> BOOLEAN] /\ res' \in [Threads -> Results]
        BY <2>0, <2>3, <3>1, Zenon DEF ReadUnlock, Restart, Finish
      <3>3. CASE Restart(t)
        BY <1>2, <3>1, <3>2, <3>3, Zenon DEF Free
      <3>4. CASE ~Restart(t)
        <4>1. Ends("return", start[t], cur[t], Null)
          BY <1>0, <1>1, <2>3, <3>1, <3>4, Unmoved, Zenon DEF ReadUnlock, Goto, Moves
        <4>2. QED
          BY <1>0, <3>2, <4>1, Unmoved DEF Free
      <3>5. QED
        BY <3>3, <3>4
    <2>4. CASE LookupReturn(t)
      <3>1. Ends("idle", HeadNode, HeadNode, aux[t])
        BY <1>0, <2>0, <2>4, Unmoved DEF LookupReturn, Leave, Goto, Moves
      <3>2. QED
        BY <1>0, <2>0, <2>4, <3>1, Zenon DEF LookupReturn, Leave, Free
    <2>5. QED
      BY <2>1, <2>2, <2>3, <2>4, Zenon
  <1>4. Rest(t)
    BY <1>0, <1>1, <1>3, RestKept, Zenon
  <1>5. /\ pc[t] \in Free /\ logged' \subseteq [op : {"insert", "remove"}, node : Seen]
        /\ nbr[t] \in NodeIds \cup {Null}
    BY <1>0, <1>1, Zenon DEF Free, ThreadInv
  <1>6. QED
    BY <1>1, <1>3, <1>4, <1>5, NoWrite, QuietMove, Zenon

(* A remove that looks at its neighbours and merges with neither, and the  *)
(* end of a split.                                                         *)
LEMMA SizeStep ==
  ASSUME DataInv, NEW t \in Threads, NoMerge',
         \/ SizeNext(t) \/ LoadPrev(t) \/ SizePrev(t) \/ ReloadPrev(t) \/ LockNeighbour(t)
         \/ SplitLog(t)
  PROVE  DataInv'
  <1> DEFINE Other == NodeIds \cup {Null}
             Ends(l, m) == pc' = [pc EXCEPT ![t] = l] /\ nbr' = [nbr EXCEPT ![t] = m]
  <1>0. ThreadInv /\ ListInv /\ SplitInv
    BY DEF DataInv
  <1>1. pc[t] \in {"sizenext", "loadprev", "sizeprev", "reload", "mnlock", "mplock", "splitlog"}
    BY Zenon DEF SizeNext, LoadPrev, SizePrev, ReloadPrev, LockNeighbour, SplitLog
  <1>2. /\ node[cur[t]].next \in Other /\ node[cur[t]].prev \in Other
        /\ nbr[t] \in Other /\ nbr = [nbr EXCEPT ![t] = nbr[t]]
    BY <1>0, CurType, Unmoved, Zenon DEF NodeType
  <1>3. /\ UNCHANGED <<node, nalloc, todo, req, start, cur, aux, fresh, res, sl>>
        /\ logged' \subseteq [op : {"insert", "remove"}, node : Seen]
        /\ \E l \in Keeping, m \in Other : Ends(l, m)
    <2>0. logged \subseteq [op : {"insert", "remove"}, node : Seen]
      BY <1>0, Zenon DEF ThreadInv
    <2>1. CASE SizeNext(t)
      <3>1. Ends("mnlock", node[cur[t]].next) \/ Ends("loadprev", nbr[t])
        BY <1>2, <2>1 DEF SizeNext, Goto
      <3>2. QED
        BY <1>2, <2>0, <2>1, <3>1, ZenonT(60) DEF SizeNext, Keeping
    <2>2. CASE LoadPrev(t)
      <3>1. Ends("unlock", node[cur[t]].prev) \/ Ends("sizeprev", node[cur[t]].prev)
        BY <1>2, <2>2, Zenon DEF LoadPrev, Goto
      <3>2. QED
        BY <1>2, <2>0, <2>2, <3>1, Zenon DEF LoadPrev, Keeping
    <2>3. CASE SizePrev(t)
      <3>1. Ends("reload", nbr[t]) \/ Ends("unlock", Null)
        BY <1>2, <2>3, Zenon DEF SizePrev, Goto
      <3>2. QED
        BY <1>2, <2>0, <2>3, <3>1, Zenon DEF SizePrev, Keeping
    <2>4. CASE ReloadPrev(t)
      <3>1. Ends("mplock", nbr[t]) \/ Ends("mplock", node[cur[t]].prev)
        BY <1>2, <2>4, Zenon DEF ReloadPrev, Goto
      <3>2. QED
        BY <1>2, <2>0, <2>4, <3>1, Zenon DEF ReloadPrev, Keeping
    <2>5. CASE LockNeighbour(t)
      <3>1. pc' # [pc EXCEPT ![t] = IF pc[t] = "mnlock" THEN "mnmove" ELSE "mpmove"]
        BY <1>0, Zenon DEF NoMerge, ThreadInv
      <3>2. Ends("unlock", Null) /\ UNCHANGED <<node, fresh>>
        BY <2>5, <3>1 DEF LockNeighbour, Goto
      <3>3. QED
        BY <2>0, <2>5, <3>2, Zenon DEF LockNeighbour, Keeping
    <2>6. CASE SplitLog(t)
      <3>1. nbr[t] \in Seen
        BY <1>0, <2>6, Zenon DEF SplitInv, SplitOf, SplitLog, Splitting, Hidden
      <3>2. Ends("unlock", Null)
        BY <2>6, Zenon DEF SplitLog, Goto
      <3>3. logged' \subseteq [op : {"insert", "remove"}, node : Seen]
        <4>1. [op |-> "insert", node |-> nbr[t]] \in [op : {"insert", "remove"}, node : Seen]
          BY <3>1
        <4>2. logged' = logged \cup {[op |-> "insert", node |-> nbr[t]]}
          BY <2>6, Zenon DEF SplitLog
        <4>3. QED
          BY <2>0, <4>1, <4>2, Zenon
      <3>4. QED
        BY <2>6, <3>2, <3>3, Zenon DEF SplitLog, Keeping
    <2>7. QED
      BY <2>1, <2>2, <2>3, <2>4, <2>5, <2>6, Zenon
  <1>4. Rest(t)
    BY <1>0, <1>1, <1>3, RestKept, Zenon DEF ThreadInv
  <1>5. PICK l \in Keeping, m \in Other : Ends(l, m)
    BY <1>3, Zenon
  <1>6. Moves(t, l, start[t], cur[t], m, aux[t])
    BY <1>0, <1>3, <1>5, Unmoved, Zenon DEF Moves
  <1>7. pc[t] \in Holding \ Hidden
    BY <1>1 DEF Holding, Keeping, Splitting, Hidden
  <1>8. QED
    BY <1>0, <1>3, <1>4, <1>6, <1>7, NoWrite, QuietMove, Unmoved, Zenon

-----------------------------------------------------------------------------
(***************************************************************************)
(* Steps that take or give back the lock of a node.                        *)
(***************************************************************************)
(* A change of one lock leaves the links and entries alone.                *)
LEMMA OneLock ==
  ASSUME ThreadInv, ListInv, NEW t \in Threads, NEW c \in NodeIds, NEW b \in BOOLEAN,
         node' = [node EXCEPT ![c].locked = b], nalloc' = nalloc
  PROVE  /\ node' \in [NodeIds -> NodeType] /\ SameLinks /\ InRange /\ Apart(t)
         /\ node'[c].locked = b
         /\ \A n \in NodeIds \ {c} : node'[n].locked = node[n].locked
  <1>1. node \in [NodeIds -> NodeType] /\ node[c] \in NodeType
    BY DEF ThreadInv
  <1>2. \A n \in NodeIds : node'[n] = IF n = c THEN [node[n] EXCEPT !.locked = b] ELSE node[n]
    BY <1>1
  <1>3. [node[c] EXCEPT !.locked = b] \in NodeType
    BY <1>1, Zenon DEF NodeType
  <1>4. node' \in [NodeIds -> NodeType]
    BY <1>1, <1>3
  <1>5. \A n \in NodeIds :
          /\ node'[n].min = node[n].min /\ node'[n].max = node[n].max
          /\ node'[n].next = node[n].next /\ node'[n].prev = node[n].prev
          /\ node'[n].entries = node[n].entries
    BY <1>1, <1>2 DEF NodeType
  <1>6. node'[c].locked = b /\ \A n \in NodeIds \ {c} : node'[n].locked = node[n].locked
    BY <1>1, <1>2 DEF NodeType
  <1>7. \A n \in 1 .. nalloc : n \in NodeIds
    BY NodesInUse
  <1>8. Apart(t)
    BY <1>5, <1>7 DEF Apart, ThreadInv, Seen
  <1>9. QED
    BY <1>4, <1>5, <1>6, <1>7, <1>8, ZenonT(60) DEF SameLinks, InRange, ListInv, Rightward

(* writeLock.                                                              *)
LEMMA LockStep ==
  ASSUME DataInv, NEW t \in Threads, WriteLock(t)
  PROVE  DataInv'
  <1> DEFINE c == cur[t]
  <1>0. ThreadInv /\ ListInv /\ LockInv /\ SplitInv
    BY DEF DataInv
  <1>1. /\ pc[t] = "lock" /\ ~node[c].locked /\ node' = [node EXCEPT ![c].locked = TRUE]
        /\ fresh' \in [Threads -> BOOLEAN] /\ pc' = [pc EXCEPT ![t] = "locked"]
        /\ UNCHANGED <<nalloc, todo, req, start, cur, nbr, aux, res, sl, logged>>
    <2>1. fresh \in [Threads -> BOOLEAN]
      BY <1>0, Zenon DEF ThreadInv
    <2>2. QED
      BY <2>1 DEF WriteLock, Acquire, Unlocked, Goto
  <1>2. c \in NodeIds
    BY <1>0, CurType
  <1>3. /\ node' \in [NodeIds -> NodeType] /\ SameLinks /\ InRange /\ Apart(t)
        /\ node'[c].locked = TRUE /\ \A n \in NodeIds \ {c} : node'[n].locked = node[n].locked
    BY <1>0, <1>1, <1>2, OneLock, Zenon
  <1> DEFINE Move == Moves(t, "locked", start[t], c, nbr[t], aux[t])
  <1>a. Move /\ Rest(t)
    BY <1>0, <1>1, Unmoved, RestKept, Zenon DEF Moves, ThreadInv
  <1>4. Others(t) /\ pc[t] \notin Holding /\ pc[t] \notin Hidden /\ pc'[t] = "locked"
    BY <1>0, <1>1, <1>a, OneMoves, LabelSets, ZenonT(60) DEF Free
  <1>5. pc'[t] \notin Hidden /\ pc'[t] \notin Splitting /\ pc'[t] \in Holding /\ pc'[t] \in Labels
    BY <1>4, LabelSets, Zenon DEF Keeping
  <1>6. Seen' = Seen
    BY <1>1, <1>4, <1>5, SeenKept, Zenon
  <1>7. ListInv' /\ SplitInv'
    BY <1>0, <1>3, <1>4, <1>5, ListKept, SplitKept, Zenon
  <1>8. LockInv'
    <2>1. \A u \in Threads \ {t} : pc'[u] = pc[u] /\ cur'[u] = cur[u]
      BY <1>4 DEF Others
    <2>2. \A u \in Threads \ {t} : pc[u] \in Holding => cur[u] # c
      BY <1>0, <1>1 DEF LockInv
    <2>3. \A u \in Threads : cur[u] \in NodeIds
      BY <1>0, CurType
    <2>4. \A u \in Threads : pc'[u] \in Holding => node'[cur'[u]].locked
      BY <1>0, <1>1, <1>3, <2>1, <2>2, <2>3, ZenonT(60) DEF LockInv
    <2>5. \A u, v \in Threads :
            u # v /\ pc'[u] \in Holding /\ pc'[v] \in Holding => cur'[u] # cur'[v]
      BY <1>0, <1>1, <2>1, <2>2 DEF LockInv
    <2>6. ASSUME NEW n \in NodeIds, node'[n].locked
          PROVE  \E u \in Threads : pc'[u] \in Holding /\ cur'[u] = n
      <3>1. CASE n = c
        BY <1>1, <1>5, <3>1
      <3>2. CASE n # c
        <4>1. PICK u \in Threads : pc[u] \in Holding /\ cur[u] = n
          BY <1>0, <1>3, <2>6, <3>2, Zenon DEF LockInv
        <4>2. u # t
          BY <1>4, <4>1
        <4>3. QED
          BY <2>1, <4>1, <4>2, Zenon
      <3>3. QED
        BY <3>1, <3>2
    <2>7. QED
      BY <2>4, <2>5, <2>6, ZenonT(60) DEF LockInv
  <1>9. ThreadInv'
    <2>1. nalloc' \in NodeIds /\ nalloc' >= 2
      BY <1>0, <1>1 DEF ThreadInv
    <2>2. pc[t] \in Placed /\ "locked" \in Holding
      BY <1>1 DEF Placed, Holding, Keeping
    <2>3. QED
      BY <1>0, <1>1, <1>3, <1>6, <1>a, <2>1, <2>2, Unmoved, MoveAtNode, Zenon
  <1>10. QED
    BY <1>7, <1>8, <1>9 DEF DataInv

(* writeUnlock, after an operation or before a restart.                    *)
LEMMA UnlockStep ==
  ASSUME DataInv, NEW t \in Threads, Recheck(t) \/ Unlock(t)
  PROVE  DataInv'
  <1> DEFINE c == cur[t]
  <1>0. ThreadInv /\ ListInv /\ LockInv /\ SplitInv /\ HeadNode \in Seen
    BY HeadSeen DEF DataInv
  <1>1. /\ pc[t] \in {"locked", "unlock"} /\ node' = [node EXCEPT ![c].locked = FALSE]
        /\ UNCHANGED <<nalloc, todo, req, nbr, aux, res, sl, logged>>
    BY DEF Recheck, Unlock, Released
  <1>2. PICK s \in Seen, l \in {"walk", "idle"} :
          /\ start' = [start EXCEPT ![t] = s] /\ cur' = [cur EXCEPT ![t] = s]
          /\ fresh' = [fresh EXCEPT ![t] = FALSE] /\ pc' = [pc EXCEPT ![t] = l]
    BY <1>0, RestartSeen DEF Recheck, Unlock, Leave, Goto
  <1> DEFINE Move == Moves(t, l, s, s, nbr[t], aux[t])
  <1>a. Move /\ Rest(t)
    BY <1>0, <1>1, <1>2, Unmoved, RestKept, Zenon DEF Moves, ThreadInv
  <1>3. c \in NodeIds
    BY <1>0, CurType
  <1>4. /\ node' \in [NodeIds -> NodeType] /\ SameLinks /\ InRange /\ Apart(t)
        /\ node'[c].locked = FALSE /\ \A n \in NodeIds \ {c} : node'[n].locked = node[n].locked
    BY <1>0, <1>1, <1>3, OneLock, Zenon
  <1>b. pc[t] \in Keeping /\ l \in Free
    BY <1>1, Zenon DEF Keeping, Free
  <1>5. /\ Others(t) /\ pc[t] \in Holding /\ pc[t] \notin Hidden /\ pc'[t] = l
        /\ pc'[t] \notin Holding /\ pc'[t] \notin Hidden /\ pc'[t] \notin Splitting
    BY <1>0, <1>a, <1>b, OneMoves, LabelSets, ZenonT(60)
  <1>6. Seen' = Seen
    BY <1>1, <1>5, SeenKept, Zenon
  <1>7. ListInv' /\ SplitInv'
    BY <1>0, <1>4, <1>5, ListKept, SplitKept, Zenon
  <1>8. LockInv'
    <2>1. \A u \in Threads \ {t} : pc'[u] = pc[u] /\ cur'[u] = cur[u]
      BY <1>5, ZenonT(60) DEF Others
    <2>2. \A u \in Threads \ {t} : pc[u] \in Holding => cur[u] # c
      BY <1>0, <1>5 DEF LockInv
    <2>3. \A u \in Threads : cur[u] \in NodeIds
      BY <1>0, CurType, Zenon
    <2>4. \A u \in Threads : pc'[u] \in Holding => node'[cur'[u]].locked
      BY <1>0, <1>4, <1>5, <2>1, <2>2, <2>3, Zenon DEF LockInv
    <2>5. \A u, v \in Threads :
            u # v /\ pc'[u] \in Holding /\ pc'[v] \in Holding => cur'[u] # cur'[v]
      <3> SUFFICES ASSUME NEW u \in Threads, NEW v \in Threads, u # v,
                          pc'[u] \in Holding, pc'[v] \in Holding
                   PROVE  cur'[u] # cur'[v]
        BY Zenon
      <3>1. u # t /\ v # t
        BY <1>5, Zenon
      <3>2. /\ pc[u] \in Holding /\ pc[v] \in Holding
            /\ cur'[u] = cur[u] /\ cur'[v] = cur[v]
        BY <2>1, <3>1, Zenon
      <3>3. cur[u] # cur[v]
        BY <1>0, <3>2, Zenon DEF LockInv
      <3>4. QED
        BY <3>2, <3>3, Zenon
    <2>6. ASSUME NEW n \in NodeIds, node'[n].locked
          PROVE  \E u \in Threads : pc'[u] \in Holding /\ cur'[u] = n
      <3>1. n # c
        BY <1>4, <2>6, Zenon
      <3>2. PICK u \in Threads : pc[u] \in Holding /\ cur[u] = n
        BY <1>0, <1>4, <2>6, <3>1, ZenonT(60) DEF LockInv
      <3>3. u # t
        BY <3>1, <3>2
      <3>4. QED
        BY <2>1, <3>2, <3>3, Zenon
    <2>7. QED
      BY <2>4, <2>5, <2>6, Zenon DEF LockInv
  <1>9. ThreadInv'
    <2>1. l \in Labels /\ l \notin Placed /\ l # "validate"
      <3>1. l \notin {"right", "lock"} /\ l # "validate"
        BY <1>2
      <3>2. QED
        BY <1>b, <3>1, LabelSets
    <2>2. /\ nalloc' \in NodeIds /\ nalloc' >= 2 /\ sl' = sl
          /\ logged' \subseteq [op : {"insert", "remove"}, node : Seen']
      BY <1>0, <1>1, <1>6, ZenonT(60) DEF ThreadInv
    <2>3. QED
      BY <1>0, <1>4, <1>6, <1>a, <2>1, <2>2, Unmoved, MoveThread, ZenonT(60)
  <1>10. QED
    BY <1>7, <1>8, <1>9 DEF DataInv

-----------------------------------------------------------------------------
(***************************************************************************)
(* Steps that write to the node whose lock the thread holds.               *)
(***************************************************************************)
(* A node that only a lock holder writes to is not one that another splits. *)
LEMMA ApartOf ==
  ASSUME ThreadInv, LockInv, NEW t \in Threads, pc[t] \in Holding,
         \A n \in 1 .. nalloc \ {cur[t]} :
            node'[n].max = node[n].max /\ node'[n].entries = node[n].entries
  PROVE  Apart(t)
  <1>1. ASSUME NEW u \in Threads \ {t}, pc[u] \in Splitting
        PROVE  cur[u] \in 1 .. nalloc \ {cur[t]}
    BY <1>1, CurType, LabelSets DEF LockInv
  <1>2. QED
    BY <1>1, ZenonT(60) DEF Apart

(* insert, update and remove of an entry.                                  *)
LEMMA EntryStep ==
  ASSUME DataInv, NEW t \in Threads, Update(t) \/ InsertHere(t) \/ Remove(t)
  PROVE  DataInv'
  <1> DEFINE c == cur[t]
             e == node[c].entries
             k == Key(t)
  <1>0. ThreadInv /\ ListInv /\ LockInv
    BY DEF DataInv
  <1>1. /\ pc[t] = "locked" /\ CheckRange(c, k)
        /\ UNCHANGED <<nalloc, todo, req, start, cur, nbr, aux, fresh, sl, logged>>
    BY DEF Update, InsertHere, Remove, Misplaced, local
  <1>2. /\ c \in Seen /\ c \in 1 .. nalloc /\ c \in NodeIds
        /\ node[c] \in NodeType /\ e \in Entries
    BY <1>0, CurType, ZenonT(60)
  <1>3. k \in Keys /\ req[t].val \in Vals
    BY <1>0, <1>1 DEF ThreadInv, Request, Key
  <1>4. UNCHANGED node \/ \E v \in Vals \cup {NoVal} : node' = [node EXCEPT ![c].entries[k] = v]
    BY <1>3, Zenon DEF Update, InsertHere, Remove
  <1>5. \E l \in {"unlock", "sizenext"}, r \in {"ok", "no"} :
           pc' = [pc EXCEPT ![t] = l] /\ res' = [res EXCEPT ![t] = r]
    BY DEF Update, InsertHere, Remove, Goto, Finish
  <1>6. /\ node' \in [NodeIds -> NodeType] /\ SameLinks /\ SameLocks /\ InRange /\ Apart(t)
    <2>1. CASE UNCHANGED node
      BY <1>1, <2>1, NoWrite, ZenonT(60)
    <2>2. ASSUME NEW v \in Vals \cup {NoVal}, node' = [node EXCEPT ![c].entries[k] = v]
          PROVE  /\ node' \in [NodeIds -> NodeType] /\ SameLinks /\ SameLocks /\ InRange /\ Apart(t)
      <3> DEFINE f == [e EXCEPT ![k] = v]
      <3>1. f \in Entries /\ \A j \in Present(f) : j \in Present(e) \/ j = k
        BY <1>2, <1>3 DEF Entries, Present
      <3>2. \A n \in NodeIds : node'[n] = IF n = c THEN [node[n] EXCEPT !.entries = f] ELSE node[n]
        BY <1>0, <1>2, <2>2, Zenon DEF ThreadInv
      <3> HIDE DEF f
      <3>3. [node[c] EXCEPT !.entries = f] \in NodeType
        BY <1>2, <3>1, Zenon DEF NodeType
      <3>4. node' \in [NodeIds -> NodeType]
        BY <1>0, <1>2, <2>2, <3>2, <3>3, Zenon DEF ThreadInv
      <3>5. /\ SameLinks /\ SameLocks /\ node'[c].entries = f
            /\ \A n \in NodeIds \ {c} : node'[n].entries = node[n].entries
        BY <1>0, <1>1, <1>2, <3>2, ZenonT(60) DEF ThreadInv, NodeType, SameLinks, SameLocks
      <3>6. \A n \in 1 .. nalloc : n \in NodeIds
        BY <1>0, NodesInUse
      <3>7. InRange
        BY <1>0, <1>1, <3>1, <3>5, <3>6, ZenonT(60) DEF InRange, ListInv, Rightward
      <3>8. Apart(t)
        <4>1. pc[t] \in Holding
          BY <1>1, Zenon DEF Holding, Keeping
        <4>2. QED
          BY <1>0, <3>5, <3>6, <4>1, ApartOf, Zenon DEF SameLinks
      <3>9. QED
        BY <3>4, <3>5, <3>7, <3>8, ZenonT(60)
    <2>3. QED
      BY <1>4, <2>1, <2>2, Zenon
  <1>7. PICK l \in {"unlock", "sizenext"} : Moves(t, l, start[t], c, nbr[t], aux[t])
    BY <1>0, <1>1, <1>5, Unmoved, Zenon DEF Moves
  <1>8. Rest(t)
    <2>1. fresh' \in [Threads -> BOOLEAN] /\ res' \in [Threads -> {"pending", "ok", "no"} \cup Vals]
      BY <1>0, <1>1, <1>5, ZenonT(60) DEF ThreadInv
    <2>2. QED
      BY <1>0, <1>1, <2>1, RestKept, ZenonT(60)
  <1>9. /\ pc[t] \in Holding \ Hidden /\ l \in Keeping
        /\ logged' \subseteq [op : {"insert", "remove"}, node : Seen]
    BY <1>0, <1>1, Zenon DEF Holding, Hidden, Keeping, ThreadInv
  <1>10. QED
    BY <1>0, <1>1, <1>6, <1>7, <1>8, <1>9, QuietMove, Unmoved, Zenon
=============================================================================
