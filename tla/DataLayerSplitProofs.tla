----------------------- MODULE DataLayerSplitProofs ------------------------
(***************************************************************************)
(* Proofs about the splits of list nodes, and the theorems about the list: *)
(* for any behaviour in which no two nodes are merged, and for programs    *)
(* without removals whatever the behaviour.                                *)
(***************************************************************************)
EXTENDS DataLayerProofs

(* A step may take half a minute: the provers' own limit is shorter.       *)
USE SMTT(30), ZenonT(30)

(* Two ways to pass a number in between.                                   *)
LEMMA Between ==
  \A x, y, z \in Nat : (x < y /\ y <= z => x <= z) /\ (x <= y /\ y < z => x < z)
  OBVIOUS

-----------------------------------------------------------------------------
(***************************************************************************)
(* The steps of a split.                                                   *)
(***************************************************************************)
(* The new node takes the upper half.                                      *)
Divides(t, c, n, med, low, high) ==
    /\ c = cur[t] /\ c # TailNode /\ c \in Seen
    /\ n \in NodeIds /\ n \notin 1 .. nalloc /\ nalloc' = n
    /\ n # HeadNode /\ n # TailNode
    /\ \A i \in 1 .. nalloc : i \in 1 .. n
    /\ \A i \in 1 .. n : i \in 1 .. nalloc \/ i = n
    /\ node[c].min < med /\ med < node[c].max
    /\ \A j \in Present(low) : CheckRange(c, j) /\ j < med
    /\ \A j \in Present(high) : med <= j /\ j < node[c].max
    /\ node' \in [NodeIds -> NodeType]
    /\ node'[n].min = med /\ node'[n].max = node[c].max /\ node'[n].next = node[c].next
    /\ node'[n].prev = c /\ node'[n].locked = FALSE /\ node'[n].entries = high
    /\ node'[c].entries = low
    /\ \A i \in NodeIds \ {n} :
          /\ node'[i].min = node[i].min /\ node'[i].max = node[i].max
          /\ node'[i].next = node[i].next /\ node'[i].prev = node[i].prev
          /\ node'[i].locked = node[i].locked
          /\ i # c => node'[i].entries = node[i].entries

(* split up to setMax: the new node is right of the old one, and hidden.   *)
LEMMA SplitNode ==
  ASSUME DataInv, NEW t \in Threads, Split(t),
         \E med \in Keys, low \in Entries, high \in Entries :
            Divides(t, cur[t], nalloc + 1, med, low, high)
  PROVE  DataInv'
  <1>0. ThreadInv /\ ListInv /\ LockInv /\ SplitInv
    BY Zenon DEF DataInv
  <1>1. /\ pc[t] = "locked"
        /\ pc' = [pc EXCEPT ![t] = "splitmax"] /\ nbr' = [nbr EXCEPT ![t] = nalloc + 1]
        /\ res' = [res EXCEPT ![t] = "ok"]
        /\ UNCHANGED <<todo, req, start, cur, aux, fresh, sl, logged>>
    BY DEF Split, Finish, Goto
  <1>2. PICK c \in Seen, n \in NodeIds, med \in Keys, low \in Entries, high \in Entries :
           n = nalloc + 1 /\ Divides(t, c, n, med, low, high)
    <2>1. PICK med \in Keys, low \in Entries, high \in Entries :
             Divides(t, cur[t], nalloc + 1, med, low, high)
      BY Zenon
    <2>2. cur[t] \in Seen /\ nalloc + 1 \in NodeIds
      BY <2>1 DEF Divides
    <2>3. QED
      BY <2>1, <2>2
  <1>3. /\ nalloc \in Nat /\ nalloc >= 2 /\ \A i \in 1 .. nalloc : i \in NodeIds
        /\ MaxNodes \in Nat
    BY <1>0, NodesInUse, Zenon
  <1>4. /\ pc[t] \in Placed /\ pc[t] \in Holding /\ pc[t] \notin Hidden
    BY <1>1, Zenon DEF Placed, Holding, Keeping, Hidden
  <1>5. /\ c = cur[t] /\ c # TailNode /\ c \in 1 .. nalloc /\ n \notin 1 .. nalloc /\ nalloc' = n
        /\ n # HeadNode /\ n # TailNode /\ \A i \in 1 .. nalloc : i \in 1 .. n
        /\ \A i \in 1 .. n : i \in 1 .. nalloc \/ i = n
    BY <1>2, Zenon DEF Divides, Seen
  <1>6. node[c].min < med /\ med < node[c].max
    BY <1>2, Zenon DEF Divides
  <1>7. /\ \A j \in Present(low) : CheckRange(c, j) /\ j < med
        /\ \A j \in Present(high) : med <= j /\ j < node[c].max
    BY <1>2, Zenon DEF Divides
  <1>8. /\ node' \in [NodeIds -> NodeType]
        /\ \A i \in NodeIds \ {n} : node'[i].locked = node[i].locked
    BY <1>2, ZenonT(60) DEF Divides
  <1>9. /\ node'[n].min = med /\ node'[n].max = node[c].max /\ node'[n].next = node[c].next
        /\ node'[n].prev = c /\ node'[n].locked = FALSE /\ node'[n].entries = high
        /\ node'[c].entries = low
        /\ \A i \in 1 .. nalloc :
              /\ node'[i].min = node[i].min /\ node'[i].max = node[i].max
              /\ node'[i].next = node[i].next /\ node'[i].prev = node[i].prev
              /\ i # c => node'[i].entries = node[i].entries
    BY <1>2, <1>3, <1>5 DEF Divides
  <1>10. Moves(t, "splitmax", start[t], c, n, aux[t]) /\ Rest(t)
    BY <1>0, <1>1, <1>2, <1>5, Unmoved, RestKept, ZenonT(60) DEF Moves, ThreadInv
  <1>11. Others(t) /\ pc'[t] = "splitmax" /\ cur'[t] = c /\ nbr'[t] = n
    BY <1>0, <1>10, OneMoves, Zenon
  <1>12. Seen' = Seen
    <2>1. \A i \in 1 .. nalloc : Private(i)' <=> Private(i)
      BY <1>4, <1>5, <1>11, ZenonT(60) DEF Private, Others, Hidden
    <2>2. Private(n)'
      BY <1>11 DEF Private
    <2>3. QED
      BY <1>5, <2>1, <2>2, Zenon DEF Seen
  <1>13. ThreadInv'
    <2>1. nalloc' \in NodeIds /\ nalloc' >= 2 /\ "splitmax" \in Holding
      BY <1>2, <1>3, <1>5 DEF Holding, Splitting, Hidden
    <2>2. QED
      BY <1>0, <1>1, <1>4, <1>5, <1>8, <1>10, <1>12, <2>1, MoveAtNode, Unmoved, Zenon
  <1>14. ListInv'
    <2>1. ASSUME NEW i \in 1 .. nalloc PROVE Rightward(i)' /\ Leftward(i)'
      <3>1. i # TailNode => \A k \in Present(node'[i].entries) : CheckRange(i, k)
        BY <1>0, <1>7, <1>9 DEF ListInv, Rightward
      <3>2. QED
        <4>1. pc[t] # "splitlink"
          BY <1>1, Zenon
        <4>2. QED
          BY <1>0, <1>9, <1>11, <1>12, <3>1, <4>1, RightKept, LeftKept, ZenonT(60)
    <2>2. Rightward(n)'
      <3>1. /\ node[c].next \in Seen /\ node[c].max <= node[node[c].next].min
            /\ \/ node[c].max = node[node[c].next].min
               \/ \E u \in Threads : pc[u] = "splitlink" /\ cur[u] = c
        BY <1>0, <1>5 DEF ListInv, Rightward
      <3>2. node'[node[c].next].min = node[node[c].next].min
        BY <1>9, <3>1, Zenon DEF Seen
      <3>3. ASSUME NEW u \in Threads, pc[u] = "splitlink", cur[u] = c PROVE FALSE
        <4>1. pc[u] \in Holding
          BY <3>3 DEF Holding, Splitting, Hidden
        <4>2. u # t
          BY <1>1, <3>3, Zenon
        <4>3. cur[u] # cur[t]
          BY <1>0, <1>4, <4>1, <4>2, Zenon DEF LockInv
        <4>4. QED
          BY <1>5, <3>3, <4>3, Zenon
      <3>4. \A k \in Present(node'[n].entries) : CheckRange(n, k)'
        BY <1>7, <1>9 DEF CheckRange
      <3>5. node[c].max = node[node[c].next].min
        BY <3>1, <3>3, ZenonT(60)
      <3>6. QED
        BY <1>6, <1>9, <1>12, <3>1, <3>2, <3>4, <3>5, ZenonT(60) DEF Rightward
    <2>3. Leftward(n)'
      <3>1. c # Null
        BY <1>3, <1>5 DEF Null
      <3>2. node'[c].min = node[c].min /\ c \in Seen'
        BY <1>2, <1>5, <1>9, <1>12, ZenonT(60)
      <3>3. QED
        BY <1>5, <1>6, <1>9, <3>1, <3>2, Zenon DEF Leftward
    <2>4. node'[HeadNode].min = 0 /\ node'[TailNode].min = MaxKey
      BY <1>0, <1>3, <1>9 DEF ListInv, HeadNode, TailNode
    <2>5. QED
      BY <1>5, <2>1, <2>2, <2>3, <2>4, ZenonT(60) DEF ListInv
  <1>15. LockInv'
    <2>1. ~node[n].locked
      <3>1. \A u \in Threads : cur[u] # n
        BY <1>0, <1>5, CurType, Zenon
      <3>2. QED
        BY <1>0, <1>5, <3>1, Zenon DEF LockInv
    <2>2. SameLocks
      <3>1. \A i \in NodeIds : node[i].locked \in BOOLEAN
        BY <1>0, Zenon DEF ThreadInv, NodeType
      <3>2. QED
        BY <1>8, <1>9, <2>1, <3>1, Zenon DEF SameLocks
    <2>3. pc'[t] \in Holding
      BY <1>11, Zenon DEF Holding, Splitting, Hidden
    <2>4. QED
      BY <1>0, <1>4, <1>5, <1>11, <2>2, <2>3, LockKept, Zenon
  <1>16. SplitInv'
    <2>1. Apart(t)
      BY <1>0, <1>4, <1>5, <1>9, ApartOf, Zenon
    <2>2. SplitOf(t)'
      <3>1. \A k \in Present(node'[c].entries) : k < med
        BY <1>7, <1>9
      <3>2. n \in 1 .. nalloc' \ {HeadNode, TailNode} /\ node'[c].min < med /\ med < node'[c].max
        <4>1. n \in 1 .. nalloc'
          BY <1>2, <1>3, <1>5
        <4>2. QED
          BY <1>5, <1>6, <1>9, <4>1, Zenon
      <3>3. QED
        BY <1>9, <1>11, <3>1, <3>2, ZenonT(60) DEF SplitOf, Splitting, Hidden
    <2>3. \A u \in Threads \ {t} : pc[u] \in Hidden => nbr[u] # n
      BY <1>0, <1>5, LabelSets, Zenon DEF SplitInv, SplitOf
    <2>4. nalloc' \in Nat /\ nalloc <= nalloc'
      BY <1>2, <1>3, <1>5
    <2>5. QED
      BY <1>0, <1>9, <1>11, <1>12, <2>1, <2>2, <2>3, <2>4, SplitOthers, ZenonT(60)
  <1>17. QED
    BY <1>13, <1>14, <1>15, <1>16 DEF DataInv

(* A write to one field of a node: the maximum, the successor or the       *)
(* predecessor.                                                            *)
FieldWrite(i, max, next, prev) ==
    /\ nalloc' = nalloc /\ node' \in [NodeIds -> NodeType]
    /\ \A j \in NodeIds : /\ node'[j].min = node[j].min /\ node'[j].entries = node[j].entries
                          /\ node'[j].locked = node[j].locked
    /\ node'[i].max = max /\ node'[i].next = next /\ node'[i].prev = prev
    /\ \A j \in NodeIds \ {i} : /\ node'[j].max = node[j].max /\ node'[j].next = node[j].next
                                /\ node'[j].prev = node[j].prev

(* A store to max, next or prev of one node changes nothing else.          *)
LEMMA OneField ==
  ASSUME ThreadInv, NEW i \in NodeIds, nalloc' = nalloc,
         NEW max \in Keys \cup {MaxKey}, NEW next \in NodeIds, NEW prev \in NodeIds
  PROVE  /\ node' = [node EXCEPT ![i].max = max] => FieldWrite(i, max, node[i].next, node[i].prev)
         /\ node' = [node EXCEPT ![i].next = next] => FieldWrite(i, node[i].max, next, node[i].prev)
         /\ node' = [node EXCEPT ![i].prev = prev] => FieldWrite(i, node[i].max, node[i].next, prev)
  <1>1. node \in [NodeIds -> NodeType] /\ node[i] \in NodeType
    BY DEF ThreadInv
  <1>2. ASSUME NEW rec \in NodeType, rec.min = node[i].min, rec.entries = node[i].entries,
               rec.locked = node[i].locked, node' = [node EXCEPT ![i] = rec]
        PROVE  FieldWrite(i, rec.max, rec.next, rec.prev)
    BY <1>1, <1>2 DEF FieldWrite
  <1>3. ASSUME node' = [node EXCEPT ![i].max = max]
        PROVE  FieldWrite(i, max, node[i].next, node[i].prev)
    <2> DEFINE rec == [node[i] EXCEPT !.max = max]
    <2>1. /\ rec \in NodeType /\ rec.min = node[i].min /\ rec.entries = node[i].entries
          /\ rec.locked = node[i].locked /\ rec.max = max /\ rec.next = node[i].next
          /\ rec.prev = node[i].prev
      BY <1>1, Zenon DEF NodeType
    <2>2. node' = [node EXCEPT ![i] = rec]
      BY <1>3
    <2> HIDE DEF rec
    <2>3. FieldWrite(i, rec.max, rec.next, rec.prev)
      BY <1>2, <2>1, <2>2, Zenon
    <2>4. QED
      BY <2>1, <2>3
  <1>4. ASSUME node' = [node EXCEPT ![i].next = next]
        PROVE  FieldWrite(i, node[i].max, next, node[i].prev)
    <2> DEFINE rec == [node[i] EXCEPT !.next = next]
    <2>1. /\ rec \in NodeType /\ rec.min = node[i].min /\ rec.entries = node[i].entries
          /\ rec.locked = node[i].locked /\ rec.max = node[i].max /\ rec.next = next
          /\ rec.prev = node[i].prev
      BY <1>1, Zenon DEF NodeType
    <2>2. node' = [node EXCEPT ![i] = rec]
      BY <1>4
    <2> HIDE DEF rec
    <2>3. FieldWrite(i, rec.max, rec.next, rec.prev)
      BY <1>2, <2>1, <2>2, Zenon
    <2>4. QED
      BY <2>1, <2>3
  <1>5. ASSUME node' = [node EXCEPT ![i].prev = prev]
        PROVE  FieldWrite(i, node[i].max, node[i].next, prev)
    <2> DEFINE rec == [node[i] EXCEPT !.prev = prev]
    <2>1. /\ rec \in NodeType /\ rec.min = node[i].min /\ rec.entries = node[i].entries
          /\ rec.locked = node[i].locked /\ rec.max = node[i].max /\ rec.next = node[i].next
          /\ rec.prev = prev
      BY <1>1, Zenon DEF NodeType
    <2>2. node' = [node EXCEPT ![i] = rec]
      BY <1>5
    <2> HIDE DEF rec
    <2>3. FieldWrite(i, rec.max, rec.next, rec.prev)
      BY <1>2, <2>1, <2>2, Zenon
    <2>4. QED
      BY <2>1, <2>3
  <1>6. QED
    BY <1>3, <1>4, <1>5

(* What the steps that put the new node into the list have in common.      *)
LEMMA SplitGoes ==
  ASSUME DataInv, NEW t \in Threads, pc[t] \in Splitting, NEW l \in Splitting,
         l \in Hidden => pc[t] \in Hidden,
         NEW a \in NodeIds \cup {Null, NoVal} \cup Vals,
         Moves(t, l, start[t], cur[t], nbr[t], a),
         UNCHANGED <<todo, req, fresh, res, sl, logged>>,
         NEW i, NEW max, NEW next, NEW prev, FieldWrite(i, max, next, prev),
         i # cur[t] => max = node[i].max, Seen \subseteq Seen', SplitOf(t)',
         \A n \in 1 .. nalloc : Rightward(n)' /\ Leftward(n)'
  PROVE  DataInv'
  <1>0. ThreadInv /\ ListInv /\ LockInv /\ SplitInv
    BY DEF DataInv
  <1>1. /\ nalloc \in Nat /\ nalloc \in NodeIds /\ nalloc >= 2 /\ nalloc' = nalloc
        /\ \A j \in 1 .. nalloc : j \in NodeIds
    BY <1>0, NodesInUse DEF FieldWrite
  <1>2. pc[t] \in Holding /\ l \in Holding /\ pc[t] \in Placed /\ pc[t] # "idle"
    BY LabelSets, Zenon DEF Free
  <1>3. Rest(t) /\ nbr[t] \in NodeIds \cup {Null}
    BY <1>0, <1>2, RestKept, Unmoved, Zenon DEF ThreadInv
  <1>4. Others(t) /\ pc'[t] = l /\ cur'[t] = cur[t] /\ nbr'[t] = nbr[t]
    BY <1>0, <1>3, OneMoves, ZenonT(60)
  <1>5. ThreadInv'
    BY <1>0, <1>1, <1>2, <1>3, MoveAtNode, Zenon DEF FieldWrite
  <1>6. ListInv'
    <2>1. HeadNode \in NodeIds /\ TailNode \in NodeIds
      BY <1>1 DEF HeadNode, TailNode
    <2>2. QED
      BY <1>0, <1>1, <2>1, ZenonT(60) DEF ListInv, FieldWrite
  <1>7. LockInv'
    <2>1. SameLocks
      BY Zenon DEF FieldWrite, SameLocks
    <2>2. QED
      BY <1>0, <1>2, <1>4, <2>1, LockKept, ZenonT(60)
  <1>8. SplitInv'
    <2>1. Apart(t)
      <3>1. \A n \in 1 .. nalloc \ {cur[t]} :
               node'[n].max = node[n].max /\ node'[n].entries = node[n].entries
        BY <1>1 DEF FieldWrite
      <3>2. QED
        BY <1>0, <1>2, <3>1, ApartOf, Zenon
    <2>2. \A n \in 1 .. nalloc : node'[n].min = node[n].min
      BY <1>1, ZenonT(60) DEF FieldWrite
    <2>3. \A u \in Threads \ {t} : pc'[t] \in Hidden /\ pc[u] \in Hidden => nbr'[t] # nbr[u]
      BY <1>0, <1>4 DEF SplitInv
    <2>4. nalloc' \in Nat /\ nalloc <= nalloc'
      BY <1>1
    <2>5. QED
      BY <1>0, <1>4, <2>1, <2>2, <2>3, <2>4, SplitOthers, ZenonT(60)
  <1>9. QED
    BY <1>5, <1>6, <1>7, <1>8, Zenon DEF DataInv

(* The two nodes of a split.                                               *)
LEMMA SplitPair ==
  ASSUME DataInv, NEW t \in Threads, pc[t] \in Splitting
  PROVE  /\ cur[t] \in 1 .. nalloc /\ cur[t] \in NodeIds /\ cur[t] # TailNode
         /\ nbr[t] \in 1 .. nalloc \ {HeadNode, TailNode} /\ nbr[t] \in NodeIds
         /\ node[cur[t]].min < node[nbr[t]].min
         /\ Rightward(cur[t]) /\ Rightward(nbr[t]) /\ SplitOf(t)
         /\ cur[t] # Null /\ nbr[t] # Null
         /\ pc[t] \in Placed
  <1>1. ThreadInv /\ ListInv /\ SplitInv /\ SplitOf(t)
    BY DEF DataInv, SplitInv
  <1>2. pc[t] \in Placed
    BY LabelSets
  <1>3. /\ cur[t] \in 1 .. nalloc /\ cur[t] \in NodeIds /\ cur[t] # TailNode
        /\ nbr[t] \in 1 .. nalloc \ {HeadNode, TailNode} /\ node[cur[t]].min < node[nbr[t]].min
    <2>1. cur[t] \in 1 .. nalloc /\ cur[t] \in NodeIds
      BY <1>1, CurType, Zenon
    <2>2. cur[t] # TailNode
      BY <1>1, <1>2, Zenon DEF ThreadInv
    <2>3. QED
      BY <1>1, <2>1, <2>2, Zenon DEF SplitOf
  <1>4. nbr[t] \in NodeIds /\ cur[t] # Null /\ nbr[t] # Null
    BY <1>1, <1>3, NodesInUse DEF Null
  <1>5. QED
    BY <1>1, <1>2, <1>3, <1>4 DEF ListInv

(* A hidden node stays hidden.                                             *)
LEMMA HiddenKept ==
  ASSUME NEW t \in Threads, Others(t), nalloc' = nalloc, nbr'[t] = nbr[t],
         pc'[t] \in Hidden <=> pc[t] \in Hidden
  PROVE  Seen' = Seen
  <1>1. ASSUME NEW n PROVE Private(n)' <=> Private(n)
    BY DEF Private, Others, Hidden
  <1>2. QED
    BY <1>1 DEF Seen

(* setMax(newMin): the range of the old node ends where the new one's      *)
(* begins.                                                                 *)
LEMMA SplitMaxStep ==
  ASSUME DataInv, NEW t \in Threads, SplitMax(t)
  PROVE  DataInv'
  <1>0. ThreadInv /\ ListInv /\ pc[t] = "splitmax" /\ pc[t] \in Splitting /\ pc[t] \in Hidden
    BY DEF DataInv, SplitMax, Splitting, Hidden
  <1>1. PICK c \in 1 .. nalloc, m \in 1 .. nalloc \ {HeadNode, TailNode} :
          /\ c = cur[t] /\ m = nbr[t] /\ c \in NodeIds /\ m \in NodeIds /\ c # TailNode
          /\ node[c].min < node[m].min /\ Rightward(c) /\ SplitOf(t)
    BY <1>0, SplitPair
  <1>2. /\ node' = [node EXCEPT ![c].max = node[m].min] /\ pc' = [pc EXCEPT ![t] = "splitlink"]
        /\ UNCHANGED <<nalloc, todo, req, start, cur, nbr, aux, fresh, res, sl, logged>>
    BY <1>1 DEF SplitMax, Goto, local
  <1>3. FieldWrite(c, node[m].min, node[c].next, node[c].prev)
    <2>1. node[m].min \in Keys \cup {MaxKey}
      BY <1>0, <1>1, ZenonT(60) DEF ThreadInv, NodeType
    <2>2. QED
      BY <1>0, <1>1, <1>2, <2>1, OneField, ZenonT(60)
  <1>4. /\ node'[c].max = node[m].min /\ node'[c].next = node[c].next
        /\ \A j \in 1 .. nalloc : /\ node'[j].min = node[j].min /\ node'[j].prev = node[j].prev
                                  /\ node'[j].entries = node[j].entries
                                  /\ j # c => /\ node'[j].max = node[j].max
                                              /\ node'[j].next = node[j].next
    <2>1. \A j \in 1 .. nalloc : j \in NodeIds
      BY <1>0, NodesInUse
    <2>2. QED
      BY <1>1, <1>3, <2>1 DEF FieldWrite
  <1>5. Moves(t, "splitlink", start[t], cur[t], nbr[t], aux[t])
    BY <1>0, <1>2, Unmoved, Zenon DEF Moves
  <1>6. Others(t) /\ pc'[t] = "splitlink" /\ cur'[t] = c /\ nbr'[t] = m
    <2>1. Rest(t)
      BY <1>0, <1>2, RestKept, Zenon DEF ThreadInv
    <2>2. Others(t) /\ pc'[t] = "splitlink" /\ cur'[t] = cur[t] /\ nbr'[t] = nbr[t]
      BY <1>0, <1>5, <2>1, OneMoves, ZenonT(60)
    <2>3. QED
      BY <1>1, <2>2, Zenon
  <1>7. Seen' = Seen
    BY <1>0, <1>1, <1>2, <1>6, HiddenKept, Zenon DEF Hidden
  <1>8. ASSUME NEW n \in 1 .. nalloc PROVE Rightward(n)' /\ Leftward(n)'
    <2>1. Leftward(n)'
      BY <1>0, <1>4, <1>7, LeftKept, Zenon
    <2>2. CASE n # c
      <3>1. n # TailNode => \A k \in Present(node'[n].entries) : CheckRange(n, k)
        BY <1>0, <1>4 DEF ListInv, Rightward
      <3>2. QED
        BY <1>0, <1>4, <1>6, <1>7, <2>1, <2>2, <3>1, RightKept, ZenonT(60)
    <2>3. Rightward(c)'
      <3>1. /\ node[c].min \in Keys /\ node[c].next \in Seen
            /\ node[c].max <= node[node[c].next].min
            /\ \A k \in Present(node[c].entries) : CheckRange(c, k)
        BY <1>1, Zenon DEF Rightward
      <3>2. /\ node[m].min < node[c].max
            /\ \A k \in Present(node[c].entries) : k < node[m].min
        BY <1>0, <1>1, ZenonT(60) DEF SplitOf
      <3>3. node'[node[c].next].min = node[node[c].next].min
        BY <1>4, <3>1 DEF Seen
      <3>4. node[m].min <= node[node[c].next].min
        <4>1. /\ node[m].min \in Keys \cup {MaxKey} /\ node[c].max \in Keys \cup {MaxKey}
              /\ node[node[c].next].min \in Keys \cup {MaxKey}
          <5>1. node[c].next \in NodeIds
            BY <1>0, <3>1, NodesInUse DEF ThreadInv
          <5>2. QED
            BY <1>0, <1>1, <5>1, ZenonT(60) DEF ThreadInv, NodeType
        <4>2. node[m].min \in Nat /\ node[c].max \in Nat /\ node[node[c].next].min \in Nat
          BY <4>1, ConstantsAssumption, Zenon
        <4>3. node[m].min < node[c].max /\ node[c].max <= node[node[c].next].min
          BY <3>1, <3>2, ZenonT(60)
        <4>4. QED
          BY <4>2, <4>3, Between, Zenon
      <3>5. \A k \in Present(node'[c].entries) : CheckRange(c, k)'
        BY <1>4, <3>1, <3>2, ZenonT(60) DEF CheckRange
      <3>6. QED
        BY <1>1, <1>4, <1>6, <1>7, <3>1, <3>3, <3>4, <3>5, ZenonT(60) DEF Rightward
    <2>4. QED
      BY <2>1, <2>2, <2>3, Zenon
  <1>9. SplitOf(t)'
    <2>1. m \in 1 .. nalloc' \ {HeadNode, TailNode} /\ node'[c].min < node'[m].min
      BY <1>1, <1>2, <1>4, ZenonT(60)
    <2>2. QED
      BY <1>4, <1>6, <2>1, ZenonT(60) DEF SplitOf, Splitting, Hidden
  <1>10. "splitlink" \in Splitting /\ aux[t] \in NodeIds \cup {Null, NoVal} \cup Vals
    BY <1>0, Unmoved, Zenon DEF Splitting, Hidden
  <1>11. QED
    BY <1>0, <1>1, <1>2, <1>3, <1>5, <1>7, <1>8, <1>9, <1>10, SplitGoes, ZenonT(60)

(* next = newNode: the new node can be seen.                               *)
LEMMA SplitLinkStep ==
  ASSUME DataInv, NEW t \in Threads, SplitLink(t)
  PROVE  DataInv'
  <1>0. ThreadInv /\ ListInv /\ SplitInv /\ pc[t] = "splitlink" /\ pc[t] \in Splitting /\ pc[t] \in Hidden
    BY ZenonT(60) DEF DataInv, SplitLink, Splitting, Hidden
  <1>1. PICK c \in 1 .. nalloc, m \in 1 .. nalloc \ {HeadNode, TailNode} :
          /\ c = cur[t] /\ m = nbr[t] /\ c \in NodeIds /\ m \in NodeIds /\ c # TailNode
          /\ node[c].min < node[m].min /\ Rightward(c) /\ SplitOf(t)
    BY <1>0, SplitPair
  <1>2. /\ node' = [node EXCEPT ![c].next = m] /\ pc' = [pc EXCEPT ![t] = "splitnext"]
        /\ UNCHANGED <<nalloc, todo, req, start, cur, nbr, aux, fresh, res, sl, logged>>
    BY <1>1 DEF SplitLink, Goto, local
  <1>3. FieldWrite(c, node[c].max, m, node[c].prev)
    BY <1>0, <1>1, <1>2, OneField, ZenonT(60)
  <1>4. /\ node'[c].max = node[c].max /\ node'[c].next = m
        /\ \A j \in 1 .. nalloc : /\ node'[j].min = node[j].min /\ node'[j].prev = node[j].prev
                                  /\ node'[j].entries = node[j].entries
                                  /\ j # c => /\ node'[j].max = node[j].max
                                              /\ node'[j].next = node[j].next
    <2>1. \A j \in 1 .. nalloc : j \in NodeIds
      BY <1>0, NodesInUse
    <2>2. QED
      BY <1>1, <1>3, <2>1, ZenonT(60) DEF FieldWrite
  <1>5. Moves(t, "splitnext", start[t], cur[t], nbr[t], aux[t])
    BY <1>0, <1>2, Unmoved, ZenonT(60) DEF Moves
  <1>6. Others(t) /\ pc'[t] = "splitnext" /\ cur'[t] = c /\ nbr'[t] = m
    <2>1. Rest(t)
      BY <1>0, <1>2, RestKept, Zenon DEF ThreadInv
    <2>2. Others(t) /\ pc'[t] = "splitnext" /\ cur'[t] = cur[t] /\ nbr'[t] = nbr[t]
      BY <1>0, <1>5, <2>1, OneMoves, ZenonT(60)
    <2>3. QED
      BY <1>1, <2>2, Zenon
  <1>7. Seen \subseteq Seen' /\ m \in Seen'
    <2>1. \A u \in Threads \ {t} : pc[u] \in Hidden => nbr[u] # m
      BY <1>0, <1>1, Zenon DEF SplitInv
    <2>2. ~Private(m)' /\ \A n \in 1 .. nalloc : Private(n)' => Private(n)
      BY <1>6, <2>1, Zenon DEF Private, Others, Hidden
    <2>3. QED
      BY <1>1, <1>2, <2>2, Zenon DEF Seen
  <1>8. ASSUME NEW n \in 1 .. nalloc PROVE Rightward(n)' /\ Leftward(n)'
    <2>1. Leftward(n)'
      BY <1>0, <1>4, <1>7, LeftKept, ZenonT(60)
    <2>2. CASE n # c
      <3>1. n # TailNode => \A k \in Present(node'[n].entries) : CheckRange(n, k)
        BY <1>0, <1>4 DEF ListInv, Rightward
      <3>2. QED
        BY <1>0, <1>1, <1>4, <1>6, <1>7, <2>1, <2>2, <3>1, RightKept, ZenonT(60)
    <2>3. Rightward(c)'
      <3>1. /\ node[c].min \in Keys /\ node[c].min < node[c].max
            /\ \A k \in Present(node[c].entries) : CheckRange(c, k)
        BY <1>1, Zenon DEF Rightward
      <3>2. node[c].max = node[m].min
        BY <1>0, <1>1, ZenonT(60) DEF SplitOf
      <3>3. node'[c].max <= node'[m].min /\ node'[c].max = node'[m].min
        <4>1. node[m].min \in Keys \cup {MaxKey}
          BY <1>0, <1>1, Zenon DEF ThreadInv, NodeType
        <4>2. node[m].min \in Nat
          BY <4>1, ConstantsAssumption, ZenonT(60)
        <4>3. QED
          BY <1>1, <1>4, <3>2, <4>2
      <3>4. \A k \in Present(node'[c].entries) : CheckRange(c, k)'
        BY <1>4, <3>1, Zenon DEF CheckRange
      <3>5. QED
        BY <1>1, <1>4, <1>7, <3>1, <3>3, <3>4, ZenonT(60) DEF Rightward
    <2>4. QED
      BY <2>1, <2>2, <2>3
  <1>9. SplitOf(t)'
    <2>1. m \in 1 .. nalloc' \ {HeadNode, TailNode} /\ node'[c].min < node'[m].min
      BY <1>1, <1>2, <1>4, ZenonT(60)
    <2>2. QED
      BY <1>6, <1>7, <2>1, ZenonT(60) DEF SplitOf, Splitting, Hidden
  <1>10. /\ "splitnext" \in Splitting /\ aux[t] \in NodeIds \cup {Null, NoVal} \cup Vals
    BY <1>0, Unmoved, ZenonT(60) DEF Splitting
  <1>11. QED
    BY <1>0, <1>1, <1>2, <1>3, <1>5, <1>7, <1>8, <1>9, <1>10, SplitGoes, ZenonT(60)

(* nextNode = newNode->getNext(): it is further right.                     *)
LEMMA SplitNextStep ==
  ASSUME DataInv, NEW t \in Threads, SplitNext(t)
  PROVE  DataInv'
  <1>0. ThreadInv /\ ListInv /\ pc[t] = "splitnext" /\ pc[t] \in Splitting \ Hidden
    BY Zenon DEF DataInv, SplitNext, Splitting, Hidden
  <1>1. PICK c \in 1 .. nalloc, m \in 1 .. nalloc \ {HeadNode, TailNode} :
          /\ c = cur[t] /\ m = nbr[t] /\ c \in NodeIds /\ m \in NodeIds
          /\ node[c].min < node[m].min /\ Rightward(m) /\ SplitOf(t)
    BY <1>0, SplitPair, Zenon
  <1>2. PICK x \in Seen : x = node[m].next /\ node[m].min < node[x].min /\ x \in NodeIds
    <2>1. /\ node[m].next \in Seen /\ node[m].min < node[m].max
          /\ node[m].max <= node[node[m].next].min
      BY <1>1, ZenonT(60) DEF Rightward
    <2>2. node[m].next \in NodeIds
      BY <1>0, <2>1, NodesInUse, ZenonT(60) DEF ThreadInv
    <2>3. /\ node[m].min \in Keys \cup {MaxKey} /\ node[m].max \in Keys \cup {MaxKey}
          /\ node[node[m].next].min \in Keys \cup {MaxKey}
      BY <1>0, <1>1, <2>2, Zenon DEF ThreadInv, NodeType
    <2>4. node[m].min \in Nat /\ node[m].max \in Nat /\ node[node[m].next].min \in Nat
      BY <2>3, ConstantsAssumption, ZenonT(60)
    <2>5. QED
      BY <2>1, <2>2, <2>4
  <1>3. /\ aux' = [aux EXCEPT ![t] = x] /\ pc' = [pc EXCEPT ![t] = "splitprev"]
        /\ UNCHANGED <<node, nalloc, todo, req, start, cur, nbr, fresh, res, sl, logged>>
    BY <1>1, <1>2, ZenonT(60) DEF SplitNext, Goto
  <1>4. FieldWrite(c, node[c].max, node[c].next, node[c].prev)
    BY <1>0, <1>3 DEF FieldWrite, ThreadInv
  <1>5. Moves(t, "splitprev", start[t], cur[t], nbr[t], x)
    BY <1>0, <1>3, Unmoved, ZenonT(60) DEF Moves
  <1>6. Others(t) /\ pc'[t] = "splitprev" /\ cur'[t] = c /\ nbr'[t] = m /\ aux'[t] = x
    <2>1. Rest(t)
      BY <1>0, <1>3, RestKept, ZenonT(60) DEF ThreadInv
    <2>2. QED
      BY <1>0, <1>1, <1>5, <2>1, OneMoves, ZenonT(60)
  <1>7. Seen' = Seen
    BY <1>0, <1>3, <1>6, SeenKept, Zenon DEF Hidden
  <1>8. ASSUME NEW n \in 1 .. nalloc PROVE Rightward(n)' /\ Leftward(n)'
    <2>1. n # TailNode => \A k \in Present(node'[n].entries) : CheckRange(n, k)
      BY <1>0, <1>3 DEF ListInv, Rightward
    <2>2. QED
      BY <1>0, <1>3, <1>6, <1>7, <2>1, RightKept, LeftKept, ZenonT(60)
  <1>9. SplitOf(t)'
    <2>1. m \in Seen
      BY <1>0, <1>1, Zenon DEF SplitOf
    <2>2. node' = node /\ nalloc' = nalloc /\ pc'[t] \notin {"splitmax", "splitlink"}
      BY <1>3, <1>6, ZenonT(60)
    <2>3. QED
      BY <1>1, <1>2, <1>6, <1>7, <2>1, <2>2, ZenonT(60) DEF SplitOf
  <1>10. "splitprev" \in Splitting \ Hidden
    BY DEF Splitting, Hidden
  <1>11. QED
    BY <1>0, <1>1, <1>2, <1>3, <1>4, <1>5, <1>7, <1>8, <1>9, <1>10, SplitGoes, ZenonT(60)

(* nextNode->setPrev(newNode), whatever has happened in between: the new   *)
(* node is on its left.                                                    *)
LEMMA SplitPrevStep ==
  ASSUME DataInv, NEW t \in Threads, SplitPrev(t)
  PROVE  DataInv'
  <1>0. ThreadInv /\ ListInv /\ pc[t] = "splitprev" /\ pc[t] \in Splitting \ Hidden
    BY DEF DataInv, SplitPrev, Splitting, Hidden
  <1>1. PICK c \in 1 .. nalloc, m \in 1 .. nalloc \ {HeadNode, TailNode} :
          /\ c = cur[t] /\ m = nbr[t] /\ c \in NodeIds /\ m \in NodeIds /\ m # Null
          /\ node[c].min < node[m].min /\ SplitOf(t)
    BY <1>0, SplitPair, Zenon
  <1>2. PICK x \in 1 .. nalloc : /\ x = aux[t] /\ x \in NodeIds /\ m \in Seen
                                 /\ node[m].min < node[x].min
    <2>1. aux[t] \in Seen /\ m \in Seen /\ node[m].min < node[aux[t]].min
      BY <1>0, <1>1, ZenonT(60) DEF SplitOf
    <2>2. aux[t] \in 1 .. nalloc /\ aux[t] \in NodeIds
      BY <1>0, <2>1, NodesInUse DEF ThreadInv
    <2>3. QED
      BY <2>1, <2>2, ZenonT(60)
  <1>3. /\ node' = [node EXCEPT ![x].prev = m]
        /\ aux' = [aux EXCEPT ![t] = Null] /\ pc' = [pc EXCEPT ![t] = "splitlog"]
        /\ UNCHANGED <<nalloc, todo, req, start, cur, nbr, fresh, res, sl, logged>>
    BY <1>1, <1>2 DEF SplitPrev, Goto
  <1>4. FieldWrite(x, node[x].max, node[x].next, m)
    BY <1>0, <1>1, <1>2, <1>3, OneField, ZenonT(60)
  <1>5. /\ node'[x].prev = m
        /\ \A j \in 1 .. nalloc : /\ node'[j].min = node[j].min /\ node'[j].max = node[j].max
                                  /\ node'[j].entries = node[j].entries
                                  /\ node'[j].next = node[j].next
                                  /\ j # x => node'[j].prev = node[j].prev
    <2>1. \A j \in 1 .. nalloc : j \in NodeIds
      BY <1>0, NodesInUse
    <2>2. QED
      BY <1>4, <2>1 DEF FieldWrite
  <1>6. Moves(t, "splitlog", start[t], cur[t], nbr[t], Null)
    BY <1>0, <1>3, Unmoved, ZenonT(60) DEF Moves
  <1>7. Others(t) /\ pc'[t] = "splitlog" /\ cur'[t] = c /\ nbr'[t] = m
    <2>1. Rest(t)
      BY <1>0, <1>3, RestKept, ZenonT(60) DEF ThreadInv
    <2>2. Others(t) /\ pc'[t] = "splitlog" /\ cur'[t] = cur[t] /\ nbr'[t] = nbr[t]
      BY <1>0, <1>6, <2>1, OneMoves, ZenonT(60)
    <2>3. QED
      BY <1>1, <2>2, Zenon
  <1>8. Seen' = Seen
    BY <1>0, <1>3, <1>7, SeenKept, Zenon DEF Hidden
  <1>9. ASSUME NEW n \in 1 .. nalloc PROVE Rightward(n)' /\ Leftward(n)'
    <2>1. Rightward(n)'
      <3>1. n # TailNode => \A k \in Present(node'[n].entries) : CheckRange(n, k)
        BY <1>0, <1>5, ZenonT(60) DEF ListInv, Rightward
      <3>2. QED
        BY <1>0, <1>5, <1>7, <1>8, <3>1, RightKept, Zenon
    <2>2. CASE n # x
      BY <1>0, <1>5, <1>8, <2>1, <2>2, LeftKept, ZenonT(60)
    <2>3. Leftward(x)'
      BY <1>1, <1>2, <1>5, <1>8, ZenonT(60) DEF Leftward
    <2>4. QED
      BY <2>1, <2>2, <2>3, Zenon
  <1>10. SplitOf(t)'
    BY <1>1, <1>2, <1>3, <1>5, <1>7, <1>8, ZenonT(60) DEF SplitOf
  <1>11. "splitlog" \in Splitting \ Hidden
    BY DEF Splitting, Hidden
  <1>12. QED
    BY <1>0, <1>3, <1>4, <1>6, <1>8, <1>9, <1>10, <1>11, SplitGoes, ZenonT(60)

-----------------------------------------------------------------------------
(* The worker thread puts a node into the search layer or takes it out.    *)
LEMMA ApplyStep ==
  ASSUME DataInv, NEW o \in logged, ApplyLogged(o)
  PROVE  DataInv'
  <1>0. ThreadInv /\ ListInv /\ LockInv /\ SplitInv
    BY DEF DataInv
  <1>1. /\ UNCHANGED <<node, nalloc, todo, pc, req, start, cur, nbr, aux, fresh, res>>
        /\ logged' \subseteq logged
        /\ \/ sl' = SL!SLInsert(sl, node[o.node].min, o.node)
           \/ sl' = SL!SLRemove(sl, node[o.node].min, o.node)
    BY ZenonT(60) DEF ApplyLogged, local
  <1>2. Seen' = Seen
    BY <1>1, ListSame, Zenon
  <1>3. ListInv' /\ LockInv'
    BY <1>0, <1>1, ListSame, Zenon
  <1>4. SplitInv'
    BY <1>0, <1>1, ListSame, Zenon
  <1>5. sl' \in SL!Replica /\ \A k \in Keys : sl'.idx[k] \in Seen \cup {Null}
    <2> DEFINE key == node[o.node].min
               ptr == o.node
    <2>1. ptr \in Seen /\ ptr \in NodeIds
      BY <1>0, NodesInUse DEF ThreadInv
    <2>2. key \in Keys \cup {MaxKey}
      BY <1>0, <2>1, ZenonT(60) DEF ThreadInv, NodeType
    <2> DEFINE Count == 0 .. CounterRange - 1
               Index == [Keys -> NodeIds \cup {Null}]
    <2>3. /\ sl \in [idx : Index, curMin : Keys \cup {MaxKey}, numInserts : Count]
          /\ \A k \in Keys : sl.idx[k] \in Seen \cup {Null}
      BY <1>0 DEF ThreadInv, SL!Replica
    <2>4. \A n \in Count : (n + 1) % CounterRange \in Count /\ (n - 1) % CounterRange \in Count
      BY ConstantsAssumption
    <2> HIDE DEF key, ptr, Count
    <2>5. ASSUME NEW new \in Seen \cup {Null}
          PROVE  /\ [sl.idx EXCEPT ![key] = new] \in Index
                 /\ \A k \in Keys : [sl.idx EXCEPT ![key] = new][k] \in Seen \cup {Null}
      <3>1. new \in NodeIds \cup {Null}
        BY <1>0, NodesInUse, ZenonT(60) DEF ThreadInv
      <3>2. QED
        BY <2>3, <3>1, ZenonT(60)
    <2>6. /\ sl.idx \in Index /\ sl.curMin \in Keys \cup {MaxKey} /\ sl.numInserts \in Count
      BY <2>3
    <2>7. CASE sl' = SL!SLInsert(sl, key, ptr)
      <3> DEFINE low == IF key < sl.curMin THEN key ELSE sl.curMin
                 ix == [sl.idx EXCEPT ![key] = ptr]
                 num == (sl.numInserts + 1) % CounterRange
      <3>1. sl' = [idx |-> ix, curMin |-> low, numInserts |-> num]
        BY <2>7, Zenon DEF SL!SLInsert
      <3>2. /\ ix \in Index /\ \A k \in Keys : ix[k] \in Seen \cup {Null}
            /\ low \in Keys \cup {MaxKey} /\ num \in Count
        BY <2>1, <2>2, <2>4, <2>5, <2>6, ZenonT(60)
      <3> HIDE DEF ix, low, num, Index
      <3>3. sl' \in [idx : Index, curMin : Keys \cup {MaxKey}, numInserts : Count] /\ sl'.idx = ix
        BY <3>1, <3>2
      <3>4. QED
        BY <3>2, <3>3, Zenon DEF SL!Replica, Index, Count
    <2>8. CASE sl' = SL!SLRemove(sl, key, ptr)
      <3> DEFINE new == IF sl.idx[key] = ptr THEN Null ELSE sl.idx[key]
                 ix == [sl.idx EXCEPT ![key] = new]
                 num == (sl.numInserts - 1) % CounterRange
      <3>1. sl' = [[sl EXCEPT !.idx = ix] EXCEPT !.numInserts = num]
        BY <2>8, Zenon DEF SL!SLRemove
      <3>2. ix \in Index /\ \A k \in Keys : ix[k] \in Seen \cup {Null}
        <4>1. CASE key \in Keys
          BY <2>3, <2>5, <4>1
        <4>2. CASE key \notin Keys
          <5>1. ix = sl.idx
            BY <2>6, <4>2
          <5>2. QED
            BY <2>3, <2>6, <5>1, ZenonT(60)
        <4>3. QED
          BY <4>1, <4>2, ZenonT(60)
      <3>3. num \in Count
        BY <2>4, <2>6
      <3> HIDE DEF ix, num, Index
      <3>4. sl' \in [idx : Index, curMin : Keys \cup {MaxKey}, numInserts : Count] /\ sl'.idx = ix
        BY <2>3, <3>1, <3>2, <3>3, ZenonT(60)
      <3>5. QED
        BY <3>2, <3>4 DEF SL!Replica, Index, Count
    <2>9. QED
      BY <1>1, <2>7, <2>8, ZenonT(60) DEF key, ptr
  <1>6. ThreadInv'
    BY <1>0, <1>1, <1>2, <1>5, ZenonT(60) DEF ThreadInv
  <1>7. QED
    BY <1>3, <1>4, <1>6 DEF DataInv

(* No thread is at a step of a merge.                                      *)
LEMMA NoMergeStep ==
  ASSUME ThreadInv, NEW t \in Threads
  PROVE  /\ ~MergeMove(t) /\ ~MergeNext(t) /\ ~MergePrev(t) /\ ~MergeDelete(t)
         /\ ~MergeMax(t) /\ ~MergeUnlock(t) /\ ~MergeLog(t)
  <1> DEFINE M == {"mnmove", "mpmove", "mnnext", "mpnext", "mnprev", "mpprev", "mndel", "mpdel",
                   "mnmax", "mpmax", "mpunlock", "merged"}
  <1>1. pc[t] \in Labels
    BY DEF ThreadInv
  <1>2. \A l \in M : l \notin Labels
    BY DEF Labels, Free, Holding, Splitting, Hidden, Keeping
  <1>3. pc[t] \notin M
    BY <1>1, <1>2
  <1>4. QED
    BY <1>3, ZenonT(60) DEF MergeMove, MergeNext, MergePrev, MergeDelete, MergeMax, MergeUnlock, MergeLog

-----------------------------------------------------------------------------
(***************************************************************************)
(* The key a node is split at.  Induction is used in the form that the     *)
(* least natural number of a set has no predecessor in it.                 *)
(***************************************************************************)
INSTANCE FiniteSetTheorems

(* A set of naturals has a least element.                                  *)
LEMMA Least ==
  ASSUME NEW T, T \subseteq Nat, T # {}
  PROVE  \E x \in T : \A y \in T : x <= y
  <1> DEFINE R == {ss \in Nat \X Nat : ss[1] < ss[2]}
  <1>1. IsWellFoundedOn(R, Nat)
    BY NatLessThanWellFounded, ZenonT(60) DEF OpToRel
  <1>2. PICK x \in T : \A y \in T : ~(<<y, x>> \in R)
    <2> HIDE DEF R
    <2>1. QED
      BY <1>1, WFMin, ZenonT(60)
  <1>3. ASSUME NEW y \in T PROVE x <= y
    <2>1. x \in Nat /\ y \in Nat /\ ~(<<y, x>> \in R)
      BY <1>2, ZenonT(60)
    <2>2. QED
      BY <2>1
  <1>4. QED
    BY <1>3, ZenonT(60)

(* A finite set of numbers has an element of every rank.                   *)
LEMMA Rank ==
  ASSUME NEW S, S \subseteq Nat, IsFiniteSet(S), NEW r \in Nat, r < Cardinality(S)
  PROVE  \E k \in S : Cardinality({j \in S : j < k}) = r
  <1> DEFINE Below(k) == {j \in S : j < k}
             Ranked(n) == \E k \in S : Cardinality(Below(k)) = n
             T == {n \in Nat : n < Cardinality(S) /\ ~Ranked(n)}
  <1>0. Cardinality(S) \in Nat
    BY FS_CardinalityType
  <1> SUFFICES ASSUME T # {} PROVE FALSE
    OBVIOUS
  <1>1. PICK n \in T : \A m \in T : n <= m
    BY Least, ZenonT(60)
  <1>2. CASE n = 0
    <2>1. S # {}
      <3>1. 0 < Cardinality(S)
        BY <1>1, <1>2, Zenon
      <3>2. S = {} => Cardinality(S) = 0
        BY FS_EmptySet, Zenon
      <3>3. QED
        BY <3>1, <3>2
    <2>2. PICK k \in S : \A y \in S : k <= y
      BY <2>1, Least, ZenonT(60)
    <2>3. ASSUME NEW j \in Below(k) PROVE FALSE
      <3>1. j \in Nat /\ k \in Nat /\ k <= j /\ j < k
        BY <2>2
      <3>2. QED
        BY <3>1
    <2>4. Cardinality(Below(k)) = 0
      BY <2>3, FS_EmptySet, ZenonT(60)
    <2>5. QED
      BY <1>1, <1>2, <2>4, ZenonT(60)
  <1>3. CASE n # 0
    <2>1. n - 1 \in Nat /\ n - 1 < Cardinality(S) /\ n - 1 \notin T /\ (n - 1) + 1 = n
      <3>1. n \in Nat /\ n < Cardinality(S)
        BY <1>1, Zenon
      <3>2. /\ n - 1 \in Nat /\ n - 1 < Cardinality(S) /\ (n - 1) + 1 = n
            /\ ~(n <= n - 1)
        BY <1>0, <1>3, <3>1
      <3>3. QED
        BY <1>1, <3>2, Zenon
    <2>2. PICK k \in S : Cardinality(Below(k)) = n - 1
      BY <2>1, Zenon
    <2> DEFINE Above == {j \in S : k < j}
               Upto == Below(k) \cup {k}
    <2>3. IsFiniteSet(Below(k)) /\ k \notin Below(k)
      <3>1. k \in Nat /\ Below(k) \subseteq S
        OBVIOUS
      <3>2. ~(k < k)
        BY <3>1
      <3>3. QED
        BY <3>1, <3>2, FS_Subset, ZenonT(60)
    <2>4. Cardinality(Upto) = n
      <3> HIDE DEF Below
      <3>1. Cardinality(Upto) = Cardinality(Below(k)) + 1
        BY <2>3, FS_AddElement, ZenonT(60)
      <3>2. QED
        BY <2>1, <2>2, <3>1, Zenon
    <2>5. Above # {}
      <3>1. SUFFICES ASSUME Above = {} PROVE FALSE
        OBVIOUS
      <3>2. ASSUME NEW j \in S PROVE j \in Upto
        <4>1. j \in Nat /\ k \in Nat /\ ~(k < j)
          BY <3>1, Zenon
        <4>2. j < k \/ j = k
          BY <4>1
        <4>3. QED
          BY <4>2, Zenon
      <3>3. S = Upto
        BY <3>2, Zenon
      <3>4. Cardinality(S) = n /\ n < Cardinality(S)
        BY <1>1, <2>4, <3>3, ZenonT(60)
      <3>5. QED
        BY <1>0, <3>4
    <2>6. PICK x \in Above : \A y \in Above : x <= y
      BY <2>5, Least, ZenonT(60)
    <2>7. ASSUME NEW j \in S PROVE j \in Below(x) <=> j \in Upto
      <3>1. j \in Nat /\ k \in Nat /\ x \in Nat /\ k < x /\ (k < j => x <= j)
        BY <2>6
      <3>2. j < x <=> j < k \/ j = k
        BY <3>1
      <3>3. QED
        BY <3>2, Zenon
    <2>8. Below(x) = Upto
      BY <2>7, ZenonT(60)
    <2>9. QED
      BY <1>1, <2>4, <2>6, <2>8, ZenonT(60)
  <1>4. QED
    BY <1>2, <1>3, ZenonT(60)

(* The middle key of a full node is one of its keys, and not the least.    *)
LEMMA MedianInside ==
  ASSUME NEW e \in Entries, Cardinality(Present(e)) = MaxEntries
  PROVE  Median(e) \in Present(e) /\ \E j \in Present(e) : j < Median(e)
  <1> DEFINE S == Present(e)
             h == MaxEntries \div 2
             Below(k) == {j \in S : j < k}
  <1>1. S \subseteq Nat /\ IsFiniteSet(S)
    BY ConstantsAssumption, FS_Subset, ZenonT(60) DEF Present
  <1>2. h \in Nat /\ h < MaxEntries /\ h # 0
    BY ConstantsAssumption
  <1> HIDE DEF h
  <1>3. \E k \in S : Cardinality(Below(k)) = h
    BY <1>1, <1>2, Rank, ZenonT(60)
  <1>4. Median(e) \in S /\ Cardinality(Below(Median(e))) = h
    BY <1>3, ZenonT(60) DEF Median, h
  <1>5. Below(Median(e)) # {}
    BY <1>2, <1>4, FS_EmptySet, ZenonT(60)
  <1>6. QED
    BY <1>4, <1>5, Zenon

(* split divides entries and range of the node at the median.              *)
LEMMA SplitDivides ==
  ASSUME DataInv, NEW t \in Threads, Split(t)
  PROVE  \E med \in Keys, low \in Entries, high \in Entries :
            Divides(t, cur[t], nalloc + 1, med, low, high)
  <1> DEFINE c == cur[t]
             n == nalloc + 1
             e == node[c].entries
             med == Median(e)
             all == [e EXCEPT ![Key(t)] = req[t].val]
             low == [k \in Keys |-> IF k < med THEN all[k] ELSE NoVal]
             high == [k \in Keys |-> IF k >= med THEN all[k] ELSE NoVal]
  <1>0. ThreadInv /\ ListInv /\ LockInv /\ SplitInv
    BY Zenon DEF DataInv
  <1>1. /\ pc[t] = "locked" /\ CheckRange(c, Key(t)) /\ NumEntries(c) = MaxEntries
        /\ nalloc < MaxNodes /\ nalloc' = n
        /\ node' = [node EXCEPT ![n] = NewNode(c, med, high), ![c].entries = low]
        /\ pc' = [pc EXCEPT ![t] = "splitmax"] /\ nbr' = [nbr EXCEPT ![t] = n]
        /\ res' = [res EXCEPT ![t] = "ok"]
        /\ UNCHANGED <<todo, req, start, cur, aux, fresh, sl, logged>>
    BY Zenon DEF Split, Misplaced, Finish, Goto
  <1>2. /\ c \in Seen /\ c \in 1 .. nalloc /\ c \in NodeIds
        /\ node[c] \in NodeType /\ e \in Entries
    BY <1>0, CurType, ZenonT(60)
  <1>3. /\ nalloc \in Nat /\ nalloc >= 2 /\ n \in NodeIds /\ n \notin 1 .. nalloc
        /\ n # HeadNode /\ n # TailNode /\ \A i \in 1 .. nalloc : i \in 1 .. n
        /\ \A i \in 1 .. n : i \in 1 .. nalloc \/ i = n
    BY <1>0, <1>1, NodesInUse DEF NodeIds, HeadNode, TailNode
  <1>4. pc[t] \in Placed /\ pc[t] \in Holding /\ c # TailNode
    BY <1>0, <1>1, ZenonT(60) DEF ThreadInv, Placed, Holding, Keeping
  <1>5. all \in Entries /\ \A j \in Present(all) : j \in Keys /\ CheckRange(c, j)
    <2>1. Key(t) \in Keys /\ req[t].val \in Vals
      BY <1>0, <1>1, ZenonT(60) DEF ThreadInv, Request, Key
    <2>2. all \in Entries /\ \A j \in Present(all) : j \in Keys /\ (j \in Present(e) \/ j = Key(t))
      BY <1>2, <2>1, ZenonT(60) DEF Entries, Present
    <2>3. QED
      BY <1>0, <1>1, <1>2, <1>4, <2>2, ZenonT(60) DEF ListInv, Rightward
  <1>6. med \in Keys /\ node[c].min < med /\ med < node[c].max
    <2>1. Cardinality(Present(e)) = MaxEntries
      BY <1>1, <1>4, ZenonT(60) DEF NumEntries
    <2>2. PICK j \in Present(e) : med \in Present(e) /\ j < med
      BY <1>2, <2>1, MedianInside, ZenonT(60)
    <2>3. j \in Nat /\ med \in Nat /\ med \in Keys
      BY <2>2, ConstantsAssumption, Zenon DEF Present
    <2>4. CheckRange(c, j) /\ CheckRange(c, med) /\ node[c].min \in Nat
      BY <1>0, <1>2, <1>4, <2>2, ConstantsAssumption, ZenonT(60) DEF ListInv, Rightward
    <2>5. node[c].min <= j /\ med < node[c].max
      BY <2>4, ZenonT(60) DEF CheckRange
    <2>6. QED
      <3>1. node[c].max \in Nat
        BY <1>2, ConstantsAssumption, ZenonT(60) DEF NodeType
      <3>2. QED
        BY <2>2, <2>3, <2>4, <2>5, <3>1, Between, ZenonT(60)
  <1> HIDE DEF med, all
  <1>7. /\ low \in Entries /\ high \in Entries
        /\ \A j \in Present(low) : CheckRange(c, j) /\ j < med
        /\ \A j \in Present(high) : med <= j /\ j < node[c].max
    <2>1. low \in Entries /\ high \in Entries
      BY <1>5 DEF Entries
    <2>2. ASSUME NEW j \in Present(low) PROVE CheckRange(c, j) /\ j < med
      BY <1>5, <2>2, ZenonT(60) DEF Present
    <2>3. ASSUME NEW j \in Present(high) PROVE med <= j /\ j < node[c].max
      <3>1. j \in Keys /\ j >= med /\ j \in Present(all)
        BY <2>3, Zenon DEF Present
      <3>2. j \in Nat /\ med \in Nat
        BY <1>6, <3>1, ConstantsAssumption, ZenonT(60)
      <3>3. QED
        BY <1>5, <3>1, <3>2, ZenonT(60) DEF CheckRange
    <2>4. QED
      BY <2>1, <2>2, <2>3, ZenonT(60)
  <1> HIDE DEF low, high
  <1> DEFINE new == NewNode(c, med, high)
             old == [node[c] EXCEPT !.entries = low]
  <1>8. /\ new \in NodeType /\ new.min = med /\ new.max = node[c].max /\ new.next = node[c].next
        /\ new.prev = c /\ new.locked = FALSE /\ new.entries = high
    BY <1>2, <1>6, <1>7, ZenonT(60) DEF NewNode, Blank, NodeType
  <1>9. /\ old \in NodeType /\ old.min = node[c].min /\ old.max = node[c].max
        /\ old.next = node[c].next /\ old.prev = node[c].prev /\ old.locked = node[c].locked
        /\ old.entries = low
    BY <1>2, <1>7, ZenonT(60) DEF NodeType
  <1>10. c # n /\ node \in [NodeIds -> NodeType]
    BY <1>0, <1>2, <1>3, ZenonT(60) DEF ThreadInv
  <1> HIDE DEF n, c, new
  <1>11. /\ node' \in [NodeIds -> NodeType] /\ node'[n] = new /\ node'[c] = old
         /\ \A i \in NodeIds \ {c, n} : node'[i] = node[i]
    BY <1>1, <1>2, <1>3, <1>8, <1>9, <1>10, ZenonT(60) DEF new
  <1> HIDE DEF old
  <1>12. Divides(t, c, n, med, low, high)
    BY <1>1, <1>2, <1>3, <1>4, <1>6, <1>7, <1>8, <1>9, <1>11, ZenonT(60) DEF Divides, c
  <1>13. QED
    BY <1>6, <1>7, <1>12, ZenonT(60) DEF c, n

(* Hence split preserves the invariant.                                    *)
LEMMA SplitStep ==
  ASSUME DataInv, NEW t \in Threads, Split(t)
  PROVE  DataInv'
  BY SplitDivides, SplitNode, ZenonT(60)

-----------------------------------------------------------------------------
(***************************************************************************)
(* The theorems.                                                           *)
(***************************************************************************)
LEMMA NextDataInv ==
  ASSUME DataInv, NoMerge', [Next]_vars
  PROVE  DataInv'
  <1>1. CASE UNCHANGED vars
    <2>1. UNCHANGED <<node, nalloc, todo, pc, req, start, cur, nbr, aux, fresh, res, sl, logged>>
      BY <1>1 DEF vars, local
    <2>2. Seen' = Seen /\ ListInv' /\ LockInv' /\ SplitInv'
      BY <2>1, ListSame, ZenonT(60) DEF DataInv
    <2>3. ThreadInv'
      BY <2>1, <2>2, ZenonT(60) DEF DataInv, ThreadInv
    <2>4. QED
      BY <2>2, <2>3, ZenonT(60) DEF DataInv
  <1>2. ASSUME NEW t \in Threads, Call(t) \/ Step(t) PROVE DataInv'
    <2>1. /\ ~MergeMove(t) /\ ~MergeNext(t) /\ ~MergePrev(t) /\ ~MergeDelete(t)
          /\ ~MergeMax(t) /\ ~MergeUnlock(t) /\ ~MergeLog(t)
      BY NoMergeStep DEF DataInv
    <2>2. QED
      BY <1>2, <2>1, SearchStep, ReadStep, SizeStep, LockStep, UnlockStep, EntryStep, SplitStep,
         SplitMaxStep, SplitLinkStep, SplitNextStep, SplitPrevStep, ZenonT(60) DEF Step
  <1>3. ASSUME NEW o \in logged, ApplyLogged(o) PROVE DataInv'
    BY <1>3, ApplyStep
  <1>4. QED
    BY <1>1, <1>2, <1>3, ZenonT(60) DEF Next, Finished

(* While no two nodes are merged, the list keeps its shape through every   *)
(* interleaving of inserts, updates, lookups, removals and splits.         *)
THEOREM DataInvariance == Spec /\ []NoMerge => []DataInv
  <1>1. Init => DataInv
    BY InitDataInv
  <1>2. DataInv /\ NoMerge' /\ [Next]_vars => DataInv'
    BY NextDataInv
  <1>3. QED
    BY <1>1, <1>2, PTL DEF Spec

(* No thread follows a null pointer: every walk stays in the list.         *)
THEOREM WalksStayInList == Spec /\ []NoMerge => []TypeOK
  <1>1. DataInv => TypeOK
    <2> SUFFICES ASSUME DataInv PROVE TypeOK
      OBVIOUS
    <2>1. ThreadInv /\ Seen \subseteq NodeIds
      BY NodesInUse DEF DataInv
    <2>2. \A n \in NodeIds :
            /\ node[n].min \in Keys \cup {MaxKey} /\ node[n].max \in Keys \cup {MaxKey}
            /\ node[n].next \in NodeIds \cup {Null} /\ node[n].prev \in NodeIds \cup {Null}
            /\ node[n].deleted \in BOOLEAN /\ node[n].locked \in BOOLEAN
            /\ node[n].entries \in Entries
      BY <2>1, ZenonT(60) DEF ThreadInv, NodeType
    <2>3. ASSUME NEW t \in Threads
          PROVE  /\ [start |-> start[t], cur |-> cur[t], nbr |-> nbr[t],
                     fresh |-> fresh[t], res |-> res[t]] \in Locals
                 /\ aux[t] \in NodeIds \cup {Null, NoVal} \cup Vals
      BY <2>1, ZenonT(60) DEF ThreadInv, Locals
    <2>4. logged \subseteq [op : {"insert", "remove"}, node : NodeIds]
      BY <2>1, ZenonT(60) DEF ThreadInv
    <2>5. QED
      BY <2>1, <2>2, <2>3, <2>4, ZenonT(60) DEF ThreadInv, TypeOK
  <1>2. QED
    BY <1>1, DataInvariance, PTL

(* A step to the predecessor goes strictly left, also when two splits      *)
(* write the same predecessor in either order.                             *)
THEOREM PredecessorsAreLeft == Spec /\ []NoMerge => []PrevIsLeft
  <1>1. DataInv => PrevIsLeft
    BY ZenonT(60) DEF DataInv, ListInv, Leftward, PrevIsLeft
  <1>2. QED
    BY <1>1, DataInvariance, PTL

(* The ranges of the unlocked nodes tile the keys, and their entries are   *)
(* in range.                                                               *)
THEOREM RangesTile == Spec /\ []NoMerge => []RangesMeet
  <1>1. DataInv => RangesMeet
    <2> SUFFICES ASSUME DataInv, NEW n \in Linked, Unlocked(n)
                 PROVE  /\ node[n].max = node[node[n].next].min
                        /\ ~node[node[n].next].deleted
                        /\ \A k \in Present(node[n].entries) : CheckRange(n, k)
      BY DEF RangesMeet
    <2>1. ThreadInv /\ LockInv /\ Rightward(n) /\ n # TailNode
      BY Zenon DEF DataInv, ListInv, Linked
    <2>2. \A t \in Threads : pc[t] = "splitlink" => cur[t] # n
      BY <2>1, ZenonT(60) DEF LockInv, Unlocked, Holding, Splitting, Hidden
    <2>3. node[n].next \in NodeIds
      BY <2>1, NodesInUse DEF Rightward
    <2>4. ~node[node[n].next].deleted
      BY <2>1, <2>3, ZenonT(60) DEF ThreadInv, NodeType
    <2>5. QED
      BY <2>1, <2>2, <2>4, ZenonT(60) DEF Rightward
  <1>2. QED
    BY <1>1, DataInvariance, PTL

(* Every lock is given back: when no call is in the list no node is locked. *)
THEOREM LocksGivenBack == Spec /\ []NoMerge => []UnlockedAtRest
  <1>1. DataInv => UnlockedAtRest
    <2> SUFFICES ASSUME DataInv, Quiescent, NEW n \in 1 .. nalloc
                 PROVE  ~node[n].deleted /\ Unlocked(n)
      BY DEF UnlockedAtRest
    <2>1. ThreadInv /\ LockInv /\ n \in NodeIds
      BY NodesInUse DEF DataInv
    <2>2. ~node[n].deleted
      BY <2>1, ZenonT(60) DEF ThreadInv, NodeType
    <2>3. \A t \in Threads : pc[t] \notin Holding
      BY LabelSets DEF Quiescent, Free
    <2>4. QED
      BY <2>1, <2>2, <2>3, ZenonT(60) DEF LockInv, Unlocked
  <1>2. QED
    BY <1>1, DataInvariance, PTL

-----------------------------------------------------------------------------
(***************************************************************************)
(* Programs without removals.  Only remove looks at its neighbours, so     *)
(* that inserts, updates and lookups alone never merge.                    *)
(***************************************************************************)
Calls == {r \in Request : r.op # "remove"}

NoRemoves == \A s \in Scenarios : s.program \in [Threads -> Seq(SUBSET Calls)]

Growing == Free \cup Splitting \cup {"locked", "unlock"}

GrowInv ==
    /\ pc \in [Threads -> Growing]
    /\ todo \in [Threads -> Seq(SUBSET Calls)]
    /\ DOMAIN req = Threads /\ \A t \in Threads : Op(t) # "remove"

(* At the start no thread is in a call.                                    *)
LEMMA InitGrows ==
  ASSUME NoRemoves, Init
  PROVE  GrowInv
  <1>1. pc \in [Threads -> Growing]
    BY DEF Init, Growing, Free
  <1>2. todo \in [Threads -> Seq(SUBSET Calls)]
    BY ZenonT(60) DEF Init, NoRemoves
  <1>3. DOMAIN req = Threads /\ \A t \in Threads : Op(t) # "remove"
    BY DEF Init, Op
  <1>4. QED
    BY <1>1, <1>2, <1>3, ZenonT(60) DEF GrowInv

(* A thread's step, without a removal, keeps out of the merges.            *)
LEMMA StepGrows ==
  ASSUME GrowInv, NEW t \in Threads, Step(t)
  PROVE  UNCHANGED <<todo, req>> /\ \E l \in Growing : Goto(t, l)
  <1>1. pc \in [Threads -> Growing] /\ pc[t] \in Growing /\ Op(t) # "remove"
    BY DEF GrowInv
  <1>2. pc[t] \notin {"sizenext", "loadprev", "sizeprev", "reload", "mnlock", "mplock",
                      "mnmove", "mpmove", "mnnext", "mpnext", "mnprev", "mpprev", "mndel",
                      "mpdel", "mnmax", "mpmax", "mpunlock", "merged"}
    BY <1>1 DEF Growing, Free, Splitting, Hidden
  <1>3. {"idle", "search", "walk", "right", "lock", "locked", "unlock", "read", "validate",
         "return", "splitmax", "splitlink", "splitnext", "splitprev", "splitlog"} \subseteq Growing
    BY ZenonT(60) DEF Growing, Free, Splitting, Hidden
  <1>4. CASE GetJumpNode(t) \/ SearchTree(t) \/ WalkRight(t)
    BY <1>3, <1>4, ZenonT(60) DEF GetJumpNode, SearchTree, WalkRight
  <1>5. CASE Walk(t)
    <2>1. pc[t] = "walk" /\ UNCHANGED <<todo, req>>
      BY <1>5, Zenon DEF Walk
    <2>2. pc' = pc \/ Goto(t, "lock") \/ Goto(t, "right")
      BY <1>5, ZenonT(60) DEF Walk
    <2>3. pc' = pc => Goto(t, "walk")
      BY <1>1, <2>1, ZenonT(60) DEF Goto
    <2>4. QED
      BY <1>3, <2>1, <2>2, <2>3, ZenonT(60)
  <1>6. CASE WriteLock(t) \/ WriteLockFails(t) \/ Recheck(t) \/ Unlock(t)
    BY <1>3, <1>6, ZenonT(60) DEF WriteLock, WriteLockFails, Recheck, Unlock, Restart, Leave
  <1>7. CASE ReadLock(t) \/ Read(t) \/ ReadUnlock(t) \/ LookupReturn(t)
    BY <1>3, <1>7, ZenonT(60) DEF ReadLock, Read, ReadUnlock, LookupReturn, Restart, Leave
  <1>8. CASE Update(t) \/ InsertHere(t) \/ Split(t)
    BY <1>3, <1>8, ZenonT(60) DEF Update, InsertHere, Split
  <1>9. CASE SplitMax(t) \/ SplitLink(t) \/ SplitNext(t) \/ SplitPrev(t) \/ SplitLog(t)
    BY <1>3, <1>9, ZenonT(60) DEF SplitMax, SplitLink, SplitNext, SplitPrev, SplitLog
  <1>10. /\ ~Remove(t) /\ ~SizeNext(t) /\ ~LoadPrev(t) /\ ~SizePrev(t) /\ ~ReloadPrev(t)
         /\ ~LockNeighbour(t)
    BY <1>1, <1>2, ZenonT(60) DEF Remove, SizeNext, LoadPrev, SizePrev, ReloadPrev, LockNeighbour
  <1>11. /\ ~MergeMove(t) /\ ~MergeNext(t) /\ ~MergePrev(t) /\ ~MergeDelete(t)
         /\ ~MergeMax(t) /\ ~MergeUnlock(t) /\ ~MergeLog(t)
    BY <1>2 DEF MergeMove, MergeNext, MergePrev, MergeDelete, MergeMax, MergeUnlock, MergeLog
  <1>12. QED
    BY <1>4, <1>5, <1>6, <1>7, <1>8, <1>9, <1>10, <1>11, ZenonT(60) DEF Step

(* Without removals no step enters a merge.                                *)
LEMMA NextGrows ==
  ASSUME GrowInv, [Next]_vars
  PROVE  GrowInv'
  <1>1. CASE \E t \in Threads : Call(t)
    <2>1. PICK t \in Threads : Call(t)
      BY <1>1
    <2>2. todo[t] \in Seq(SUBSET Calls) /\ todo[t] # <<>>
      BY <2>1, Zenon DEF GrowInv, Call
    <2>3. Tail(todo[t]) \in Seq(SUBSET Calls) /\ Head(todo[t]) \in SUBSET Calls
      BY <2>2
    <2>4. todo' \in [Threads -> Seq(SUBSET Calls)]
      BY <2>1, <2>3, ZenonT(60) DEF GrowInv, Call
    <2>5. DOMAIN req' = Threads /\ \A u \in Threads : Op(u)' # "remove"
      BY <2>1, <2>3, ZenonT(60) DEF GrowInv, Call, Calls, Op
    <2>6. pc' \in [Threads -> Growing]
      BY <2>1, ZenonT(60) DEF GrowInv, Call, Goto, Growing, Free
    <2>7. QED
      BY <2>4, <2>5, <2>6, ZenonT(60) DEF GrowInv
  <1>2. CASE \E t \in Threads : Step(t)
    <2>1. PICK t \in Threads, l \in Growing : UNCHANGED <<todo, req>> /\ Goto(t, l)
      BY <1>2, StepGrows, ZenonT(60)
    <2>2. QED
      BY <2>1 DEF GrowInv, Goto, Op
  <1>3. CASE UNCHANGED <<pc, todo, req>>
    BY <1>3 DEF GrowInv, Op
  <1>4. QED
    BY <1>1, <1>2, <1>3, ZenonT(60) DEF Next, ApplyLogged, Finished, vars

(* A program of inserts, updates and lookups never merges two nodes.       *)
THEOREM GrowingNeverMerges ==
  ASSUME NoRemoves
  PROVE  Spec => []NoMerge
  <1>1. Init => GrowInv
    BY InitGrows
  <1>2. GrowInv /\ [Next]_vars => GrowInv'
    BY NextGrows
  <1>3. GrowInv => NoMerge
    BY Zenon DEF GrowInv, NoMerge, Growing, Free, Splitting, Hidden
  <1>4. QED
    BY <1>1, <1>2, <1>3, PTL DEF Spec

(* While the list only grows, whatever splits race, no walk leaves it, the *)
(* ranges meet, predecessors are on the left and every lock is given back. *)
THEOREM GrowingListIsSound ==
  ASSUME NoRemoves
  PROVE  Spec => [](TypeOK /\ PrevIsLeft /\ RangesMeet /\ UnlockedAtRest)
  BY GrowingNeverMerges, WalksStayInList, PredecessorsAreLeft, RangesTile, LocksGivenBack, PTL
=============================================================================
