--------------------- MODULE ReplicationDeliveryProofs ---------------------
(***************************************************************************)
(* Proofs about what reaches the replicas, for any threads, nodes and      *)
(* number of workers: no operation is lost and none is duplicated on its   *)
(* way from enq to a numbered log; what a worker's replica holds, and      *)
(* which nodes worker 0 frees.                                             *)
(***************************************************************************)
EXTENDS ReplicationProofs, FiniteSetTheorems

(* A step may take half a minute: the provers' own limit is shorter.       *)
USE SMTT(30), ZenonT(30)

-----------------------------------------------------------------------------
(***************************************************************************)
(* Exactly once.  A pending operation has not returned and is nobody       *)
(* else's, so the push gives it its first and only place; combineLogs then *)
(* moves it, from a queue to the merged log and on to a numbered one,      *)
(* and mergedLog is empty outside a round.                                 *)
(***************************************************************************)
PendingInv ==
    /\ \A t \in Threads : pc[t] # "idle" => arg[t] \notin returned
    /\ \A t, u \in Threads : t # u /\ pc[t] # "idle" /\ pc[u] # "idle" => arg[t] # arg[u]
    /\ cpc \notin {"merge", "copy"} => merged = << >>

AtMostOnce == \A o \in Op : \A x, y \in Places(o) : x = y

Somewhere == \A o \in Op : o \in returned <=> Places(o) # {}

OnceInv == PendingInv /\ AtMostOnce /\ Somewhere

(* What the places of an operation are, in terms of the elements of the    *)
(* sequences.                                                              *)
LEMMA QueuePlacesDef ==
  ASSUME NEW o, NEW oq, NEW x
  PROVE  x \in QueuePlaces(o, oq) <=>
           \E t \in Threads, q \in {0, 1} : \E i \in DOMAIN oq[t][q] :
               x = <<"queue", t, q, i>> /\ oq[t][q][i] = o
  <1> DEFINE Row(t, q) == {<<"queue", t, q, i>> : i \in {j \in DOMAIN oq[t][q] : oq[t][q][j] = o}}
  <1>1. \A t, q : x \in Row(t, q) <=>
                   \E i \in DOMAIN oq[t][q] : x = <<"queue", t, q, i>> /\ oq[t][q][i] = o
    BY Zenon
  <1>2. QueuePlaces(o, oq) = UNION {Row(t, q) : t \in Threads, q \in {0, 1}}
    BY DEF QueuePlaces
  <1> HIDE DEF Row
  <1>3. x \in UNION {Row(t, q) : t \in Threads, q \in {0, 1}}
           <=> \E t \in Threads, q \in {0, 1} : x \in Row(t, q)
    OBVIOUS
  <1>4. QED
    BY <1>1, <1>2, <1>3

(* The places of an operation in the batch.                                *)
LEMMA MergedPlacesDef ==
  ASSUME NEW o, NEW m, NEW x
  PROVE  x \in MergedPlaces(o, m) <=> \E i \in DOMAIN m : x = <<"merged", i>> /\ m[i] = o
  BY Zenon DEF MergedPlaces

(* The places of an operation in the logs.                                 *)
LEMMA LogPlacesDef ==
  ASSUME NEW o, NEW ls, NEW x
  PROVE  x \in LogPlaces(o, ls) <=>
           \E k \in DOMAIN ls : \E i \in DOMAIN ls[k] : x = <<"log", k, i>> /\ ls[k][i] = o
  <1> DEFINE Row(k) == {<<"log", k, i>> : i \in {j \in DOMAIN ls[k] : ls[k][j] = o}}
  <1>1. \A k : x \in Row(k) <=> \E i \in DOMAIN ls[k] : x = <<"log", k, i>> /\ ls[k][i] = o
    BY Zenon
  <1>2. LogPlaces(o, ls) = UNION {Row(k) : k \in DOMAIN ls}
    BY Zenon DEF LogPlaces
  <1> HIDE DEF Row
  <1>3. x \in UNION {Row(k) : k \in DOMAIN ls} <=> \E k \in DOMAIN ls : x \in Row(k)
    BY Zenon
  <1>4. QED
    BY <1>1, <1>2, <1>3, Zenon

(* When nothing is moved, nothing is lost or duplicated.                   *)
LEMMA PlacesFrame ==
  ASSUME AtMostOnce, Somewhere, UNCHANGED <<op_, merged, logs, returned>>
  PROVE  AtMostOnce' /\ Somewhere'
  <1>1. \A o : Places(o)' = Places(o)
    BY DEF Places
  <1>2. QED
    BY <1>1 DEF AtMostOnce, Somewhere

(* Places that are the images of the old places, one for each.             *)
LEMMA MovedPlaces ==
  ASSUME NEW P, NEW Q, NEW h, Q = {h[x] : x \in P}, \A x, y \in P : x = y
  PROVE  (\A x, y \in Q : x = y) /\ (Q # {} <=> P # {})
  <1>1. \A y \in Q : \E x \in P : y = h[x]
    OBVIOUS
  <1>2. \A x \in P : h[x] \in Q
    OBVIOUS
  <1>3. QED
    BY <1>1, <1>2, ZenonT(60)

(* What std::sort leaves is a rearrangement: p says where the elements     *)
(* come from, g where they go.                                             *)
LEMMA OrdersInverse ==
  ASSUME NEW S, NEW s \in Seq(S), NEW r \in Orders(s)
  PROVE  \E p, g \in [DOMAIN s -> DOMAIN s] :
            /\ r = [i \in DOMAIN s |-> s[p[i]]]
            /\ \A i \in DOMAIN s : p[g[i]] = i /\ g[p[i]] = i
  <1> DEFINE D == DOMAIN s
  <1>1. PICK p \in [D -> D] : /\ r = [i \in D |-> s[p[i]]]
                              /\ \A i, j \in D : p[i] = p[j] => i = j
    BY Zenon DEF Orders
  <1>2. D = 1 .. Len(s) /\ Len(s) \in Nat
    BY LenProperties
  <1>3. IsFiniteSet(D)
    BY <1>2, FS_Interval
  <1> HIDE DEF D
  <1>4. p \in Injection(D, D)
    BY <1>1, Zenon DEF Injection, IsInjective
  <1>5. p \in Surjection(D, D)
    BY <1>3, <1>4, FS_Injection, Zenon
  <1>6. \A j \in D : \E i \in D : p[i] = j
    BY <1>5 DEF Surjection
  <1> DEFINE g == [j \in D |-> CHOOSE i \in D : p[i] = j]
  <1>7. g \in [D -> D] /\ \A j \in D : p[g[j]] = j
    BY <1>6, Zenon
  <1> HIDE DEF g
  <1>8. \A i \in D : g[p[i]] = i
    BY <1>1, <1>7, Zenon
  <1>9. QED
    BY <1>1, <1>7, <1>8, ZenonT(60) DEF D

(* push_back gives the operation its only place.                           *)
LEMMA OncePush ==
  ASSUME LogTypeOK, PendingInv, AtMostOnce, Somewhere, NEW t \in Threads, EnqPush(t)
  PROVE  AtMostOnce' /\ Somewhere'
  <1>0. /\ qnum[t] \in {0, 1} /\ arg[t] \in Op
        /\ op_ \in [Threads -> [{0, 1} -> Seq(Op)]]
    BY Zenon DEF LogTypeOK, ThreadTypeOK, QueueTypeOK, EnqPush
  <1>1. /\ op_' = [op_ EXCEPT ![t][qnum[t]] = Append(@, arg[t])]
        /\ returned' = returned \cup {arg[t]}
        /\ UNCHANGED <<merged, logs>>
    BY DEF EnqPush, combinerVars
  <1>2. arg[t] \notin returned
    BY ZenonT(60) DEF PendingInv, EnqPush
  <1> DEFINE n == Len(op_[t][qnum[t]]) + 1
             new == <<"queue", t, qnum[t], n>>
  <1>3. /\ op_[t][qnum[t]] \in Seq(Op) /\ op_'[t][qnum[t]] \in Seq(Op) /\ n \in Nat
        /\ DOMAIN op_[t][qnum[t]] = 1 .. n - 1
        /\ DOMAIN op_'[t][qnum[t]] = 1 .. n
        /\ op_'[t][qnum[t]][n] = arg[t]
        /\ \A i \in 1 .. n - 1 : op_'[t][qnum[t]][i] = op_[t][qnum[t]][i]
    <2>1. op_[t][qnum[t]] \in Seq(Op)
      BY <1>0, Zenon
    <2>2. op_'[t][qnum[t]] = Append(op_[t][qnum[t]], arg[t])
      BY <1>0, <1>1, Zenon
    <2>3. QED
      BY <1>0, <2>1, <2>2, AppendProperties, LenProperties
  <1>4. \A u \in Threads, q \in {0, 1} :
          u # t \/ q # qnum[t] => op_'[u][q] = op_[u][q]
    BY <1>0, <1>1, Zenon
  <1> HIDE DEF n
  <1>5. ASSUME NEW o \in Op
        PROVE  QueuePlaces(o, op_') =
                 QueuePlaces(o, op_) \cup (IF o = arg[t] THEN {new} ELSE {})
    <2>0. n \in 1 .. n
      BY <1>3 DEF n
    <2>1. ASSUME NEW x PROVE x \in QueuePlaces(o, op_') =>
                               x \in QueuePlaces(o, op_) \/ (o = arg[t] /\ x = new)
      <3> SUFFICES ASSUME NEW u \in Threads, NEW q \in {0, 1}, NEW i \in DOMAIN op_'[u][q],
                          x = <<"queue", u, q, i>>, op_'[u][q][i] = o
                   PROVE  x \in QueuePlaces(o, op_) \/ (o = arg[t] /\ x = new)
        BY QueuePlacesDef
      <3>1. CASE u = t /\ q = qnum[t] /\ i = n
        BY <1>3, <3>1, Zenon
      <3>2. CASE ~(u = t /\ q = qnum[t] /\ i = n)
        <4>1. i \in DOMAIN op_[u][q] /\ op_[u][q][i] = o
          <5>1. CASE u = t /\ q = qnum[t]
            <6>1. i \in 1 .. n /\ i # n
              BY <1>3, <3>2, <5>1, Zenon
            <6>2. n \in Nat
              BY <1>3, Zenon
            <6>3. i \in 1 .. n - 1
              BY <6>1, <6>2
            <6>4. QED
              BY <1>3, <5>1, <6>3, Zenon
          <5>2. QED
            BY <1>4, <5>1, Zenon
        <4>2. QED
          BY <4>1, QueuePlacesDef, Zenon
      <3>3. QED
        BY <3>1, <3>2, Zenon
    <2>2. ASSUME NEW x, x \in QueuePlaces(o, op_) PROVE x \in QueuePlaces(o, op_')
      <3>1. PICK u \in Threads, q \in {0, 1} : \E i \in DOMAIN op_[u][q] :
                     x = <<"queue", u, q, i>> /\ op_[u][q][i] = o
        BY <2>2, QueuePlacesDef
      <3>2. PICK i \in DOMAIN op_[u][q] : x = <<"queue", u, q, i>> /\ op_[u][q][i] = o
        BY <3>1, Zenon
      <3>3. i \in DOMAIN op_'[u][q] /\ op_'[u][q][i] = o
        <4>1. CASE u = t /\ q = qnum[t]
          <5>1. i \in 1 .. n - 1 /\ op_[u][q][i] = o
            BY <1>3, <3>2, <4>1, ZenonT(60)
          <5>2. op_'[u][q][i] = op_[u][q][i] /\ i \in 1 .. n
            BY <1>3, <4>1, <5>1
          <5>3. QED
            BY <1>3, <4>1, <5>1, <5>2, Zenon
        <4>2. CASE ~(u = t /\ q = qnum[t])
          BY <1>4, <3>2, <4>2, Zenon
        <4>3. QED
          BY <4>1, <4>2, Zenon
      <3>4. QED
        BY <3>2, <3>3, QueuePlacesDef
    <2>3. o = arg[t] => new \in QueuePlaces(o, op_')
      <3>1. n \in DOMAIN op_'[t][qnum[t]]
        BY <1>3, <2>0, Zenon
      <3>2. QED
        BY <1>0, <1>3, <3>1, QueuePlacesDef, ZenonT(60)
    <2>4. QED
      BY <2>1, <2>2, <2>3, ZenonT(60)
  <1>6. ASSUME NEW o \in Op
        PROVE  Places(o)' = Places(o) \cup (IF o = arg[t] THEN {new} ELSE {})
    <2>1. Places(o)' = QueuePlaces(o, op_') \cup MergedPlaces(o, merged) \cup LogPlaces(o, logs)
      BY <1>1 DEF Places
    <2> HIDE DEF new
    <2>2. QED
      BY <1>5, <2>1, Zenon DEF Places
  <1>7. Places(arg[t]) = {}
    BY <1>0, <1>2 DEF Somewhere
  <1> HIDE DEF new
  <1>8. ASSUME NEW o \in Op
        PROVE  /\ \A x, y \in Places(o)' : x = y
               /\ o \in returned' <=> Places(o)' # {}
    <2>1. CASE o = arg[t]
      BY <1>1, <1>6, <1>7, <2>1, Zenon
    <2>2. CASE o # arg[t]
      BY <1>1, <1>6, <2>2 DEF AtMostOnce, Somewhere
    <2>3. QED
      BY <2>1, <2>2, Zenon
  <1>9. QED
    BY <1>8, Zenon DEF AtMostOnce, Somewhere

(* combineLogs moves the drained queue to the end of the merged log.       *)
LEMMA OnceCopy ==
  ASSUME LogTypeOK, AtMostOnce, Somewhere, NEW t \in Threads, CombinerCopy(t)
  PROVE  AtMostOnce' /\ Somewhere'
  <1> DEFINE c == 1 - curQ
             src == op_[t][c]
             L == Len(merged)
  <1>0. /\ c \in {0, 1} /\ merged \in Seq(Op)
        /\ op_ \in [Threads -> [{0, 1} -> Seq(Op)]]
    BY DEF LogTypeOK, QueueTypeOK, CombinerTypeOK
  <1>1. /\ merged' = merged \o src
        /\ op_' = [op_ EXCEPT ![t][c] = << >>]
        /\ UNCHANGED <<logs, returned>>
    BY DEF CombinerCopy, threadVars
  <1> HIDE DEF c
  <1>2. /\ src \in Seq(Op) /\ L \in Nat /\ Len(src) \in Nat
        /\ DOMAIN merged = 1 .. L /\ DOMAIN src = 1 .. Len(src)
    <2>1. src \in Seq(Op)
      BY <1>0, Zenon
    <2>2. QED
      BY <1>0, <2>1, LenProperties, Zenon
  <1>3. /\ DOMAIN merged' = 1 .. L + Len(src)
        /\ \A i \in 1 .. L : merged'[i] = merged[i]
        /\ \A i \in 1 .. Len(src) : merged'[L + i] = src[i]
    <2>1. /\ merged' \in Seq(Op) /\ Len(merged') = L + Len(src)
          /\ \A i \in 1 .. L + Len(src) :
                merged'[i] = IF i <= L THEN merged[i] ELSE src[i - L]
      BY <1>0, <1>1, <1>2, ConcatProperties, Zenon
    <2>2. DOMAIN merged' = 1 .. L + Len(src)
      BY <2>1, LenProperties
    <2>3. \A i \in 1 .. L : merged'[i] = merged[i]
      BY <1>2, <2>1
    <2>4. ASSUME NEW i \in 1 .. Len(src) PROVE merged'[L + i] = src[i]
      <3>1. L + i \in 1 .. L + Len(src) /\ ~(L + i <= L) /\ (L + i) - L = i
        BY <1>2
      <3>2. QED
        BY <2>1, <3>1, Zenon
    <2>5. QED
      BY <2>2, <2>3, <2>4, Zenon
  <1>4. /\ op_'[t][c] = << >>
        /\ \A u \in Threads, q \in {0, 1} : u # t \/ q # c => op_'[u][q] = op_[u][q]
    BY <1>0, <1>1
  <1> HIDE DEF src, L
  <1> DEFINE Gone == {<<"queue", t, c, i>> : i \in DOMAIN src}
  <1>5. ASSUME NEW o \in Op
        PROVE  \E h : Places(o)' = {h[x] : x \in Places(o)}
    <2> DEFINE h == [x \in Places(o) |-> IF x \in Gone THEN <<"merged", L + x[4]>> ELSE x]
    <2>1. \A x \in Places(o) : x \notin Gone => h[x] = x
      BY Zenon
    <2>2. ASSUME NEW i \in DOMAIN src, src[i] = o
          PROVE  <<"queue", t, c, i>> \in Places(o) /\ h[<<"queue", t, c, i>>] = <<"merged", L + i>>
      <3>1. <<"queue", t, c, i>> \in QueuePlaces(o, op_)
        BY <1>0, <2>2, QueuePlacesDef, ZenonT(60) DEF src
      <3>2. <<"queue", t, c, i>> \in Gone /\ <<"queue", t, c, i>>[4] = i
        OBVIOUS
      <3>3. QED
        BY <3>1, <3>2, Zenon DEF Places
    <2> HIDE DEF h
    <2>3. ASSUME NEW x \in Places(o) PROVE h[x] \in Places(o)'
      <3>1. CASE x \in QueuePlaces(o, op_)
        <4>1. PICK u \in Threads, q \in {0, 1} : \E i \in DOMAIN op_[u][q] :
                       x = <<"queue", u, q, i>> /\ op_[u][q][i] = o
          BY <3>1, QueuePlacesDef
        <4>2. PICK i \in DOMAIN op_[u][q] : x = <<"queue", u, q, i>> /\ op_[u][q][i] = o
          BY <4>1
        <4>3. CASE u = t /\ q = c
          <5>1. i \in DOMAIN src /\ src[i] = o
            BY <4>2, <4>3 DEF src
          <5>2. h[x] = <<"merged", L + i>>
            BY <2>2, <4>2, <4>3, <5>1, ZenonT(60)
          <5>3. L + i \in DOMAIN merged' /\ merged'[L + i] = o
            BY <1>2, <1>3, <5>1
          <5>4. h[x] \in MergedPlaces(o, merged')
            BY <5>2, <5>3, MergedPlacesDef, ZenonT(60)
          <5>5. QED
            BY <5>4, Zenon DEF Places
        <4>4. CASE ~(u = t /\ q = c)
          <5>1. op_'[u][q] = op_[u][q]
            BY <1>4, <4>4, Zenon
          <5>2. x \notin Gone
            BY <4>2, <4>4, Zenon
          <5>3. x \in QueuePlaces(o, op_')
            BY <4>2, <5>1, QueuePlacesDef, ZenonT(60)
          <5>4. QED
            BY <2>1, <5>2, <5>3, Zenon DEF Places
        <4>5. QED
          BY <4>3, <4>4
      <3>2. CASE x \in MergedPlaces(o, merged)
        <4>1. PICK i \in DOMAIN merged : x = <<"merged", i>> /\ merged[i] = o
          BY <3>2, MergedPlacesDef, Zenon
        <4>2. x \notin Gone
          BY <4>1, Zenon
        <4>3. i \in DOMAIN merged' /\ merged'[i] = o
          BY <1>2, <1>3, <4>1
        <4>4. x \in MergedPlaces(o, merged')
          BY <4>1, <4>3, MergedPlacesDef, ZenonT(60)
        <4>5. QED
          BY <2>1, <4>2, <4>4 DEF Places
      <3>3. CASE x \in LogPlaces(o, logs)
        <4>1. PICK k \in DOMAIN logs : \E i \in DOMAIN logs[k] : x = <<"log", k, i>>
          BY <3>3, LogPlacesDef
        <4>2. x \notin Gone
          BY <4>1
        <4>3. QED
          BY <1>1, <2>1, <3>3, <4>2, Zenon DEF Places
      <3>4. QED
        BY <3>1, <3>2, <3>3, Zenon DEF Places
    <2>4. ASSUME NEW y \in Places(o)' PROVE \E x \in Places(o) : y = h[x]
      <3>1. CASE y \in QueuePlaces(o, op_')
        <4>1. PICK u \in Threads, q \in {0, 1} : \E i \in DOMAIN op_'[u][q] :
                       y = <<"queue", u, q, i>> /\ op_'[u][q][i] = o
          BY <3>1, QueuePlacesDef
        <4>2. PICK i \in DOMAIN op_'[u][q] : y = <<"queue", u, q, i>> /\ op_'[u][q][i] = o
          BY <4>1, Zenon
        <4>3. ~(u = t /\ q = c)
          BY <1>4, <4>2
        <4>4. op_'[u][q] = op_[u][q] /\ y \notin Gone
          BY <1>4, <4>2, <4>3, Zenon
        <4>5. y \in QueuePlaces(o, op_)
          BY <4>2, <4>4, QueuePlacesDef, ZenonT(60)
        <4>6. QED
          BY <2>1, <4>4, <4>5, Zenon DEF Places
      <3>2. CASE y \in MergedPlaces(o, merged')
        <4>1. PICK j \in DOMAIN merged' : y = <<"merged", j>> /\ merged'[j] = o
          BY <3>2, MergedPlacesDef, Zenon
        <4>2. CASE j \in 1 .. L
          <5>1. j \in DOMAIN merged /\ merged[j] = o /\ y \notin Gone
            BY <1>2, <1>3, <4>1, <4>2, Zenon
          <5>2. y \in MergedPlaces(o, merged)
            BY <4>1, <5>1, MergedPlacesDef, Zenon
          <5>3. QED
            BY <2>1, <5>1, <5>2, Zenon DEF Places
        <4>3. CASE j \notin 1 .. L
          <5>1. j - L \in DOMAIN src /\ L + (j - L) = j
            BY <1>2, <1>3, <4>1, <4>3
          <5>2. src[j - L] = o
            BY <1>2, <1>3, <4>1, <5>1, ZenonT(60)
          <5>3. QED
            BY <2>2, <4>1, <5>1, <5>2, ZenonT(60)
        <4>4. QED
          BY <4>2, <4>3
      <3>3. CASE y \in LogPlaces(o, logs')
        <4>1. y \in LogPlaces(o, logs)
          BY <1>1, <3>3, Zenon
        <4>2. PICK k \in DOMAIN logs : \E i \in DOMAIN logs[k] : y = <<"log", k, i>>
          BY <4>1, LogPlacesDef
        <4>3. y \notin Gone
          BY <4>2
        <4>4. QED
          BY <2>1, <4>1, <4>3, Zenon DEF Places
      <3>4. QED
        BY <3>1, <3>2, <3>3, Zenon DEF Places
    <2>5. Places(o)' = {h[x] : x \in Places(o)}
      BY <2>3, <2>4, Zenon
    <2>6. QED
      BY <2>5
  <1>6. ASSUME NEW o \in Op
        PROVE  /\ \A x, y \in Places(o)' : x = y
               /\ Places(o)' # {} <=> Places(o) # {}
    <2>1. PICK h : Places(o)' = {h[x] : x \in Places(o)}
      BY <1>5, Zenon
    <2>2. \A x, y \in Places(o) : x = y
      BY DEF AtMostOnce
    <2>3. QED
      BY <2>1, <2>2, MovedPlaces
  <1>7. QED
    BY <1>1, <1>6 DEF AtMostOnce, Somewhere

(* The end of combineLogs: the merged log, in some order, becomes a        *)
(* numbered one.                                                           *)
LEMMA OnceSort ==
  ASSUME LogTypeOK, AtMostOnce, Somewhere, CombinerSort, merged # << >>
  PROVE  AtMostOnce' /\ Somewhere'
  <1> DEFINE K == Len(logs) + 1
  <1>0. merged \in Seq(Op) /\ logs \in Seq(Seq(Op))
    BY DEF LogTypeOK, CombinerTypeOK
  <1>1. PICK s \in Orders(merged) : logs' = Append(logs, s)
    BY DEF CombinerSort
  <1>2. merged' = << >> /\ UNCHANGED <<op_, returned>>
    BY DEF CombinerSort, logVars, threadVars
  <1>3. PICK p \in [DOMAIN merged -> DOMAIN merged], g \in [DOMAIN merged -> DOMAIN merged] :
            /\ s = [i \in DOMAIN merged |-> merged[p[i]]]
            /\ \A i \in DOMAIN merged : p[g[i]] = i /\ g[p[i]] = i
    BY <1>0, <1>1, OrdersInverse, ZenonT(60)
  <1>4. /\ K \in Nat /\ DOMAIN logs = 1 .. K - 1 /\ DOMAIN logs' = 1 .. K
        /\ logs'[K] = s /\ \A k \in 1 .. K - 1 : logs'[k] = logs[k]
    <2>1. s \in Seq(Op)
      BY <1>0, <1>1, OrdersType, ZenonT(60)
    <2>2. QED
      BY <1>0, <1>1, <2>1, AppendProperties, LenProperties
  <1>5. K \in DOMAIN logs' /\ K \notin DOMAIN logs /\ DOMAIN logs \subseteq DOMAIN logs'
        /\ \A k \in DOMAIN logs' : k # K => k \in DOMAIN logs /\ logs'[k] = logs[k]
    BY <1>4
  <1>6. /\ DOMAIN s = DOMAIN merged
        /\ \A i \in DOMAIN merged : s[g[i]] = merged[i] /\ s[i] = merged[p[i]]
    BY <1>3, Zenon
  <1> HIDE DEF K
  <1> DEFINE Gone == {<<"merged", i>> : i \in DOMAIN merged}
  <1>7. ASSUME NEW o \in Op
        PROVE  \E h : Places(o)' = {h[x] : x \in Places(o)}
    <2> DEFINE h == [x \in Places(o) |-> IF x \in Gone THEN <<"log", K, g[x[2]]>> ELSE x]
    <2>1. \A x \in Places(o) : x \notin Gone => h[x] = x
      BY Zenon
    <2>2. ASSUME NEW i \in DOMAIN merged, merged[i] = o
          PROVE  <<"merged", i>> \in Places(o) /\ h[<<"merged", i>>] = <<"log", K, g[i]>>
      <3>1. <<"merged", i>> \in MergedPlaces(o, merged)
        BY <2>2, MergedPlacesDef, Zenon
      <3>2. <<"merged", i>> \in Gone /\ <<"merged", i>>[2] = i
        BY Zenon
      <3>3. QED
        BY <3>1, <3>2, Zenon DEF Places
    <2> HIDE DEF h
    <2>3. ASSUME NEW x \in Places(o) PROVE h[x] \in Places(o)'
      <3>1. CASE x \in QueuePlaces(o, op_)
        <4>1. PICK u \in Threads, q \in {0, 1} : \E i \in DOMAIN op_[u][q] : x = <<"queue", u, q, i>>
          BY <3>1, QueuePlacesDef
        <4>2. x \notin Gone
          BY <4>1
        <4>3. QED
          BY <1>2, <2>1, <3>1, <4>2, ZenonT(60) DEF Places
      <3>2. CASE x \in MergedPlaces(o, merged)
        <4>1. PICK i \in DOMAIN merged : x = <<"merged", i>> /\ merged[i] = o
          BY <3>2, MergedPlacesDef, Zenon
        <4>2. h[x] = <<"log", K, g[i]>>
          BY <2>2, <4>1, Zenon
        <4>3. g[i] \in DOMAIN s /\ s[g[i]] = o
          BY <1>3, <1>6, <4>1, Zenon
        <4>4. K \in DOMAIN logs' /\ g[i] \in DOMAIN logs'[K] /\ logs'[K][g[i]] = o
          BY <1>4, <1>5, <4>3, Zenon
        <4>5. h[x] \in LogPlaces(o, logs')
          BY <4>2, <4>4, LogPlacesDef, ZenonT(60)
        <4>6. QED
          BY <4>5 DEF Places
      <3>3. CASE x \in LogPlaces(o, logs)
        <4>1. PICK k \in DOMAIN logs : \E i \in DOMAIN logs[k] : x = <<"log", k, i>> /\ logs[k][i] = o
          BY <3>3, LogPlacesDef
        <4>2. PICK i \in DOMAIN logs[k] : x = <<"log", k, i>> /\ logs[k][i] = o
          BY <4>1, Zenon
        <4>3. x \notin Gone
          BY <4>2, Zenon
        <4>4. k \in DOMAIN logs' /\ logs'[k] = logs[k]
          BY <1>5, <4>1, Zenon
        <4>5. x \in LogPlaces(o, logs')
          BY <4>2, <4>4, LogPlacesDef, ZenonT(60)
        <4>6. QED
          BY <2>1, <4>3, <4>5, ZenonT(60) DEF Places
      <3>4. QED
        BY <3>1, <3>2, <3>3, ZenonT(60) DEF Places
    <2>4. ASSUME NEW y \in Places(o)' PROVE \E x \in Places(o) : y = h[x]
      <3>1. CASE y \in QueuePlaces(o, op_')
        <4>1. y \in QueuePlaces(o, op_)
          BY <1>2, <3>1, ZenonT(60)
        <4>2. PICK u \in Threads, q \in {0, 1} : \E i \in DOMAIN op_[u][q] : y = <<"queue", u, q, i>>
          BY <4>1, QueuePlacesDef
        <4>3. y \notin Gone
          BY <4>2
        <4>4. QED
          BY <2>1, <4>1, <4>3, ZenonT(60) DEF Places
      <3>2. CASE y \in MergedPlaces(o, merged')
        <4>1. PICK j \in DOMAIN merged' : y = <<"merged", j>>
          BY <3>2, MergedPlacesDef
        <4>2. QED
          BY <1>2, <4>1
      <3>3. CASE y \in LogPlaces(o, logs')
        <4>1. PICK k \in DOMAIN logs' : \E i \in DOMAIN logs'[k] : y = <<"log", k, i>> /\ logs'[k][i] = o
          BY <3>3, LogPlacesDef
        <4>2. PICK i \in DOMAIN logs'[k] : y = <<"log", k, i>> /\ logs'[k][i] = o
          BY <4>1
        <4>3. CASE k = K
          <5>1. i \in DOMAIN merged /\ p[i] \in DOMAIN merged /\ merged[p[i]] = o /\ g[p[i]] = i
            BY <1>3, <1>4, <1>6, <4>2, <4>3, ZenonT(60)
          <5>2. QED
            BY <2>2, <4>2, <4>3, <5>1, ZenonT(60)
        <4>4. CASE k # K
          <5>1. k \in DOMAIN logs /\ logs'[k] = logs[k]
            BY <1>5, <4>1, <4>4, ZenonT(60)
          <5>2. y \in LogPlaces(o, logs)
            BY <4>2, <5>1, LogPlacesDef, ZenonT(60)
          <5>3. y \notin Gone
            BY <4>2
          <5>4. QED
            BY <2>1, <5>2, <5>3, ZenonT(60) DEF Places
        <4>5. QED
          BY <4>3, <4>4, ZenonT(60)
      <3>4. QED
        BY <3>1, <3>2, <3>3, ZenonT(60) DEF Places
    <2>5. Places(o)' = {h[x] : x \in Places(o)}
      BY <2>3, <2>4, Zenon
    <2>6. QED
      BY <2>5
  <1>8. ASSUME NEW o \in Op
        PROVE  /\ \A x, y \in Places(o)' : x = y
               /\ Places(o)' # {} <=> Places(o) # {}
    <2>1. PICK h : Places(o)' = {h[x] : x \in Places(o)}
      BY <1>7, Zenon
    <2>2. \A x, y \in Places(o) : x = y
      BY DEF AtMostOnce
    <2>3. QED
      BY <2>1, <2>2, MovedPlaces
  <1>9. QED
    BY <1>2, <1>8, Zenon DEF AtMostOnce, Somewhere

(* The steps of enq: what a thread is about to log, nobody else is.        *)
LEMMA OnceEnq ==
  ASSUME LogTypeOK, OnceInv, NEW t \in Threads, Enq(t) \/ \E o \in Op : EnqCall(t, o)
  PROVE  OnceInv'
  <1>0. /\ pc \in [Threads -> {"idle", "load", "trylock", "push"}]
        /\ arg \in [Threads -> Op \cup {NoOp}]
        /\ returned \subseteq issued
        /\ \A u \in Threads : pc[u] # "idle" => arg[u] \in issued
    BY DEF LogTypeOK, ThreadTypeOK
  <1>1. PendingInv /\ AtMostOnce /\ Somewhere
    BY Zenon DEF OnceInv
  <1>2. UNCHANGED <<cpc, merged, logs>>
    BY Zenon DEF Enq, EnqLoad, EnqTryLock, EnqPush, EnqCall, combinerVars
  <1>3. ASSUME NEW o \in Op, EnqCall(t, o) PROVE OnceInv'
    <2>1. /\ pc' = [pc EXCEPT ![t] = "load"] /\ arg' = [arg EXCEPT ![t] = o]
          /\ o \notin issued /\ UNCHANGED <<op_, returned>>
      BY <1>3, Zenon DEF EnqCall, CanLog, logVars
    <2>2. PendingInv'
      BY <1>0, <1>1, <1>2, <2>1, ZenonT(60) DEF PendingInv
    <2>3. QED
      BY <1>1, <1>2, <2>1, <2>2, PlacesFrame, ZenonT(60) DEF OnceInv
  <1>4. CASE EnqLoad(t) \/ EnqTryLock(t)
    <2>1. /\ pc[t] # "idle" /\ \A u \in Threads : u # t => pc'[u] = pc[u]
          /\ UNCHANGED <<op_, arg, returned>>
      BY <1>0, <1>4, Zenon DEF EnqLoad, EnqTryLock, logVars
    <2>2. PendingInv'
      BY <1>1, <1>2, <2>1, Zenon DEF PendingInv
    <2>3. QED
      BY <1>1, <1>2, <2>1, <2>2, PlacesFrame, Zenon DEF OnceInv
  <1>5. CASE EnqPush(t)
    <2>1. /\ pc[t] = "push" /\ pc' = [pc EXCEPT ![t] = "idle"]
          /\ arg' = [arg EXCEPT ![t] = NoOp] /\ returned' = returned \cup {arg[t]}
      BY <1>5, Zenon DEF EnqPush
    <2>2. PendingInv'
      BY <1>0, <1>1, <1>2, <2>1, ZenonT(60) DEF PendingInv
    <2>3. QED
      BY <1>1, <1>5, <2>2, OncePush, Zenon DEF OnceInv
  <1>6. QED
    BY <1>3, <1>4, <1>5, ZenonT(60) DEF Enq

(* The steps that leave the thread's operations, the queues and the logs   *)
(* alone, or reset a merged log that is empty.                             *)
LEMMA OnceFrame ==
  ASSUME OnceInv, UNCHANGED <<threadVars, op_, logs>>,
         \/ UNCHANGED merged /\ (cpc' \in {"merge", "copy"} \/ cpc \notin {"merge", "copy"})
         \/ merged = << >> /\ merged' = << >>
  PROVE  OnceInv'
  <1>1. UNCHANGED <<pc, arg, returned>>
    BY DEF threadVars
  <1>2. merged' = merged
    BY Zenon
  <1>3. PendingInv'
    BY <1>1, <1>2, Zenon DEF OnceInv, PendingInv
  <1>4. QED
    BY <1>1, <1>2, <1>3, PlacesFrame, Zenon DEF OnceInv

(* Every step preserves the invariant.                                     *)
LEMMA OnceStep == LogTypeOK /\ OnceInv /\ [Next]_vars => OnceInv'
  <1> SUFFICES ASSUME LogTypeOK, OnceInv, [Next]_vars PROVE OnceInv'
    OBVIOUS
  <1>0. PendingInv /\ AtMostOnce /\ Somewhere
    BY DEF OnceInv
  <1>1. ASSUME UNCHANGED vars PROVE OnceInv'
    <2>1. UNCHANGED <<threadVars, op_, logs, merged, cpc>>
      BY <1>1, Zenon DEF vars, logVars, combinerVars
    <2>2. QED
      BY <2>1, OnceFrame, Zenon
  <1>2. ASSUME CombinerLoop \/ CombinerSeesStop \/ CombinerDrain \/ CombinerDrained
        PROVE  OnceInv'
    <2>1. /\ UNCHANGED <<threadVars, op_, logs>> /\ cpc = "loop"
          /\ merged' = merged \/ merged' = << >>
          /\ cpc' = "merge" \/ cpc' = cpc
      BY <1>2, Zenon DEF CombinerLoop, CombinerSeesStop, CombinerDrain, CombinerDrained, StartCombine,
                  logVars
    <2>2. merged = << >>
      BY <1>0, <2>1, Zenon DEF PendingInv
    <2>3. QED
      BY <2>1, <2>2, OnceFrame, Zenon
  <1>3. ASSUME NEW t \in Threads, CombinerLock(t) PROVE OnceInv'
    <2>1. UNCHANGED <<threadVars, op_, logs, merged>> /\ cpc' = "copy"
      BY <1>3, Zenon DEF CombinerLock
    <2>2. QED
      BY <2>1, OnceFrame, Zenon
  <1>4. ASSUME NEW t \in Threads, CombinerCopy(t) PROVE OnceInv'
    <2>1. UNCHANGED <<pc, arg, returned>> /\ cpc' = "merge"
      BY <1>4, Zenon DEF CombinerCopy, threadVars
    <2>2. PendingInv'
      BY <1>0, <2>1, Zenon DEF PendingInv
    <2>3. QED
      BY <1>0, <1>4, <2>2, OnceCopy, Zenon DEF OnceInv
  <1>5. ASSUME CombinerSort PROVE OnceInv'
    <2>1. UNCHANGED <<threadVars, op_>> /\ merged' = << >>
      BY <1>5 DEF CombinerSort, logVars
    <2>2. CASE merged = << >>
      <3>1. UNCHANGED logs
        BY <1>5, <2>2, Zenon DEF CombinerSort
      <3>2. QED
        BY <2>1, <2>2, <3>1, OnceFrame, ZenonT(60)
    <2>3. CASE merged # << >>
      <3>1. PendingInv'
        BY <1>0, <2>1, Zenon DEF PendingInv, threadVars
      <3>2. QED
        BY <1>0, <1>5, <2>3, <3>1, OnceSort, ZenonT(60) DEF OnceInv
    <2>4. QED
      BY <2>2, <2>3, ZenonT(60)
  <1>6. ASSUME CombinerBroadcast \/ FreeTest \/ ForceTest \/ ScanDoneCount \/ Reclaim
        PROVE  OnceInv'
    <2>1. UNCHANGED <<threadVars, op_, logs, merged>> /\ cpc \notin {"merge", "copy"}
      BY <1>6, Zenon DEF CombinerBroadcast, FreeTest, ForceTest, ScanDoneCount, Reclaim, logVars
    <2>2. QED
      BY <2>1, OnceFrame, ZenonT(60)
  <1>7. ASSUME Stop \/ \E w \in Workers : Worker(w) PROVE OnceInv'
    <2>1. UNCHANGED <<threadVars, logVars, combinerVars>>
      BY <1>7, ZenonT(60) DEF Stop, Worker, Apply, Retire, WorkerExit
    <2>2. UNCHANGED <<threadVars, op_, logs, merged, cpc>>
      BY <2>1, Zenon DEF logVars, combinerVars
    <2>3. QED
      BY <2>2, OnceFrame
  <1>8. QED
    BY <1>1, <1>2, <1>3, <1>4, <1>5, <1>6, <1>7, OnceEnq, ZenonT(60) DEF Next, Combiner, Finished

(* With nothing logged, no operation has a place.                          *)
LEMMA InitOnce == Init => OnceInv
  <1> SUFFICES ASSUME Init PROVE OnceInv
    OBVIOUS
  <1>1. PendingInv
    BY Zenon DEF Init, PendingInv
  <1>2. /\ \A t \in Threads, q \in {0, 1} : op_[t][q] = << >>
        /\ merged = << >> /\ logs = << >> /\ returned = {}
    BY Zenon DEF Init
  <1>3. ASSUME NEW o \in Op PROVE Places(o) = {}
    <2>1. QueuePlaces(o, op_) = {}
      BY <1>2, QueuePlacesDef
    <2>2. MergedPlaces(o, merged) = {}
      BY <1>2, MergedPlacesDef
    <2>3. LogPlaces(o, logs) = {}
      BY <1>2, LogPlacesDef
    <2>4. QED
      BY <2>1, <2>2, <2>3, ZenonT(60) DEF Places
  <1>4. QED
    BY <1>1, <1>2, <1>3, ZenonT(60) DEF OnceInv, AtMostOnce, Somewhere

(* The invariant of the logs' contents holds in every state.               *)
THEOREM OnceInvariance == Spec => []OnceInv
  <1>1. LogTypeOK /\ OnceInv /\ [Next]_vars => OnceInv'
    BY OnceStep
  <1>2. QED
    BY <1>1, InitOnce, LogTypeCorrect, PTL DEF Spec

(* An operation whose enq has returned is in exactly one place, a queue of *)
(* a thread's log, the merged log or a numbered log, and one whose enq has *)
(* not returned is in none, whatever the interleaving of the pushes with   *)
(* the switch of the queues in combineLogs and whatever order std::sort    *)
(* leaves.                                                                 *)
THEOREM NeitherLostNorDuplicated == Spec => []ExactlyOnce
  <1>1. OnceInv => ExactlyOnce
    <2> SUFFICES ASSUME OnceInv, NEW o \in Op
                 PROVE  Cardinality(Places(o)) = (IF o \in returned THEN 1 ELSE 0)
      BY DEF ExactlyOnce
    <2>1. CASE o \in returned
      <3>1. PICK x : x \in Places(o)
        BY <2>1 DEF OnceInv, Somewhere
      <3>2. Places(o) = {x}
        BY <3>1 DEF OnceInv, AtMostOnce
      <3>3. QED
        BY <2>1, <3>2, FS_Singleton, ZenonT(60)
    <2>2. CASE o \notin returned
      <3>1. Places(o) = {}
        BY <2>2, Zenon DEF OnceInv, Somewhere
      <3>2. QED
        BY <2>2, <3>1, FS_EmptySet, ZenonT(60)
    <2>3. QED
      BY <2>1, <2>2
  <1>2. QED
    BY <1>1, OnceInvariance, PTL

-----------------------------------------------------------------------------
(***************************************************************************)
(* The replicas.                                                           *)
(***************************************************************************)
AgreeInv == \A w \in Workers : Received(w) => sl[w] = AfterLogs(logs, Applied(w))

ReplicaInv == ReplicaTypeOK /\ AgreeInv

(* The log a worker reads is one of the numbered logs.                     *)
LEMMA FrontIsALog ==
  ASSUME LogTypeOK, AliveRest, LogQueueInv, NEW w \in Workers, workQueue[w] # << >>
  PROVE  /\ Head(workQueue[w]) = workQueue[w][1] /\ Len(workQueue[w]) \in Nat \ {0}
         /\ Head(workQueue[w]) \in Nat /\ Head(workQueue[w]) + 1 \in 1 .. Len(logs)
         /\ logs[Head(workQueue[w]) + 1] \in Seq(Op)
  <1>1. /\ workQueue[w] \in Seq(Nat) /\ logQueue \in Seq(Nat) /\ logs \in Seq(Seq(Op))
        /\ Len(logs) \in Nat /\ Len(logQueue) \in Nat
    BY LenProperties, Zenon DEF LogTypeOK, WorkerTypeOK, CombinerTypeOK
  <1>2. Head(workQueue[w]) = workQueue[w][1] /\ Len(workQueue[w]) \in Nat \ {0}
    BY <1>1, LenProperties, EmptySeq
  <1>3. 1 \in 1 .. Len(workQueue[w])
    BY <1>2
  <1>4. PICK j \in 1 .. Len(logQueue) : logQueue[j] = workQueue[w][1]
    BY <1>3 DEF AliveRest, QueuedLogsAlive
  <1>5. /\ logQueue[j] = Len(logs) - Len(logQueue) + j - 1 /\ Len(logQueue) <= Len(logs)
    BY DEF LogQueueInv
  <1>6. logQueue[j] \in Nat /\ logQueue[j] + 1 \in 1 .. Len(logs)
    BY <1>1, <1>5
  <1>7. Head(workQueue[w]) = logQueue[j]
    BY <1>2, <1>4, Zenon
  <1>8. QED
    BY <1>1, <1>2, <1>6, <1>7, ElementOfSeq, ZenonT(60)

(* A worker has applied no more logs than there are.                       *)
LEMMA AppliedBound ==
  ASSUME LogTypeOK, AliveRest, NEW w \in Workers
  PROVE  Applied(w) \in 0 .. Len(logs)
  <1>1. logDoneCount[w] \in Nat /\ Len(workQueue[w]) \in Nat /\ Len(logs) \in Nat
    BY LenProperties DEF LogTypeOK, WorkerTypeOK, CombinerTypeOK
  <1>2. logDoneCount[w] + Len(workQueue[w]) <= Sent(w)
    BY DEF AliveRest, BacklogBounded
  <1>3. Sent(w) \in Int /\ Sent(w) <= Len(logs)
    BY <1>1 DEF Sent
  <1>4. wpc[w] = "retire" => Len(workQueue[w]) > 0
    BY DEF AliveRest, RetireHasLog
  <1>5. QED
    BY <1>1, <1>2, <1>3, <1>4 DEF Applied

(* A worker that has missed no log applies the next one.                   *)
LEMMA AppliesNext ==
  ASSUME LogTypeOK, AliveRest, LogQueueInv, BacklogInv, NEW w \in Workers, Received(w), Apply(w)
  PROVE  /\ Head(workQueue[w]) + 1 = logDoneCount[w] + 1
         /\ logDoneCount[w] \in Nat /\ logDoneCount[w] + 1 <= Len(logs)
         /\ Applied(w) = logDoneCount[w] /\ Applied(w)' = logDoneCount[w] + 1
  <1> DEFINE d == logDoneCount[w]
  <1>1. /\ wpc[w] = "run" /\ wpc' = [wpc EXCEPT ![w] = "retire"] /\ workQueue[w] # << >>
        /\ UNCHANGED logDoneCount
    BY DEF Apply
  <1>2. d \in Nat /\ wpc \in [Workers -> {"run", "retire", "exit"}]
    BY DEF LogTypeOK, WorkerTypeOK
  <1>3. /\ Head(workQueue[w]) = workQueue[w][1] /\ Len(workQueue[w]) \in Nat \ {0}
        /\ Head(workQueue[w]) + 1 \in 1 .. Len(logs)
    BY <1>1, FrontIsALog, Zenon
  <1>4. 1 \in 1 .. Len(workQueue[w])
    BY <1>3
  <1>5. workQueue[w][1] = d + 1 - 1
    BY <1>4, Zenon DEF BacklogInv
  <1>6. Head(workQueue[w]) + 1 = d + 1 /\ d + 1 <= Len(logs)
    BY <1>2, <1>3, <1>5
  <1>7. Applied(w) = d /\ Applied(w)' = d + 1
    BY <1>1, <1>2 DEF Applied
  <1>8. QED
    BY <1>2, <1>6, <1>7, ZenonT(60)

(* The replicas and the queues of worker 0 keep their types.               *)
LEMMA ReplicaTypeStep ==
  ASSUME LogTypeOK, AliveRest, LogQueueInv, ReplicaTypeOK, [Next]_vars
  PROVE  ReplicaTypeOK'
  <1>0. /\ sl \in [Workers -> Replica] /\ freeQueue \in Seq(Nat \X Nodes)
        /\ freedNodes \in Seq(Nodes) /\ logDoneCount \in [Workers -> Nat]
    BY DEF ReplicaTypeOK, LogTypeOK, WorkerTypeOK
  <1>1. CASE UNCHANGED <<sl, freeQueue, freedNodes>>
    BY <1>0, <1>1, Zenon DEF ReplicaTypeOK
  <1>2. ASSUME NEW w \in Workers, Apply(w) PROVE ReplicaTypeOK'
    <2> DEFINE log == logs[Head(workQueue[w]) + 1]
    <2>1. workQueue[w] # << >> /\ UNCHANGED freedNodes
      BY <1>2, Zenon DEF Apply
    <2>2. /\ sl' = [sl EXCEPT ![w] = Replay(@, log)]
          /\ freeQueue' = IF w = 0 THEN freeQueue \o Removals(logDoneCount[w], log)
                                  ELSE freeQueue
      BY <1>2, Zenon DEF Apply
    <2>3. log \in Seq(Op)
      BY <2>1, FrontIsALog, Zenon
    <2> HIDE DEF log
    <2>4. Replay(sl[w], log) \in Replica
      BY <1>0, <2>3, ReplayType, Zenon
    <2>5. Removals(logDoneCount[w], log) \in Seq(Nat \X Nodes)
      BY <1>0, <2>3, RemovalsType, Zenon
    <2>6. sl' \in [Workers -> Replica]
      BY <1>0, <2>2, <2>4
    <2>7. freeQueue' \in Seq(Nat \X Nodes)
      BY <1>0, <2>2, <2>5, ConcatProperties, Zenon
    <2>8. QED
      BY <1>0, <2>1, <2>6, <2>7, Zenon DEF ReplicaTypeOK
  <1>3. ASSUME NEW w \in Workers, WorkerExit(w) PROVE ReplicaTypeOK'
    <2> DEFINE nodes == [i \in DOMAIN freeQueue |-> freeQueue[i][2]]
    <2>1. /\ UNCHANGED sl
          /\ \/ freedNodes' = freedNodes \o nodes /\ freeQueue' = << >>
             \/ UNCHANGED <<freedNodes, freeQueue>>
      BY <1>3 DEF WorkerExit
    <2>2. nodes \in Seq(Nodes)
      <3>1. DOMAIN freeQueue = 1 .. Len(freeQueue) /\ Len(freeQueue) \in Nat
        BY <1>0, LenProperties, Zenon
      <3>2. \A i \in 1 .. Len(freeQueue) : freeQueue[i] \in Nat \X Nodes
        BY <1>0, ElementOfSeq, Zenon
      <3>3. nodes \in [1 .. Len(freeQueue) -> Nodes]
        BY <3>1, <3>2, Zenon
      <3>4. QED
        BY <3>1, <3>3, SeqDef
    <2> HIDE DEF nodes
    <2>3. freedNodes \o nodes \in Seq(Nodes) /\ << >> \in Seq(Nat \X Nodes)
      BY <1>0, <2>2, ConcatProperties
    <2>4. QED
      BY <1>0, <2>1, <2>3, ZenonT(60) DEF ReplicaTypeOK
  <1>4. QED
    <2>1. Untouched => UNCHANGED <<sl, freeQueue, freedNodes>>
      BY DEF Untouched
    <2>2. CombinerSort \/ CombinerBroadcast => UNCHANGED <<sl, freeQueue, freedNodes>>
      BY DEF CombinerSort, CombinerBroadcast, workerVars
    <2>3. \A w \in Workers : Retire(w) => UNCHANGED <<sl, freeQueue, freedNodes>>
      BY DEF Retire
    <2>4. QED
      BY <1>1, <1>2, <1>3, <2>1, <2>2, <2>3, WorkerSteps, ZenonT(60) DEF Worker

(* Every step keeps the replicas at the state their logs give.             *)
LEMMA AgreeStep ==
  ASSUME LogTypeOK, AliveRest, LogQueueInv, BacklogInv, AgreeInv, ReplicaTypeOK, [Next]_vars
  PROVE  AgreeInv'
  <1> SUFFICES ASSUME NEW v \in Workers, Received(v)'
               PROVE  sl'[v] = AfterLogs(logs', Applied(v)')
    BY DEF AgreeInv
  <1>0. /\ logs \in Seq(Seq(Op)) /\ logDoneCount \in [Workers -> Nat] /\ Len(logs) \in Nat
        /\ wpc \in [Workers -> {"run", "retire", "exit"}] /\ sl \in [Workers -> Replica]
    BY LenProperties, Zenon DEF LogTypeOK, CombinerTypeOK, WorkerTypeOK, ReplicaTypeOK
  <1>1. Received(v) /\ sl[v] = AfterLogs(logs, Applied(v))
    BY ReceivedStep, Zenon DEF AgreeInv
  <1>2. CASE UNCHANGED <<logs, sl>> /\ Applied(v)' = Applied(v)
    BY <1>1, <1>2, Zenon
  <1>3. CASE CombinerSort /\ merged # << >>
    <2>1. /\ logs' \in Seq(Seq(Op)) /\ Len(logs') = Len(logs) + 1 /\ UNCHANGED workerVars
          /\ \A n \in 1 .. Len(logs) : logs'[n] = logs[n]
      BY <1>3, SortMoves, ZenonT(60)
    <2>2. sl' = sl /\ Applied(v)' = Applied(v)
      BY <2>1 DEF workerVars, Applied
    <2>3. Applied(v) \in 0 .. Len(logs)
      BY AppliedBound, Zenon
    <2>4. Applied(v) <= Len(logs') /\ \A n \in 1 .. Applied(v) : logs'[n] = logs[n]
      <3>1. Len(logs) \in Nat /\ Len(logs') = Len(logs) + 1
        BY <1>0, <2>1, Zenon
      <3>2. Applied(v) <= Len(logs')
        BY <2>3, <3>1
      <3>3. \A n \in 1 .. Applied(v) : n \in 1 .. Len(logs)
        BY <2>3, <3>1
      <3>4. QED
        BY <2>1, <3>2, <3>3, Zenon
    <2>5. AfterLogs(logs', Applied(v)) = AfterLogs(logs, Applied(v))
      BY <1>0, <2>1, <2>3, <2>4, AfterPrefix, ZenonT(60)
    <2>6. QED
      BY <1>1, <2>2, <2>5, ZenonT(60)
  <1>4. ASSUME NEW w \in Workers, Retire(w)
        PROVE  UNCHANGED <<logs, sl>> /\ Applied(v)' = Applied(v)
    <2>1. /\ UNCHANGED <<logs, sl>> /\ wpc[w] = "retire" /\ wpc'[w] = "run"
          /\ logDoneCount'[w] = logDoneCount[w] + 1
          /\ v # w => wpc'[v] = wpc[v] /\ logDoneCount'[v] = logDoneCount[v]
      BY <1>4, RetireMoves, ZenonT(60) DEF AliveRest
    <2>2. Applied(v)' = Applied(v)
      BY <1>0, <2>1 DEF Applied
    <2>3. QED
      BY <2>1, <2>2, ZenonT(60)
  <1>5. ASSUME NEW w \in Workers, WorkerExit(w)
        PROVE  UNCHANGED <<logs, sl>> /\ Applied(v)' = Applied(v)
    <2>1. /\ UNCHANGED <<logs, sl, logDoneCount>> /\ wpc[w] = "run"
          /\ wpc' = [wpc EXCEPT ![w] = "exit"]
      BY <1>5, Zenon DEF WorkerExit, combinerVars
    <2>2. wpc'[v] = "retire" <=> wpc[v] = "retire"
      BY <1>0, <2>1, ZenonT(60)
    <2>3. QED
      BY <2>1, <2>2, ZenonT(60) DEF Applied
  <1>6. ASSUME NEW w \in Workers, Apply(w) PROVE sl'[v] = AfterLogs(logs', Applied(v)')
    <2> DEFINE d == logDoneCount[w]
    <2>1. /\ wpc[w] = "run" /\ wpc' = [wpc EXCEPT ![w] = "retire"] /\ workQueue[w] # << >>
          /\ sl' = [sl EXCEPT ![w] = Replay(@, logs[Head(workQueue[w]) + 1])]
          /\ UNCHANGED <<logs, logDoneCount>>
      BY <1>6, ZenonT(60) DEF Apply, combinerVars
    <2>2. CASE v # w
      <3>1. sl'[v] = sl[v] /\ wpc'[v] = wpc[v]
        BY <1>0, <2>1, <2>2, ZenonT(60)
      <3>2. QED
        BY <1>1, <2>1, <3>1, ZenonT(60) DEF Applied
    <2>3. CASE v = w
      <3>1. /\ Head(workQueue[w]) + 1 = d + 1 /\ d \in Nat /\ d + 1 <= Len(logs)
            /\ Applied(w) = d /\ Applied(w)' = d + 1
        BY <1>1, <1>6, <2>3, AppliesNext, ZenonT(60)
      <3>2. sl'[w] = Replay(AfterLogs(logs, d), logs[d + 1])
        BY <1>0, <1>1, <2>1, <2>3, <3>1, ZenonT(60)
      <3>3. AfterLogs(logs, d + 1) = Replay(AfterLogs(logs, d), logs[d + 1])
        BY <1>0, <3>1, AfterStep
      <3>4. QED
        BY <2>1, <2>3, <3>1, <3>2, <3>3, ZenonT(60)
    <2>4. QED
      BY <2>2, <2>3, ZenonT(60)
  <1>7. QED
    <2>1. Untouched => UNCHANGED <<logs, sl>> /\ Applied(v)' = Applied(v)
      BY Zenon DEF Untouched, Applied
    <2>2. CombinerBroadcast => UNCHANGED <<logs, sl>> /\ Applied(v)' = Applied(v)
      BY Zenon DEF CombinerBroadcast, Applied, workerVars
    <2>3. QED
      BY <1>2, <1>3, <1>4, <1>5, <1>6, <2>1, <2>2, WorkerSteps, ZenonT(60) DEF Worker

(* Every replica is empty.                                                 *)
LEMMA InitReplica == Init => ReplicaInv
  <1> SUFFICES ASSUME Init PROVE ReplicaInv
    OBVIOUS
  <1>1. /\ logs = << >> /\ workQueue = [w \in Workers |-> << >>] /\ cpc = "loop"
        /\ wpc = [w \in Workers |-> "run"] /\ logDoneCount = [w \in Workers |-> 0]
        /\ sl = [w \in Workers |-> EmptyReplica] /\ freeQueue = << >> /\ freedNodes = << >>
    BY DEF Init
  <1>2. ReplicaTypeOK
    BY <1>1, EmptyReplicaType DEF ReplicaTypeOK
  <1>3. AgreeInv
    <2>1. logs \in Seq(Seq(Op)) /\ 0 \in 0 .. Len(logs)
      BY <1>1
    <2>2. AfterLogs(logs, 0) = EmptyReplica
      BY <2>1, AfterDef, ZenonT(60)
    <2>3. \A w \in Workers : sl[w] = EmptyReplica /\ Applied(w) = 0
      BY <1>1 DEF Applied
    <2>4. QED
      BY <2>2, <2>3 DEF AgreeInv
  <1>4. QED
    BY <1>2, <1>3, ZenonT(60) DEF ReplicaInv

(* The invariant of the replicas holds in every state.                     *)
THEOREM ReplicaInvariance == Spec => []ReplicaInv
  <1>1. ShutdownInv /\ BacklogInv /\ ReplicaInv /\ [Next]_vars => ReplicaInv'
    <2> SUFFICES ASSUME ShutdownInv, BacklogInv, ReplicaInv, [Next]_vars PROVE ReplicaInv'
      OBVIOUS
    <2>1. LogTypeOK /\ AliveRest /\ LogQueueInv
      BY DEF ShutdownInv, AliveInv, AliveRest
    <2>2. ReplicaTypeOK /\ AgreeInv
      BY DEF ReplicaInv
    <2>3. QED
      BY <2>1, <2>2, ReplicaTypeStep, AgreeStep, ZenonT(60) DEF ReplicaInv
  <1>2. QED
    BY <1>1, InitReplica, ShutdownInvariance, BacklogInvariance, PTL DEF Spec

(* Every variable of the replication always has its type: in particular    *)
(* the log a worker reads at the front of its queue exists, and the        *)
(* counter of a replica stays in the range of a uint32_t.                  *)
THEOREM TypeCorrect == Spec => []TypeOK
  <1>1. LogTypeOK /\ ReplicaInv => TypeOK
    BY DEF ReplicaInv, TypeOK
  <1>2. QED
    BY <1>1, LogTypeCorrect, ReplicaInvariance, PTL

(* While no queue is full when broadcastMergedLog pushes to it, every      *)
(* replica is what the logs its worker has applied make of an empty one,   *)
(* so replicas that have applied as many logs are equal.                   *)
THEOREM ReplicasFollowLogs == Spec /\ []NeverFull => []ReplicasAgree
  <1>1. ReplicaInv /\ AllReceived => ReplicasAgree
    BY DEF ReplicaInv, AllReceived, AgreeInv, ReplicasAgree
  <1>2. QED
    BY <1>1, ReplicaInvariance, ReceivedInvariance, PTL

CompleteAtStop ==
    combinerStop => \A w \in Workers : sl[w] = AfterLogs(logs, Len(logs))

(* At the stop nothing can have been dropped.                              *)
LEMMA StopReceived ==
  ASSUME ShutdownInv, StopMeansDrained, combinerStop, NEW w \in Workers
  PROVE  Received(w) /\ Applied(w) = Len(logs)
  <1>1. workQueue[w] = << >> /\ wpc[w] # "retire" /\ logDoneCount[w] = Len(logs)
    BY DEF StopMeansDrained
  <1>2. cpc = "loop" /\ Len(logs) \in Nat
    BY LenProperties DEF ShutdownInv, PhaseInv, AliveInv, LogTypeOK, CombinerTypeOK
  <1>3. QED
    BY <1>1, <1>2 DEF Received, Sent, Applied

(* When the combiner stops, every replica is the result of all the logs,   *)
(* whatever the capacity of the queues: a push dropped at a full queue     *)
(* would have kept freeMergedLogs from emptying logQueue.                  *)
THEOREM ReplicasCompleteAtStop == Spec => []CompleteAtStop
  <1>1. ShutdownInv /\ StopMeansDrained /\ ReplicaInv => CompleteAtStop
    BY StopReceived DEF ReplicaInv, AgreeInv, CompleteAtStop
  <1>2. QED
    BY <1>1, ShutdownInvariance, NothingLeftAtStop, ReplicaInvariance, PTL

-----------------------------------------------------------------------------
(***************************************************************************)
(* The nodes worker 0 frees.  Every entry of its freeQueue is a removal in *)
(* a log it has applied, and no two are the same, since an operation is in *)
(* one log only; nothing is freed before the combiner has stopped.         *)
(***************************************************************************)
RemovalOf(n) == [op |-> "remove", node |-> n]

InLogs(ls, n, k) == \E m \in 1 .. k : \E p \in 1 .. Len(ls[m]) : ls[m][p] = RemovalOf(n)

QueuedOnce ==
    /\ \A i, j \in 1 .. Len(freeQueue) : freeQueue[i][2] = freeQueue[j][2] => i = j
    /\ \A i \in 1 .. Len(freeQueue) : InLogs(logs, freeQueue[i][2], Applied(0))

FreedOnce ==
    /\ \A i, j \in DOMAIN freedNodes : freedNodes[i] = freedNodes[j] => i = j
    /\ \A i \in DOMAIN freedNodes : RemovalOf(freedNodes[i]) \in returned

FreeInv ==
    /\ wpc[0] # "exit" => freedNodes = << >>
    /\ \A w \in Workers : wpc[w] = "exit" => combinerStop
    /\ Received(0) => QueuedOnce
    /\ FreedOnce

(* An operation is at one place of one log.                                *)
LEMMA OneLogPlace ==
  ASSUME AtMostOnce, NEW o \in Op, NEW m \in DOMAIN logs, NEW k \in DOMAIN logs,
         NEW a \in DOMAIN logs[m], NEW b \in DOMAIN logs[k], logs[m][a] = o, logs[k][b] = o
  PROVE  m = k /\ a = b
  <1>1. <<"log", m, a>> \in Places(o) /\ <<"log", k, b>> \in Places(o)
    BY LogPlacesDef, ZenonT(60) DEF Places
  <1>2. <<"log", m, a>> = <<"log", k, b>>
    BY <1>1 DEF AtMostOnce
  <1>3. QED
    BY <1>2

(* g_combinerStop is never reset, and no operation is taken back.          *)
LEMMA Lasting == [Next]_vars => (combinerStop => combinerStop') /\ returned \subseteq returned'
  <1> SUFFICES ASSUME [Next]_vars
               PROVE  (combinerStop => combinerStop') /\ returned \subseteq returned'
    OBVIOUS
  <1>1. ASSUME UNCHANGED <<threadVars, stopVars>>
        PROVE  (combinerStop => combinerStop') /\ returned \subseteq returned'
    BY <1>1, ZenonT(60) DEF threadVars, stopVars
  <1>2. ASSUME NEW t \in Threads, Enq(t) \/ \E o \in Op : EnqCall(t, o)
        PROVE  (combinerStop => combinerStop') /\ returned \subseteq returned'
    BY <1>2 DEF Enq, EnqLoad, EnqTryLock, EnqPush, EnqCall, stopVars
  <1>3. ASSUME Stop \/ ForceTest
        PROVE  (combinerStop => combinerStop') /\ returned \subseteq returned'
    BY <1>3, Zenon DEF Stop, ForceTest, threadVars
  <1>4. CombinerLoop \/ CombinerSeesStop \/ CombinerDrain \/ CombinerDrained
          => UNCHANGED <<threadVars, stopVars>>
    BY DEF CombinerLoop, CombinerSeesStop, CombinerDrain, CombinerDrained
  <1>5. (\E t \in Threads : CombinerLock(t) \/ CombinerCopy(t)) \/ CombinerSort \/ CombinerBroadcast
          => UNCHANGED <<threadVars, stopVars>>
    BY ZenonT(60) DEF CombinerLock, CombinerCopy, CombinerSort, CombinerBroadcast
  <1>6. FreeTest \/ ScanDoneCount \/ Reclaim => UNCHANGED <<threadVars, stopVars>>
    BY DEF FreeTest, ScanDoneCount, Reclaim
  <1>7. (\E w \in Workers : Worker(w)) => UNCHANGED <<threadVars, stopVars>>
    BY Zenon DEF Worker, Apply, Retire, WorkerExit
  <1>8. UNCHANGED vars => UNCHANGED <<threadVars, stopVars>>
    BY Zenon DEF vars
  <1>9. QED
    BY <1>1, <1>2, <1>3, <1>4, <1>5, <1>6, <1>7, <1>8, ZenonT(60) DEF Next, Combiner, Finished

(* applyOperation of worker 0 queues the removals of a log whose           *)
(* operations are in no other.                                             *)
LEMMA QueueOnceApply ==
  ASSUME LogTypeOK, AliveRest, LogQueueInv, BacklogInv, AtMostOnce, ReplicaTypeOK,
         0 \in Workers, Received(0), QueuedOnce, Apply(0)
  PROVE  QueuedOnce'
  <1> DEFINE d == logDoneCount[0]
             log == logs[d + 1]
             R == Removals(d, log)
             L == Len(freeQueue)
  <1>0. freeQueue \in Seq(Nat \X Nodes) /\ L \in Nat /\ logs \in Seq(Seq(Op))
    BY LenProperties, Zenon DEF ReplicaTypeOK, LogTypeOK, CombinerTypeOK
  <1>1. /\ Head(workQueue[0]) + 1 = d + 1 /\ d \in Nat /\ d + 1 <= Len(logs)
        /\ Applied(0) = d /\ Applied(0)' = d + 1
    BY AppliesNext
  <1>2. freeQueue' = freeQueue \o R /\ logs' = logs
    BY <1>1, ZenonT(60) DEF Apply, combinerVars
  <1>3. /\ DOMAIN logs = 1 .. Len(logs) /\ d + 1 \in 1 .. Len(logs) /\ log \in Seq(Op)
        /\ \A m \in 1 .. Len(logs) : DOMAIN logs[m] = 1 .. Len(logs[m])
    BY <1>0, <1>1, LenProperties, ElementOfSeq
  <1> HIDE DEF d, log
  <1>4. R \in Seq(Nat \X Nodes)
    BY <1>1, <1>3, RemovalsType, ZenonT(60)
  <1>5. PICK p : Picks(p, R, Len(log), d, log)
    BY <1>1, <1>3, RemovalsPicks, ZenonT(60)
  <1> HIDE DEF R
  <1>6. Len(freeQueue') = L + Len(R) /\ Len(R) \in Nat
    BY <1>0, <1>2, <1>4, ConcatProperties, LenProperties, ZenonT(60)
  <1>7. \A i \in 1 .. Len(freeQueue') :
          freeQueue'[i] = IF i <= L THEN freeQueue[i] ELSE R[i - L]
    BY <1>0, <1>2, <1>4, <1>6, ConcatProperties, ZenonT(60)
  <1>8. /\ p \in [1 .. Len(R) -> 1 .. Len(log)]
        /\ \A i, j \in 1 .. Len(R) : p[i] = p[j] => i = j
        /\ \A i \in 1 .. Len(R) : R[i] = <<d, log[p[i]].node>> /\ log[p[i]].op = "remove"
    BY <1>5, ZenonT(60) DEF Picks
  <1>9. ASSUME NEW i \in 1 .. Len(R)
        PROVE  log[p[i]] = RemovalOf(R[i][2]) /\ p[i] \in DOMAIN log /\ RemovalOf(R[i][2]) \in Op
    <2>1. p[i] \in DOMAIN log /\ log[p[i]] \in Op
      BY <1>3, <1>8, LenProperties, ElementOfSeq, ZenonT(60)
    <2>2. QED
      BY <1>8, <2>1 DEF RemovalOf, Op
  <1>10. \A i \in 1 .. L : \E m \in 1 .. d : \E a \in 1 .. Len(logs[m]) :
             logs[m][a] = RemovalOf(freeQueue[i][2])
    BY <1>1, ZenonT(60) DEF QueuedOnce, InLogs
  <1>11. ASSUME NEW i \in 1 .. L, NEW j \in 1 .. Len(R) PROVE freeQueue[i][2] # R[j][2]
    <2> SUFFICES ASSUME freeQueue[i][2] = R[j][2] PROVE FALSE
      BY Zenon
    <2>1. PICK m \in 1 .. d : \E a \in 1 .. Len(logs[m]) : logs[m][a] = RemovalOf(R[j][2])
      BY <1>10, Zenon
    <2>2. m \in DOMAIN logs /\ d + 1 \in DOMAIN logs /\ m # d + 1
      BY <1>1, <1>3
    <2>3. PICK a \in DOMAIN logs[m] : logs[m][a] = RemovalOf(R[j][2])
      BY <1>3, <2>1, <2>2, ZenonT(60)
    <2>4. p[j] \in DOMAIN logs[d + 1] /\ logs[d + 1][p[j]] = RemovalOf(R[j][2])
      BY <1>9, ZenonT(60) DEF log
    <2>5. QED
      BY <1>9, <2>2, <2>3, <2>4, OneLogPlace
  <1>12. ASSUME NEW i \in 1 .. Len(R), NEW j \in 1 .. Len(R), R[i][2] = R[j][2] PROVE i = j
    <2>1. d + 1 \in DOMAIN logs
      BY <1>3, Zenon
    <2>2. p[i] = p[j]
      BY <1>9, <1>12, <2>1, OneLogPlace DEF log
    <2>3. QED
      BY <1>8, <2>2, ZenonT(60)
  <1>13. ASSUME NEW i \in 1 .. Len(freeQueue')
         PROVE  \/ i \in 1 .. L /\ freeQueue'[i] = freeQueue[i]
                \/ i - L \in 1 .. Len(R) /\ freeQueue'[i] = R[i - L]
    BY <1>0, <1>6, <1>7
  <1>14. ASSUME NEW i \in 1 .. Len(freeQueue'), NEW j \in 1 .. Len(freeQueue'),
                freeQueue'[i][2] = freeQueue'[j][2]
         PROVE  i = j
    <2>1. CASE i \in 1 .. L /\ freeQueue'[i] = freeQueue[i] /\ j \in 1 .. L /\ freeQueue'[j] = freeQueue[j]
      BY <1>14, <2>1, Zenon DEF QueuedOnce
    <2>2. CASE i - L \in 1 .. Len(R) /\ freeQueue'[i] = R[i - L]
                 /\ j - L \in 1 .. Len(R) /\ freeQueue'[j] = R[j - L]
      <3>1. i - L = j - L
        BY <1>12, <1>14, <2>2, ZenonT(60)
      <3>2. QED
        BY <1>0, <3>1
    <2>3. QED
      BY <1>11, <1>13, <1>14, <2>1, <2>2, ZenonT(60)
  <1>15. ASSUME NEW i \in 1 .. Len(freeQueue') PROVE InLogs(logs, freeQueue'[i][2], d + 1)
    <2>1. CASE i \in 1 .. L /\ freeQueue'[i] = freeQueue[i]
      <3>1. PICK m \in 1 .. d : \E a \in 1 .. Len(logs[m]) :
                 logs[m][a] = RemovalOf(freeQueue[i][2])
        BY <1>10, <2>1, Zenon
      <3>2. m \in 1 .. d + 1
        BY <1>1
      <3>3. QED
        BY <2>1, <3>1, <3>2, Zenon DEF InLogs
    <2>2. CASE i - L \in 1 .. Len(R) /\ freeQueue'[i] = R[i - L]
      <3>1. p[i - L] \in 1 .. Len(log) /\ log[p[i - L]] = RemovalOf(freeQueue'[i][2])
        BY <1>8, <1>9, <2>2, Zenon
      <3>2. d + 1 \in 1 .. d + 1
        BY <1>1
      <3>3. QED
        BY <3>1, <3>2, Zenon DEF InLogs, log
    <2>3. QED
      BY <1>13, <2>1, <2>2
  <1>16. QED
    BY <1>1, <1>2, <1>14, <1>15, ZenonT(60) DEF QueuedOnce

(* The other steps leave freeQueue alone, or empty it; logs only grow.     *)
LEMMA QueueOnceStep ==
  ASSUME LogTypeOK, AliveRest, LogQueueInv, BacklogInv, AtMostOnce, ReplicaTypeOK,
         0 \in Workers, Received(0), QueuedOnce, [Next]_vars
  PROVE  QueuedOnce'
  <1>0. wpc \in [Workers -> {"run", "retire", "exit"}] /\ logDoneCount \in [Workers -> Nat]
    BY Zenon DEF LogTypeOK, WorkerTypeOK
  <1>1. CASE UNCHANGED <<logs, freeQueue>> /\ Applied(0)' = Applied(0)
    BY <1>1, Zenon DEF QueuedOnce
  <1>2. CASE CombinerSort /\ merged # << >>
    <2>1. UNCHANGED workerVars /\ \A n \in 1 .. Len(logs) : logs'[n] = logs[n]
      BY <1>2, SortMoves, Zenon
    <2>2. freeQueue' = freeQueue /\ Applied(0)' = Applied(0)
      BY <2>1, Zenon DEF workerVars, Applied
    <2>3. Len(logs) \in Nat /\ Applied(0) \in 0 .. Len(logs)
      BY AppliedBound, LenProperties, Zenon DEF LogTypeOK, CombinerTypeOK
    <2>4. \A m \in 1 .. Applied(0) : logs'[m] = logs[m]
      BY <2>1, <2>3
    <2>5. \A n : InLogs(logs, n, Applied(0)) => InLogs(logs', n, Applied(0))
      BY <2>4, ZenonT(60) DEF InLogs
    <2>6. QED
      BY <2>2, <2>5, Zenon DEF QueuedOnce
  <1>3. ASSUME NEW w \in Workers, Worker(w), ~(w = 0 /\ Apply(0)) PROVE QueuedOnce'
    <2>1. CASE Retire(w)
      <3>1. /\ UNCHANGED <<logs, freeQueue>> /\ wpc[w] = "retire" /\ wpc'[w] = "run"
            /\ logDoneCount'[w] = logDoneCount[w] + 1
            /\ w # 0 => wpc'[0] = wpc[0] /\ logDoneCount'[0] = logDoneCount[0]
        BY <2>1, RetireMoves, Zenon DEF AliveRest
      <3>2. Applied(0)' = Applied(0)
        BY <1>0, <3>1 DEF Applied
      <3>3. QED
        BY <1>1, <3>1, <3>2, Zenon
    <2>2. CASE w # 0 /\ (Apply(w) \/ WorkerExit(w))
      <3>1. UNCHANGED <<logs, logDoneCount>> /\ wpc'[0] = wpc[0]
        BY <2>2, ApplyMoves, ZenonT(60)
      <3>2. freeQueue' = freeQueue
        BY <2>2, Zenon DEF Apply, WorkerExit
      <3>3. QED
        BY <1>1, <3>1, <3>2, Zenon DEF Applied
    <2>3. CASE w = 0 /\ WorkerExit(0)
      <3>1. freeQueue' = << >>
        BY <2>3, ZenonT(60) DEF WorkerExit
      <3>2. QED
        BY <3>1 DEF QueuedOnce
    <2>4. QED
      BY <1>3, <2>1, <2>2, <2>3, Zenon DEF Worker
  <1>4. QED
    <2>1. Untouched => UNCHANGED <<logs, freeQueue>> /\ Applied(0)' = Applied(0)
      BY DEF Untouched, Applied
    <2>2. CombinerBroadcast => UNCHANGED <<logs, freeQueue>> /\ Applied(0)' = Applied(0)
      BY DEF CombinerBroadcast, Applied, workerVars
    <2>3. QED
      BY <1>1, <1>2, <1>3, <2>1, <2>2, QueueOnceApply, WorkerSteps, ZenonT(60)

(* On its way out worker 0 frees what it has queued: removals that have    *)
(* returned, each once.                                                    *)
LEMMA FreedAtExit ==
  ASSUME LogTypeOK, AliveRest, OnceInv, ReplicaTypeOK, 0 \in Workers, QueuedOnce,
         freedNodes = << >>, WorkerExit(0)
  PROVE  FreedOnce'
  <1> DEFINE nodes == [i \in DOMAIN freeQueue |-> freeQueue[i][2]]
  <1>0. /\ freeQueue \in Seq(Nat \X Nodes) /\ DOMAIN freeQueue = 1 .. Len(freeQueue)
        /\ Len(freeQueue) \in Nat /\ logs \in Seq(Seq(Op))
    BY LenProperties, ZenonT(60) DEF ReplicaTypeOK, LogTypeOK, CombinerTypeOK
  <1>1. freedNodes' = freedNodes \o nodes /\ returned' = returned
    BY DEF WorkerExit, threadVars
  <1>2. nodes \in Seq(Nodes)
    <2>1. \A i \in 1 .. Len(freeQueue) : freeQueue[i] \in Nat \X Nodes
      BY <1>0, ElementOfSeq, Zenon
    <2>2. nodes \in [1 .. Len(freeQueue) -> Nodes]
      BY <1>0, <2>1, ZenonT(60)
    <2>3. QED
      BY <1>0, <2>2, SeqDef
  <1>3. DOMAIN nodes = 1 .. Len(freeQueue) /\ \A i \in 1 .. Len(freeQueue) : nodes[i] = freeQueue[i][2]
    BY <1>0
  <1> HIDE DEF nodes
  <1>4. freedNodes' = nodes
    BY <1>1, <1>2, ConcatEmptySeq, ZenonT(60)
  <1>5. ASSUME NEW i \in 1 .. Len(freeQueue) PROVE RemovalOf(nodes[i]) \in returned
    <2>1. RemovalOf(nodes[i]) \in Op
      BY <1>2, <1>3, ElementOfSeq, LenProperties, ZenonT(60) DEF RemovalOf, Op
    <2>2. InLogs(logs, nodes[i], Applied(0))
      BY <1>3 DEF QueuedOnce
    <2>3. PICK m \in 1 .. Applied(0) : \E a \in 1 .. Len(logs[m]) : logs[m][a] = RemovalOf(nodes[i])
      BY <2>2, ZenonT(60) DEF InLogs
    <2>4. m \in DOMAIN logs /\ DOMAIN logs[m] = 1 .. Len(logs[m])
      <3>1. Applied(0) \in 0 .. Len(logs) /\ Len(logs) \in Nat
        BY <1>0, AppliedBound, LenProperties, ZenonT(60)
      <3>2. m \in 1 .. Len(logs)
        BY <3>1
      <3>3. QED
        BY <1>0, <3>2, LenProperties, ElementOfSeq, ZenonT(60)
    <2>5. PICK a \in DOMAIN logs[m] : logs[m][a] = RemovalOf(nodes[i])
      BY <2>3, <2>4
    <2>6. <<"log", m, a>> \in Places(RemovalOf(nodes[i]))
      BY <2>4, <2>5, LogPlacesDef, ZenonT(60) DEF Places
    <2>7. QED
      BY <2>1, <2>6, ZenonT(60) DEF OnceInv, Somewhere
  <1>6. QED
    BY <1>1, <1>3, <1>4, <1>5 DEF FreedOnce, QueuedOnce

(* Every step preserves the invariant.                                     *)
LEMMA FreeStep ==
  ASSUME ShutdownInv, StopMeansDrained, BacklogInv, OnceInv, ReplicaTypeOK, FreeInv, [Next]_vars
  PROVE  FreeInv'
  <1>0. 0 \in Workers
    BY WorkerAssumption DEF Workers
  <1>1. LogTypeOK /\ AliveRest /\ LogQueueInv /\ AtMostOnce
    BY DEF ShutdownInv, AliveInv, AliveRest, OnceInv
  <1>2. Received(0)' => QueuedOnce'
    BY <1>0, <1>1, ReceivedStep, QueueOnceStep, ZenonT(60) DEF FreeInv
  <1>3. (combinerStop => combinerStop') /\ returned \subseteq returned'
    BY Lasting
  <1>4. wpc \in [Workers -> {"run", "retire", "exit"}]
    BY <1>1, ZenonT(60) DEF LogTypeOK, WorkerTypeOK
  <1>5. ASSUME UNCHANGED freedNodes, wpc[0] = "exit" => wpc'[0] = "exit",
               \A w \in Workers : wpc'[w] = "exit" => wpc[w] = "exit" \/ combinerStop
        PROVE  FreeInv'
    <2>1. FreedOnce'
      BY <1>3, <1>5, ZenonT(60) DEF FreeInv, FreedOnce
    <2>2. QED
      BY <1>0, <1>2, <1>3, <1>5, <2>1, ZenonT(60) DEF FreeInv
  <1>6. CASE UNCHANGED <<freedNodes, wpc>>
    BY <1>5, <1>6, ZenonT(60)
  <1>7. ASSUME NEW w \in Workers, Worker(w), ~(w = 0 /\ WorkerExit(0)) PROVE FreeInv'
    <2>1. freedNodes' = freedNodes
      BY <1>7, ZenonT(60) DEF Worker, Apply, Retire, WorkerExit
    <2>2. /\ wpc[w] # "exit"
          /\ \/ wpc' = [wpc EXCEPT ![w] = "retire"] \/ wpc' = [wpc EXCEPT ![w] = "run"]
             \/ wpc' = [wpc EXCEPT ![w] = "exit"] /\ combinerStop
      BY <1>7, ZenonT(60) DEF Worker, Apply, Retire, WorkerExit
    <2>3. /\ wpc[0] = "exit" => wpc'[0] = "exit"
          /\ \A v \in Workers : wpc'[v] = "exit" => wpc[v] = "exit" \/ combinerStop
      BY <1>0, <1>4, <2>2, ZenonT(60)
    <2>4. QED
      BY <1>5, <2>1, <2>3, ZenonT(60)
  <1>8. CASE WorkerExit(0)
    <2>1. /\ wpc[0] = "run" /\ wpc' = [wpc EXCEPT ![0] = "exit"] /\ combinerStop
      BY <1>8 DEF WorkerExit
    <2>2. freedNodes = << >> /\ QueuedOnce
      BY <1>0, <2>1, StopReceived, ZenonT(60) DEF FreeInv
    <2>3. FreedOnce'
      BY <1>0, <1>1, <1>8, <2>2, FreedAtExit, ZenonT(60)
    <2>4. wpc'[0] = "exit" /\ combinerStop'
      BY <1>0, <1>3, <1>4, <2>1, ZenonT(60)
    <2>5. QED
      BY <1>2, <2>3, <2>4, ZenonT(60) DEF FreeInv
  <1>9. QED
    <2>1. Untouched => UNCHANGED <<freedNodes, wpc>>
      BY ZenonT(60) DEF Untouched
    <2>2. CombinerSort \/ CombinerBroadcast => UNCHANGED <<freedNodes, wpc>>
      BY DEF CombinerSort, CombinerBroadcast, workerVars
    <2>3. QED
      BY <1>1, <1>6, <1>7, <1>8, <2>1, <2>2, WorkerSteps, ZenonT(60)

(* free() is called on a node once, after its removal has been logged and  *)
(* when every worker has applied every log, for any interleaving and any   *)
(* capacity of the queues.                                                 *)
THEOREM FreedOnceAndLast == Spec => []NodesFreedLast
  <1>1. Init => FreeInv
    <2> SUFFICES ASSUME Init PROVE FreeInv
      OBVIOUS
    <2>1. wpc = [w \in Workers |-> "run"] /\ freeQueue = << >> /\ freedNodes = << >>
      BY DEF Init
    <2>2. \A w \in Workers : wpc[w] # "exit"
      BY <2>1
    <2>3. QED
      BY <2>1, <2>2 DEF FreeInv, QueuedOnce, FreedOnce
  <1>2. ShutdownInv /\ StopMeansDrained /\ BacklogInv /\ OnceInv /\ ReplicaInv /\ FreeInv /\ [Next]_vars
          => FreeInv'
    BY FreeStep, ZenonT(60) DEF ReplicaInv
  <1>3. FreeInv /\ StopMeansDrained => NodesFreedLast
    <2> SUFFICES ASSUME FreeInv, StopMeansDrained PROVE NodesFreedLast
      OBVIOUS
    <2>1. freedNodes # << >> => combinerStop
      BY WorkerAssumption DEF FreeInv, Workers
    <2>2. \A i \in DOMAIN freedNodes : freedNodes # << >>
      OBVIOUS
    <2>3. \A i \in DOMAIN freedNodes : \A w \in Workers :
            logDoneCount[w] = Len(logs) /\ workQueue[w] = << >>
      BY <2>1, <2>2 DEF StopMeansDrained
    <2>4. QED
      BY <2>3 DEF FreeInv, FreedOnce, RemovalOf, NodesFreedLast
  <1>4. QED
    BY <1>1, <1>2, <1>3, ShutdownInvariance, NothingLeftAtStop, BacklogInvariance,
       OnceInvariance, ReplicaInvariance, PTL DEF Spec
=============================================================================
