------------------------- MODULE ReplicationProofs -------------------------
(***************************************************************************)
(* Proofs about Replication, for any threads, nodes and number of workers, *)
(* any queue capacity (pushes to a full queue included) and any batch and  *)
(* drain sizes: which logs are deleted, that nothing is left to do when    *)
(* the combiner stops, and that no worker misses a log as long as no queue *)
(* is full.                                                                *)
(***************************************************************************)
EXTENDS Replication, SequenceTheorems, NaturalsInduction, WellFoundedInduction, TLAPS

(* A step may take half a minute: the provers' own limit is shorter.       *)
USE SMTT(30), ZenonT(30)

-----------------------------------------------------------------------------
(***************************************************************************)
(* What the recursive definitions compute.  Induction is used in the form  *)
(* that the least natural number outside a set has a predecessor in it.    *)
(***************************************************************************)
LEMMA SetInduction ==
  ASSUME NEW S, 0 \in S, \A n \in Nat : n \in S => n + 1 \in S
  PROVE  Nat \subseteq S
  <1> DEFINE R == {ss \in Nat \X Nat : ss[1] < ss[2]}
             T == Nat \ S
  <1> SUFFICES ASSUME T # {} PROVE FALSE
    OBVIOUS
  <1>1. IsWellFoundedOn(R, Nat)
    BY NatLessThanWellFounded DEF OpToRel
  <1>2. PICK x \in T : \A y \in T : ~(<<y, x>> \in R)
    <2> HIDE DEF R
    <2>1. QED
      BY <1>1, WFMin, Zenon
  <1>3. x \in Nat /\ x # 0
    OBVIOUS
  <1>4. x - 1 \in Nat /\ <<x - 1, x>> \in R
    BY <1>3
  <1>5. x - 1 \in S
    BY <1>2, <1>4
  <1>6. (x - 1) + 1 = x
    BY <1>3
  <1>7. QED
    BY <1>4, <1>5, <1>6

(* f is the recursive function that begins with a and goes on with g.      *)
Iterate(f, S, a, N, g) ==
    /\ f \in [0 .. N -> S]
    /\ f[0] = a
    /\ \A n \in 1 .. N : f[n] = g[<<f[n - 1], n>>]

(* A function defined by recursion over 0 .. N exists.                     *)
LEMMA Iterates ==
  ASSUME NEW S, NEW a \in S, NEW N \in Nat, NEW g \in [S \X (1 .. N) -> S]
  PROVE  \E f : Iterate(f, S, a, N, g)
  <1> DEFINE P(m) == \E f \in [0 .. m -> S] :
                        f[0] = a /\ \A n \in 1 .. m : f[n] = g[<<f[n - 1], n>>]
             T == {m \in Nat : m <= N => P(m)}
  <1>1. 0 \in T
    <2> DEFINE z == [n \in 0 .. 0 |-> a]
    <2>1. z \in [0 .. 0 -> S] /\ z[0] = a /\ \A n \in 1 .. 0 : FALSE
      OBVIOUS
    <2> HIDE DEF z
    <2>2. P(0)
      BY <2>1
    <2>3. QED
      BY <2>2
  <1>2. ASSUME NEW m \in Nat, m \in T PROVE m + 1 \in T
    <2> SUFFICES ASSUME m + 1 <= N PROVE P(m + 1)
      OBVIOUS
    <2>1. PICK f \in [0 .. m -> S] : f[0] = a /\ \A n \in 1 .. m : f[n] = g[<<f[n - 1], n>>]
      BY <1>2
    <2> DEFINE h == [n \in 0 .. m + 1 |-> IF n = m + 1 THEN g[<<f[m], m + 1>>] ELSE f[n]]
    <2>2. f[m] \in S /\ <<f[m], m + 1>> \in S \X (1 .. N)
      BY <2>1
    <2>3. h \in [0 .. m + 1 -> S]
      BY <2>2
    <2>4. h[0] = a
      BY <2>1
    <2>5. ASSUME NEW n \in 1 .. m + 1 PROVE h[n] = g[<<h[n - 1], n>>]
      <3>1. CASE n = m + 1
        <4>1. n - 1 = m /\ h[m] = f[m] /\ h[n] = g[<<f[m], n>>]
          BY <3>1
        <4>2. QED
          BY <4>1, Zenon
      <3>2. CASE n # m + 1
        <4>1. n \in 1 .. m /\ n - 1 \in 0 .. m + 1 /\ n - 1 # m + 1
          BY <3>2
        <4>2. h[n] = f[n] /\ h[n - 1] = f[n - 1]
          BY <4>1, <3>2
        <4>3. QED
          BY <2>1, <4>1, <4>2
      <3>3. QED
        BY <3>1, <3>2
    <2> HIDE DEF h
    <2>6. QED
      BY <2>3, <2>4, <2>5, Zenon
  <1>3. N \in T
    <2> HIDE DEF T
    <2>1. QED
      BY <1>1, <1>2, SetInduction
  <1>4. QED
    BY <1>3 DEF Iterate

(* Two recursions that agree step by step agree at the end.                *)
LEMMA SameIterates ==
  ASSUME NEW f, NEW h, NEW k \in Nat, f[0] = h[0],
         \A n \in 1 .. k : f[n - 1] = h[n - 1] => f[n] = h[n]
  PROVE  f[k] = h[k]
  <1> DEFINE T == {n \in Nat : n <= k => f[n] = h[n]}
  <1>1. 0 \in T
    OBVIOUS
  <1>2. ASSUME NEW n \in Nat, n \in T PROVE n + 1 \in T
    <2> SUFFICES ASSUME n + 1 <= k PROVE f[n + 1] = h[n + 1]
      OBVIOUS
    <2>1. n + 1 \in 1 .. k /\ (n + 1) - 1 = n /\ f[n] = h[n]
      BY <1>2
    <2>2. QED
      BY <2>1
  <1>3. k \in T
    <2> HIDE DEF T
    <2>1. QED
      BY <1>1, <1>2, SetInduction
  <1>4. QED
    BY <1>3

(* An operation applied to a replica gives a replica.                      *)
LEMMA ApplyOpType ==
  ASSUME NEW r \in Replica, NEW o \in Op
  PROVE  ApplyOp(r, o) \in Replica
  <1>1. o.node \in Nodes /\ MinOf[o.node] \in Keys
    BY MinOfAssumption DEF Op
  <1>2. /\ (r.numInserts + 1) % CounterRange \in 0 .. CounterRange - 1
        /\ (r.numInserts - 1) % CounterRange \in 0 .. CounterRange - 1
    BY CounterAssumption DEF Replica
  <1>3. SLInsert(r, MinOf[o.node], o.node) \in Replica
    BY <1>1, <1>2 DEF SLInsert, Replica
  <1>4. SLRemove(r, MinOf[o.node], o.node) \in Replica
    BY <1>1, <1>2, Zenon DEF SLRemove, Replica
  <1>5. QED
    BY <1>3, <1>4 DEF ApplyOp

(* Replay applies the operations of a log one after the other.             *)
LEMMA ReplayDef ==
  ASSUME NEW r \in Replica, NEW log \in Seq(Op)
  PROVE  \E f \in [0 .. Len(log) -> Replica] :
            /\ f[0] = r
            /\ \A n \in 1 .. Len(log) : f[n] = ApplyOp(f[n - 1], log[n])
            /\ Replay(r, log) = f[Len(log)]
  <1> DEFINE N == Len(log)
             g == [x \in Replica \X (1 .. N) |-> ApplyOp(x[1], log[x[2]])]
             Eq(f) == f = [n \in 0 .. N |-> IF n = 0 THEN r ELSE ApplyOp(f[n - 1], log[n])]
             after == CHOOSE f : Eq(f)
  <1>1. N \in Nat /\ \A n \in 1 .. N : log[n] \in Op
    BY LenProperties, ElementOfSeq
  <1>2. g \in [Replica \X (1 .. N) -> Replica]
    BY <1>1, ApplyOpType
  <1>3. \A v \in Replica, n \in 1 .. N : g[<<v, n>>] = ApplyOp(v, log[n])
    OBVIOUS
  <1>4. Replay(r, log) = after[N]
    BY DEF Replay
  <1> HIDE DEF N, g
  <1>5. PICK f : Iterate(f, Replica, r, N, g)
    BY <1>1, <1>2, Iterates, Zenon
  <1>6. f \in [0 .. N -> Replica] /\ f[0] = r /\ \A n \in 1 .. N : f[n] = g[<<f[n - 1], n>>]
    BY <1>5 DEF Iterate
  <1>7. ASSUME NEW n \in 1 .. N PROVE f[n] = ApplyOp(f[n - 1], log[n])
    <2>1. f[n - 1] \in Replica
      BY <1>1, <1>6
    <2>2. QED
      BY <1>3, <1>6, <2>1, Zenon
  <1>8. Eq(f)
    <2>1. f = [n \in 0 .. N |-> f[n]]
      BY <1>6
    <2>2. \A n \in 0 .. N : f[n] = IF n = 0 THEN r ELSE ApplyOp(f[n - 1], log[n])
      BY <1>1, <1>6, <1>7
    <2>3. QED
      BY <2>1, <2>2, Zenon
  <1>9. after = [n \in 0 .. N |-> IF n = 0 THEN r ELSE ApplyOp(after[n - 1], log[n])]
    BY <1>8, Zenon
  <1> HIDE DEF after
  <1>10. after[0] = r /\ \A n \in 1 .. N : after[n] = ApplyOp(after[n - 1], log[n])
    BY <1>1, <1>9
  <1>11. after[N] = f[N]
    <2>1. after[0] = f[0] /\ \A n \in 1 .. N : after[n - 1] = f[n - 1] => after[n] = f[n]
      BY <1>6, <1>7, <1>10
    <2>2. QED
      BY <1>1, <2>1, SameIterates, ZenonT(60)
  <1>12. QED
    BY <1>4, <1>6, <1>7, <1>11, Zenon DEF N

(* A log makes a replica of a replica.                                     *)
LEMMA ReplayType ==
  ASSUME NEW r \in Replica, NEW log \in Seq(Op)
  PROVE  Replay(r, log) \in Replica
  <1>1. Len(log) \in Nat /\ Len(log) \in 0 .. Len(log)
    BY LenProperties
  <1>2. QED
    BY <1>1, ReplayDef

(* The constructor's replica.                                              *)
LEMMA EmptyReplicaType == EmptyReplica \in Replica
  BY CounterAssumption DEF EmptyReplica, Replica

(* AfterLogs applies the logs one after the other.                         *)
LEMMA AfterDef ==
  ASSUME NEW ls \in Seq(Seq(Op)), NEW k \in 0 .. Len(ls)
  PROVE  \E f \in [0 .. k -> Replica] :
            /\ f[0] = EmptyReplica
            /\ \A n \in 1 .. k : f[n] = Replay(f[n - 1], ls[n])
            /\ AfterLogs(ls, k) = f[k]
  <1> DEFINE g == [x \in Replica \X (1 .. k) |-> Replay(x[1], ls[x[2]])]
             Eq(f) == f = [n \in 0 .. k |-> IF n = 0 THEN EmptyReplica
                                           ELSE Replay(f[n - 1], ls[n])]
             after == CHOOSE f : Eq(f)
  <1>1. k \in Nat /\ \A n \in 1 .. k : ls[n] \in Seq(Op)
    <2>1. Len(ls) \in Nat /\ k \in Nat /\ \A n \in 1 .. k : n \in 1 .. Len(ls)
      BY LenProperties
    <2>2. QED
      BY <2>1, ElementOfSeq
  <1>2. g \in [Replica \X (1 .. k) -> Replica]
    BY <1>1, ReplayType
  <1>3. \A v \in Replica, n \in 1 .. k : g[<<v, n>>] = Replay(v, ls[n])
    OBVIOUS
  <1>4. AfterLogs(ls, k) = after[k]
    BY DEF AfterLogs
  <1> HIDE DEF g
  <1>5. PICK f : Iterate(f, Replica, EmptyReplica, k, g)
    BY <1>1, <1>2, EmptyReplicaType, Iterates, Zenon
  <1>6. /\ f \in [0 .. k -> Replica] /\ f[0] = EmptyReplica
        /\ \A n \in 1 .. k : f[n] = g[<<f[n - 1], n>>]
    BY <1>5 DEF Iterate
  <1>7. ASSUME NEW n \in 1 .. k PROVE f[n] = Replay(f[n - 1], ls[n])
    <2>1. f[n - 1] \in Replica
      BY <1>1, <1>6
    <2>2. QED
      BY <1>3, <1>6, <2>1, Zenon
  <1>8. Eq(f)
    <2>1. f = [n \in 0 .. k |-> f[n]]
      BY <1>6
    <2>2. \A n \in 0 .. k : f[n] = IF n = 0 THEN EmptyReplica ELSE Replay(f[n - 1], ls[n])
      BY <1>1, <1>6, <1>7
    <2>3. QED
      BY <2>1, <2>2, Zenon
  <1>9. after = [n \in 0 .. k |-> IF n = 0 THEN EmptyReplica ELSE Replay(after[n - 1], ls[n])]
    BY <1>8, Zenon
  <1> HIDE DEF after
  <1>10. after[0] = EmptyReplica /\ \A n \in 1 .. k : after[n] = Replay(after[n - 1], ls[n])
    BY <1>1, <1>9
  <1>11. after[k] = f[k]
    <2>1. after[0] = f[0] /\ \A n \in 1 .. k : after[n - 1] = f[n - 1] => after[n] = f[n]
      BY <1>6, <1>7, <1>10
    <2>2. QED
      BY <1>1, <2>1, SameIterates, ZenonT(60)
  <1>12. QED
    BY <1>4, <1>6, <1>7, <1>11, Zenon

(* The first logs decide.                                                  *)
LEMMA AfterPrefix ==
  ASSUME NEW ls \in Seq(Seq(Op)), NEW ms \in Seq(Seq(Op)), NEW k \in 0 .. Len(ls),
         k <= Len(ms), \A n \in 1 .. k : ms[n] = ls[n]
  PROVE  AfterLogs(ms, k) = AfterLogs(ls, k)
  <1>1. k \in Nat /\ k \in 0 .. Len(ms)
    BY LenProperties
  <1>2. PICK f : /\ f[0] = EmptyReplica
                 /\ \A n \in 1 .. k : f[n] = Replay(f[n - 1], ls[n])
                 /\ AfterLogs(ls, k) = f[k]
    BY AfterDef, ZenonT(60)
  <1>3. PICK h : /\ h[0] = EmptyReplica
                 /\ \A n \in 1 .. k : h[n] = Replay(h[n - 1], ms[n])
                 /\ AfterLogs(ms, k) = h[k]
    BY <1>1, AfterDef
  <1>4. h[0] = f[0] /\ \A n \in 1 .. k : h[n - 1] = f[n - 1] => h[n] = f[n]
    BY <1>2, <1>3, Zenon
  <1>5. h[k] = f[k]
    BY <1>1, <1>4, SameIterates, ZenonT(60)
  <1>6. QED
    BY <1>2, <1>3, <1>5

(* One more log is replayed on the result of the ones before it.           *)
LEMMA AfterStep ==
  ASSUME NEW ls \in Seq(Seq(Op)), NEW k \in Nat, k + 1 <= Len(ls)
  PROVE  AfterLogs(ls, k + 1) = Replay(AfterLogs(ls, k), ls[k + 1])
  <1>1. k \in 0 .. Len(ls) /\ k + 1 \in 0 .. Len(ls)
    BY LenProperties
  <1>2. PICK f : /\ f[0] = EmptyReplica
                 /\ \A n \in 1 .. k : f[n] = Replay(f[n - 1], ls[n])
                 /\ AfterLogs(ls, k) = f[k]
    BY <1>1, AfterDef, Zenon
  <1>3. PICK h : /\ h[0] = EmptyReplica
                 /\ \A n \in 1 .. k + 1 : h[n] = Replay(h[n - 1], ls[n])
                 /\ AfterLogs(ls, k + 1) = h[k + 1]
    BY <1>1, AfterDef, Zenon
  <1>4. h[0] = f[0] /\ \A n \in 1 .. k : h[n - 1] = f[n - 1] => h[n] = f[n]
    <2>1. \A n \in 1 .. k : n \in 1 .. k + 1
      OBVIOUS
    <2>2. QED
      BY <1>2, <1>3, <2>1, Zenon
  <1>5. h[k] = f[k]
    BY <1>4, SameIterates, ZenonT(60)
  <1>6. h[k + 1] = Replay(h[k], ls[k + 1])
    <2>1. k + 1 \in 1 .. k + 1 /\ (k + 1) - 1 = k
      OBVIOUS
    <2>2. QED
      BY <1>3, <2>1
  <1>7. QED
    BY <1>2, <1>3, <1>5, <1>6

(* What one operation of a log adds to worker 0's freeQueue.               *)
QueueRemoval(q, count, o) == IF o.op = "remove" THEN Append(q, <<count, o.node>>) ELSE q

(* Removals queues the removals of a log one after the other.              *)
LEMMA RemovalsDef ==
  ASSUME NEW c \in Nat, NEW log \in Seq(Op)
  PROVE  \E f \in [0 .. Len(log) -> Seq(Nat \X Nodes)] :
            /\ f[0] = << >>
            /\ \A n \in 1 .. Len(log) : f[n] = QueueRemoval(f[n - 1], c, log[n])
            /\ Removals(c, log) = f[Len(log)]
  <1> DEFINE N == Len(log)
             S == Seq(Nat \X Nodes)
             g == [x \in S \X (1 .. N) |-> QueueRemoval(x[1], c, log[x[2]])]
             Eq(f) == f = [n \in 0 .. N |->
                             IF n = 0 THEN << >>
                             ELSE IF log[n].op = "remove" THEN Append(f[n - 1], <<c, log[n].node>>)
                             ELSE f[n - 1]]
             from == CHOOSE f : Eq(f)
  <1>1. N \in Nat /\ \A n \in 1 .. N : log[n] \in Op
    BY LenProperties, ElementOfSeq
  <1>2. \A v \in S, o \in Op : QueueRemoval(v, c, o) \in S
    <2>1. \A o \in Op : <<c, o.node>> \in Nat \X Nodes
      BY DEF Op
    <2>2. QED
      BY <2>1, AppendProperties DEF QueueRemoval
  <1>3. << >> \in S
    OBVIOUS
  <1>4. Removals(c, log) = from[N]
    BY DEF Removals
  <1> HIDE DEF N, S
  <1>5. g \in [S \X (1 .. N) -> S] /\ \A v \in S, n \in 1 .. N : g[<<v, n>>] = QueueRemoval(v, c, log[n])
    BY <1>1, <1>2
  <1> HIDE DEF g
  <1>6. PICK f : Iterate(f, S, << >>, N, g)
    BY <1>1, <1>3, <1>5, Iterates, Zenon
  <1>7. f \in [0 .. N -> S] /\ f[0] = << >> /\ \A n \in 1 .. N : f[n] = g[<<f[n - 1], n>>]
    BY <1>6 DEF Iterate
  <1>8. ASSUME NEW n \in 1 .. N PROVE f[n] = QueueRemoval(f[n - 1], c, log[n])
    <2>1. f[n - 1] \in S
      BY <1>1, <1>7
    <2>2. QED
      BY <1>5, <1>7, <2>1, Zenon
  <1>9. Eq(f)
    <2>1. f = [n \in 0 .. N |-> f[n]]
      BY <1>7
    <2>2. \A n \in 0 .. N : f[n] = IF n = 0 THEN << >> ELSE QueueRemoval(f[n - 1], c, log[n])
      BY <1>1, <1>7, <1>8
    <2>3. QED
      BY <2>1, <2>2, Zenon DEF QueueRemoval
  <1>10. from = [n \in 0 .. N |->
                   IF n = 0 THEN << >>
                   ELSE IF log[n].op = "remove" THEN Append(from[n - 1], <<c, log[n].node>>)
                   ELSE from[n - 1]]
    BY <1>9, Zenon
  <1> HIDE DEF from
  <1>11. from[0] = << >> /\ \A n \in 1 .. N : from[n] = QueueRemoval(from[n - 1], c, log[n])
    <2>1. 0 \in 0 .. N /\ \A n \in 1 .. N : n \in 0 .. N /\ n # 0
      BY <1>1
    <2>2. QED
      BY <1>10, <2>1, Zenon DEF QueueRemoval
  <1>12. from[N] = f[N]
    <2>1. from[0] = f[0] /\ \A n \in 1 .. N : from[n - 1] = f[n - 1] => from[n] = f[n]
      BY <1>7, <1>8, <1>11
    <2>2. QED
      BY <1>1, <2>1, SameIterates, ZenonT(60)
  <1>13. QED
    BY <1>4, <1>7, <1>8, <1>12, Zenon DEF N, S

(* The removals of a log are pairs of a count and a node.                  *)
LEMMA RemovalsType ==
  ASSUME NEW c \in Nat, NEW log \in Seq(Op)
  PROVE  Removals(c, log) \in Seq(Nat \X Nodes)
  <1>1. Len(log) \in Nat /\ Len(log) \in 0 .. Len(log)
    BY LenProperties
  <1> DEFINE S == Seq(Nat \X Nodes)
  <1>2. PICK f \in [0 .. Len(log) -> S] : Removals(c, log) = f[Len(log)]
    BY RemovalsDef
  <1> HIDE DEF S
  <1>3. Removals(c, log) \in S
    BY <1>1, <1>2
  <1>4. QED
    BY <1>3 DEF S

(* p gives the places in a log of the removals in q, all different.        *)
Picks(p, q, n, c, log) ==
    /\ p \in [1 .. Len(q) -> 1 .. n]
    /\ \A i, j \in 1 .. Len(q) : p[i] = p[j] => i = j
    /\ \A i \in 1 .. Len(q) : q[i] = <<c, log[p[i]].node>> /\ log[p[i]].op = "remove"

(* One more operation of the log.                                          *)
LEMMA PicksStep ==
  ASSUME NEW c \in Nat, NEW log \in Seq(Op), NEW n \in Nat, n + 1 <= Len(log),
         NEW q \in Seq(Nat \X Nodes), NEW p, Picks(p, q, n, c, log)
  PROVE  \E r : Picks(r, QueueRemoval(q, c, log[n + 1]), n + 1, c, log)
  <1> DEFINE o == log[n + 1]
             L == Len(q)
  <1>0. o \in Op /\ L \in Nat
    BY LenProperties, ElementOfSeq
  <1>1. /\ p \in [1 .. L -> 1 .. n]
        /\ \A i, j \in 1 .. L : p[i] = p[j] => i = j
        /\ \A i \in 1 .. L : q[i] = <<c, log[p[i]].node>> /\ log[p[i]].op = "remove"
    BY Zenon DEF Picks
  <1>2. CASE o.op # "remove"
    <2>1. QueueRemoval(q, c, o) = q /\ p \in [1 .. L -> 1 .. n + 1]
      BY <1>1, <1>2 DEF QueueRemoval
    <2>2. Picks(p, q, n + 1, c, log)
      BY <1>1, <2>1, Zenon DEF Picks
    <2>3. QED
      BY <2>1, <2>2, Zenon
  <1>3. CASE o.op = "remove"
    <2> DEFINE a == QueueRemoval(q, c, o)
               r == [i \in 1 .. L + 1 |-> IF i = L + 1 THEN n + 1 ELSE p[i]]
    <2>1. <<c, o.node>> \in Nat \X Nodes
      BY <1>0 DEF Op
    <2>2. /\ Len(a) = L + 1 /\ a[L + 1] = <<c, o.node>> /\ \A i \in 1 .. L : a[i] = q[i]
      BY <1>3, <2>1, AppendProperties DEF QueueRemoval
    <2> HIDE DEF a
    <2>3. r \in [1 .. L + 1 -> 1 .. n + 1]
      BY <1>0, <1>1
    <2>4. r[L + 1] = n + 1 /\ \A i \in 1 .. L : r[i] = p[i] /\ r[i] \in 1 .. n
      <3>1. L + 1 \in 1 .. L + 1 /\ \A i \in 1 .. L : i \in 1 .. L + 1 /\ i # L + 1
        BY <1>0
      <3>2. QED
        BY <1>1, <3>1, Zenon
    <2>5. \A i \in 1 .. L + 1 : i = L + 1 \/ i \in 1 .. L
      BY <1>0
    <2> HIDE DEF r
    <2>6. ASSUME NEW i \in 1 .. L + 1, NEW j \in 1 .. L + 1, r[i] = r[j] PROVE i = j
      <3>1. ~(n + 1 \in 1 .. n)
        OBVIOUS
      <3>2. CASE i = L + 1 \/ j = L + 1
        BY <2>4, <2>5, <2>6, <3>1, <3>2, Zenon
      <3>3. CASE i \in 1 .. L /\ j \in 1 .. L
        BY <1>1, <2>4, <2>6, <3>3, ZenonT(60)
      <3>4. QED
        BY <2>5, <3>2, <3>3, Zenon
    <2>7. ASSUME NEW i \in 1 .. L + 1
          PROVE  a[i] = <<c, log[r[i]].node>> /\ log[r[i]].op = "remove"
      <3>1. CASE i = L + 1
        BY <1>3, <2>2, <2>4, <3>1
      <3>2. CASE i \in 1 .. L
        BY <1>1, <2>2, <2>4, <3>2, Zenon
      <3>3. QED
        BY <2>5, <3>1, <3>2, Zenon
    <2>8. Picks(r, a, n + 1, c, log)
      BY <2>2, <2>3, <2>6, <2>7 DEF Picks
    <2>9. QED
      BY <2>8, Zenon DEF a
  <1>4. QED
    BY <1>2, <1>3, Zenon

(* Removals takes each removal of the log once.                            *)
LEMMA RemovalsPicks ==
  ASSUME NEW c \in Nat, NEW log \in Seq(Op)
  PROVE  \E p : Picks(p, Removals(c, log), Len(log), c, log)
  <1> DEFINE N == Len(log)
             S == Seq(Nat \X Nodes)
  <1>1. PICK f \in [0 .. N -> S] :
            /\ f[0] = << >>
            /\ \A n \in 1 .. N : f[n] = QueueRemoval(f[n - 1], c, log[n])
            /\ Removals(c, log) = f[N]
    BY RemovalsDef, Zenon
  <1> DEFINE T == {n \in Nat : n <= N => \E p : Picks(p, f[n], n, c, log)}
  <1>2. N \in Nat
    BY LenProperties
  <1>3. 0 \in T
    <2>1. Picks(<< >>, << >>, 0, c, log)
      BY DEF Picks
    <2>2. QED
      BY <1>1, <2>1
  <1>4. ASSUME NEW n \in Nat, n \in T PROVE n + 1 \in T
    <2> SUFFICES ASSUME n + 1 <= N PROVE \E p : Picks(p, f[n + 1], n + 1, c, log)
      OBVIOUS
    <2>1. n \in 0 .. N /\ n + 1 \in 1 .. N /\ (n + 1) - 1 = n /\ n <= N
      BY <1>2
    <2>2. f[n] \in S /\ f[n + 1] = QueueRemoval(f[n], c, log[n + 1])
      <3> HIDE DEF N, S
      <3>1. QED
        BY <1>1, <2>1
    <2>3. PICK p : Picks(p, f[n], n, c, log)
      BY <1>4, <2>1
    <2>4. QED
      BY <2>2, <2>3, PicksStep, Zenon
  <1>5. N \in T
    <2> HIDE DEF T
    <2>1. QED
      BY <1>2, <1>3, <1>4, SetInduction
  <1>6. QED
    BY <1>1, <1>2, <1>5


(* What std::sort leaves is a log of the same operations. *)
LEMMA OrdersType ==
  ASSUME NEW s \in Seq(Op), NEW r \in Orders(s)
  PROVE  r \in Seq(Op)
  <1>1. PICK p \in [DOMAIN s -> DOMAIN s] : r = [i \in DOMAIN s |-> s[p[i]]]
    BY Zenon DEF Orders
  <1>2. DOMAIN s = 1 .. Len(s) /\ Len(s) \in Nat
    BY LenProperties
  <1>3. \A i \in 1 .. Len(s) : s[p[i]] \in Op
    BY <1>2, ElementOfSeq
  <1>4. r \in [1 .. Len(s) -> Op]
    BY <1>1, <1>2, <1>3
  <1>5. QED
    BY <1>2, <1>4, SeqDef

(***************************************************************************)
(* The inductive invariant.  That queued logs are alive rests on their     *)
(* numbers: the i-th log in a worker's queue is numbered at least          *)
(* logDoneCount + i - 1, since the count goes up with every pop and a      *)
(* dropped push only makes the numbers larger; and the minimum the         *)
(* combiner has computed so far is below the current count of every worker *)
(* it has read, since counts only grow.                                    *)
(***************************************************************************)
NumbersAhead ==
    \A w \in Workers : \A i \in 1 .. Len(workQueue[w]) :
        workQueue[w][i] >= logDoneCount[w] + i - 1

BacklogBounded == \A w \in Workers : logDoneCount[w] + Len(workQueue[w]) <= Sent(w)

RetireHasLog == \A w \in Workers : wpc[w] = "retire" => Len(workQueue[w]) > 0

BroadcastIsQueued ==
    cpc = "broadcast" =>
        Len(logs) > 0 /\ \E j \in 1 .. Len(logQueue) : logQueue[j] = Len(logs) - 1

MinimumIsLow ==
    cpc = "scan" => \A v \in Workers : v < cw => minDone <= logDoneCount[v]

AliveInv ==
    /\ LogTypeOK
    /\ QueuedLogsAlive
    /\ NumbersAhead
    /\ BacklogBounded
    /\ RetireHasLog
    /\ BroadcastIsQueued
    /\ MinimumIsLow

(* The empty logs and queues have their types.                             *)
LEMMA InitLogType == Init => LogTypeOK
  <1> SUFFICES ASSUME Init PROVE LogTypeOK
    OBVIOUS
  <1>1. ThreadTypeOK
    BY DEF Init, ThreadTypeOK
  <1>2. QueueTypeOK
    BY DEF Init, QueueTypeOK
  <1>3. CombinerTypeOK
    BY WorkerAssumption, BoundAssumption DEF Init, CombinerTypeOK
  <1>4. WorkerTypeOK
    <2>1. /\ workQueue = [w \in Workers |-> << >>]
          /\ wpc = [w \in Workers |-> "run"]
          /\ logDoneCount = [w \in Workers |-> 0]
      BY DEF Init
    <2>2. << >> \in Seq(Nat) /\ 0 \in Nat
      OBVIOUS
    <2>3. QED
      BY <2>1, <2>2, Zenon DEF WorkerTypeOK
  <1>5. StopTypeOK
    BY Zenon DEF Init, StopTypeOK
  <1>6. QED
    BY <1>1, <1>2, <1>3, <1>4, <1>5 DEF LogTypeOK

(* A group of variables that a step leaves alone keeps its type.           *)
LEMMA TypeFrame ==
  ASSUME LogTypeOK
  PROVE  /\ UNCHANGED threadVars => ThreadTypeOK'
         /\ UNCHANGED logVars => QueueTypeOK'
         /\ UNCHANGED combinerVars => CombinerTypeOK'
         /\ UNCHANGED <<workQueue, workerVars>> => WorkerTypeOK'
         /\ UNCHANGED stopVars => StopTypeOK'
  <1>1. UNCHANGED threadVars => ThreadTypeOK'
    BY DEF LogTypeOK, ThreadTypeOK, threadVars
  <1>2. UNCHANGED logVars => QueueTypeOK'
    BY DEF LogTypeOK, QueueTypeOK, logVars
  <1>3. UNCHANGED combinerVars => CombinerTypeOK'
    BY DEF LogTypeOK, CombinerTypeOK, combinerVars
  <1>4. UNCHANGED <<workQueue, workerVars>> => WorkerTypeOK'
    BY DEF LogTypeOK, WorkerTypeOK, workerVars
  <1>5. UNCHANGED stopVars => StopTypeOK'
    BY DEF LogTypeOK, StopTypeOK, stopVars
  <1>6. QED
    BY <1>1, <1>2, <1>3, <1>4, <1>5

(* The steps of enq keep the types.                                        *)
LEMMA LogTypeEnq ==
  ASSUME LogTypeOK, NEW t \in Threads
  PROVE  /\ \A o \in Op : EnqCall(t, o) => LogTypeOK'
         /\ Enq(t) => LogTypeOK'
  <1>0. ThreadTypeOK /\ QueueTypeOK /\ CombinerTypeOK
    BY DEF LogTypeOK
  <1>1. ASSUME NEW o \in Op, EnqCall(t, o) PROVE LogTypeOK'
    <2>1. ThreadTypeOK'
      BY <1>0, <1>1 DEF EnqCall, ThreadTypeOK
    <2>2. CombinerTypeOK'
      BY <1>0, <1>1 DEF EnqCall, CombinerTypeOK
    <2>3. UNCHANGED <<logVars, workQueue, workerVars, stopVars>>
      BY <1>1 DEF EnqCall
    <2>4. QED
      BY <2>1, <2>2, <2>3, TypeFrame DEF LogTypeOK
  <1>2. ASSUME EnqLoad(t) PROVE LogTypeOK'
    <2>1. ThreadTypeOK'
      BY <1>0, <1>2 DEF EnqLoad, ThreadTypeOK, QueueTypeOK
    <2>2. UNCHANGED <<logVars, combinerVars, workQueue, workerVars, stopVars>>
      BY <1>2 DEF EnqLoad
    <2>3. QED
      BY <2>1, <2>2, TypeFrame DEF LogTypeOK
  <1>3. ASSUME EnqTryLock(t) PROVE LogTypeOK'
    <2>0. qnum[t] \in {0, 1} /\ qLock[t] \in [{0, 1} -> {"free", "thread", "combiner"}]
      BY <1>0 DEF ThreadTypeOK, QueueTypeOK
    <2>1. QueueTypeOK'
      <3>1. [qLock[t] EXCEPT ![qnum[t]] = "thread"]
              \in [{0, 1} -> {"free", "thread", "combiner"}]
        BY <2>0
      <3>2. \/ qLock' = qLock
            \/ qLock' = [qLock EXCEPT ![t] = [qLock[t] EXCEPT ![qnum[t]] = "thread"]]
        BY <1>3 DEF EnqTryLock
      <3>3. qLock' \in [Threads -> [{0, 1} -> {"free", "thread", "combiner"}]]
        BY <1>0, <3>1, <3>2, Zenon DEF QueueTypeOK
      <3>4. UNCHANGED <<curQ, op_>>
        BY <1>3 DEF EnqTryLock
      <3>5. QED
        BY <1>0, <3>3, <3>4 DEF QueueTypeOK
    <2>2. ThreadTypeOK'
      <3>1. /\ pc[t] = "trylock"
            /\ pc' = [pc EXCEPT ![t] = "push"] \/ pc' = [pc EXCEPT ![t] = "load"]
        BY <1>3 DEF EnqTryLock
      <3>2. UNCHANGED <<perThreadLog, arg, qnum, issued, returned>>
        BY <1>3 DEF EnqTryLock
      <3>3. QED
        BY <1>0, <3>1, <3>2 DEF ThreadTypeOK
    <2>3. UNCHANGED <<combinerVars, workQueue, workerVars, stopVars>>
      BY <1>3, ZenonT(60) DEF EnqTryLock
    <2>4. QED
      BY <2>1, <2>2, <2>3, TypeFrame DEF LogTypeOK
  <1>4. ASSUME EnqPush(t) PROVE LogTypeOK'
    <2>1. arg[t] \in issued /\ arg[t] \in Op /\ qnum[t] \in {0, 1}
      BY <1>0, <1>4 DEF EnqPush, ThreadTypeOK
    <2>2. QueueTypeOK'
      <3>1. Append(op_[t][qnum[t]], arg[t]) \in Seq(Op)
        BY <1>0, <2>1 DEF QueueTypeOK
      <3>2. op_' \in [Threads -> [{0, 1} -> Seq(Op)]]
        BY <1>0, <1>4, <2>1, <3>1, Zenon DEF EnqPush, QueueTypeOK
      <3>3. qLock' \in [Threads -> [{0, 1} -> {"free", "thread", "combiner"}]]
        BY <1>0, <1>4, <2>1, Zenon DEF EnqPush, QueueTypeOK
      <3>4. QED
        BY <1>0, <1>4, <3>2, <3>3 DEF EnqPush, QueueTypeOK
    <2>3. ThreadTypeOK'
      BY <1>0, <1>4, <2>1 DEF EnqPush, ThreadTypeOK
    <2>4. UNCHANGED <<combinerVars, workQueue, workerVars, stopVars>>
      BY <1>4 DEF EnqPush
    <2>5. QED
      BY <2>2, <2>3, <2>4, TypeFrame DEF LogTypeOK
  <1>5. QED
    BY <1>1, <1>2, <1>3, <1>4 DEF Enq

(* The steps of combineLogs keep the types.                                *)
LEMMA LogTypeCombine ==
  ASSUME LogTypeOK
  PROVE  /\ CombinerLoop \/ CombinerSeesStop \/ CombinerDrain \/ CombinerDrained => LogTypeOK'
         /\ \A t \in Threads : CombinerLock(t) \/ CombinerCopy(t) => LogTypeOK'
         /\ CombinerSort => LogTypeOK'
  <1>0. ThreadTypeOK /\ QueueTypeOK /\ CombinerTypeOK
    BY DEF LogTypeOK
  <1>1. ASSUME StartCombine PROVE curQ' \in {0, 1} /\ left' \subseteq Threads
    BY <1>0, <1>1 DEF StartCombine, QueueTypeOK, ThreadTypeOK
  <1>2. ASSUME CombinerLoop \/ CombinerDrain PROVE LogTypeOK'
    <2>1. StartCombine /\ rounds' \in Nat
      BY <1>0, <1>2 DEF CombinerLoop, CombinerDrain, CombinerTypeOK
    <2>2. /\ UNCHANGED <<threadVars, workQueue, workerVars, stopVars>>
          /\ UNCHANGED <<op_, qLock, phase, cw, minDone, logs, logQueue>>
      BY <1>2 DEF CombinerLoop, CombinerDrain
    <2>3. QueueTypeOK'
      BY <1>0, <1>1, <2>1, <2>2 DEF QueueTypeOK
    <2>4. CombinerTypeOK'
      BY <1>0, <1>1, <2>1, <2>2 DEF StartCombine, CombinerTypeOK
    <2>5. QED
      BY <2>2, <2>3, <2>4, TypeFrame DEF LogTypeOK
  <1>3. ASSUME CombinerSeesStop \/ CombinerDrained PROVE LogTypeOK'
    <2>1. CombinerTypeOK'
      BY <1>0, <1>3 DEF CombinerSeesStop, CombinerDrained, CombinerTypeOK
    <2>2. UNCHANGED <<threadVars, logVars, workQueue, workerVars, stopVars>>
      BY <1>3 DEF CombinerSeesStop, CombinerDrained
    <2>3. QED
      BY <2>1, <2>2, TypeFrame DEF LogTypeOK
  <1>4. 1 - curQ \in {0, 1}
    BY <1>0 DEF QueueTypeOK
  <1>5. ASSUME NEW t \in Threads, CombinerLock(t) PROVE LogTypeOK'
    <2>1. QueueTypeOK'
      BY <1>0, <1>4, <1>5, Zenon DEF CombinerLock, QueueTypeOK
    <2>2. CombinerTypeOK'
      BY <1>0, <1>5 DEF CombinerLock, CombinerTypeOK
    <2>3. UNCHANGED <<threadVars, workQueue, workerVars, stopVars>>
      BY <1>5, Zenon DEF CombinerLock
    <2>4. QED
      BY <2>1, <2>2, <2>3, TypeFrame, Zenon DEF LogTypeOK
  <1>6. ASSUME NEW t \in Threads, CombinerCopy(t) PROVE LogTypeOK'
    <2>1. QueueTypeOK'
      <3>1. qLock' \in [Threads -> [{0, 1} -> {"free", "thread", "combiner"}]]
        BY <1>0, <1>4, <1>6, Zenon DEF CombinerCopy, QueueTypeOK
      <3>2. op_' \in [Threads -> [{0, 1} -> Seq(Op)]]
        BY <1>0, <1>4, <1>6 DEF CombinerCopy, QueueTypeOK
      <3>3. QED
        BY <1>0, <1>6, <3>1, <3>2, Zenon DEF CombinerCopy, QueueTypeOK
    <2>2. CombinerTypeOK'
      <3>1. op_[t][1 - curQ] \in Seq(Op)
        BY <1>0, <1>4, Zenon DEF QueueTypeOK
      <3>2. merged' \in Seq(Op)
        BY <1>0, <1>6, <3>1 DEF CombinerCopy, CombinerTypeOK
      <3>3. QED
        BY <1>0, <1>6, <3>2 DEF CombinerCopy, CombinerTypeOK
    <2>3. UNCHANGED <<threadVars, workQueue, workerVars, stopVars>>
      BY <1>6 DEF CombinerCopy
    <2>4. QED
      BY <2>1, <2>2, <2>3, TypeFrame DEF LogTypeOK
  <1>7. ASSUME CombinerSort PROVE LogTypeOK'
    <2>0. merged \in Seq(Op) /\ logs \in Seq(Seq(Op)) /\ logQueue \in Seq(Nat)
      BY <1>0 DEF CombinerTypeOK
    <2>1. logs' \in Seq(Seq(Op)) /\ logQueue' \in Seq(Nat)
      <3>1. CASE merged = << >>
        BY <1>7, <2>0, <3>1 DEF CombinerSort
      <3>2. CASE merged # << >>
        <4>1. PICK s \in Orders(merged) : logs' = Append(logs, s)
          BY <1>7, <3>2 DEF CombinerSort
        <4>2. s \in Seq(Op)
          BY <2>0, <4>1, OrdersType, Zenon
        <4>3. Len(logs) \in Nat /\ logQueue' = Append(logQueue, Len(logs))
          BY <1>7, <2>0, <3>2 DEF CombinerSort
        <4>4. QED
          BY <2>0, <4>1, <4>2, <4>3
      <3>3. QED
        BY <3>1, <3>2
    <2>2. cpc' \in {"loop", "merge", "copy", "broadcast", "free", "scan"}
      BY <1>7 DEF CombinerSort
    <2>3. merged' = << >> /\ cw' = 0 /\ UNCHANGED <<phase, left, minDone, rounds>>
      BY <1>7 DEF CombinerSort
    <2>4. CombinerTypeOK'
      BY <1>0, <2>1, <2>2, <2>3, WorkerAssumption DEF CombinerTypeOK
    <2>5. UNCHANGED <<threadVars, logVars, workQueue, workerVars, stopVars>>
      BY <1>7 DEF CombinerSort
    <2>6. QED
      BY <2>4, <2>5, TypeFrame DEF LogTypeOK
  <1>8. QED
    BY <1>2, <1>3, <1>5, <1>6, <1>7

(* The broadcast, the reclamation and the shutdown keep the types.         *)
LEMMA LogTypeRest ==
  ASSUME LogTypeOK, RetireHasLog, BroadcastIsQueued
  PROVE  /\ CombinerBroadcast \/ FreeTest \/ ForceTest \/ ScanDoneCount \/ Reclaim => LogTypeOK'
         /\ \A w \in Workers : Worker(w) => LogTypeOK'
         /\ Stop => LogTypeOK'
  <1>0. CombinerTypeOK /\ WorkerTypeOK /\ StopTypeOK /\ NumWorkers \in Nat
    BY WorkerAssumption DEF LogTypeOK
  <1>1. ASSUME CombinerBroadcast PROVE LogTypeOK'
    <2>1. CombinerTypeOK'
      <3>1. cpc' \in {"broadcast", "free", "loop"} /\ cw' \in 0 .. NumWorkers
        BY <1>0, <1>1 DEF CombinerBroadcast, CombinerTypeOK
      <3>2. UNCHANGED <<phase, left, merged, minDone, rounds, logs, logQueue>>
        BY <1>1 DEF CombinerBroadcast
      <3>3. QED
        BY <1>0, <3>1, <3>2 DEF CombinerTypeOK
    <2>2. WorkerTypeOK'
      <3>1. Len(logs) - 1 \in Nat
        BY <1>0, <1>1 DEF CombinerBroadcast, BroadcastIsQueued, CombinerTypeOK
      <3>2. \/ workQueue' = workQueue
            \/ /\ cw \in Workers
               /\ workQueue' = [workQueue EXCEPT ![cw] = Append(@, Len(logs) - 1)]
        BY <1>0, <1>1 DEF CombinerBroadcast, CombinerTypeOK, Workers
      <3>3. cw \in Workers => Append(workQueue[cw], Len(logs) - 1) \in Seq(Nat)
        BY <1>0, <3>1 DEF WorkerTypeOK
      <3>4. workQueue' \in [Workers -> Seq(Nat)]
        BY <1>0, <3>2, <3>3, Zenon DEF WorkerTypeOK
      <3>5. UNCHANGED <<wpc, logDoneCount>>
        BY <1>1 DEF CombinerBroadcast, workerVars
      <3>6. QED
        BY <1>0, <3>4, <3>5, Zenon DEF WorkerTypeOK
    <2>3. UNCHANGED <<threadVars, logVars, stopVars>>
      BY <1>1 DEF CombinerBroadcast
    <2>4. QED
      BY <2>1, <2>2, <2>3, TypeFrame, Zenon DEF LogTypeOK
  <1>2. ASSUME FreeTest PROVE LogTypeOK'
    <2>1. CombinerTypeOK'
      BY <1>0, <1>2 DEF FreeTest, CombinerTypeOK
    <2>2. UNCHANGED <<threadVars, logVars, workQueue, workerVars, stopVars>>
      BY <1>2 DEF FreeTest
    <2>3. QED
      BY <2>1, <2>2, TypeFrame DEF LogTypeOK
  <1>3. ASSUME ForceTest PROVE LogTypeOK'
    <2>1. CombinerTypeOK'
      BY <1>0, <1>3 DEF ForceTest, CombinerTypeOK
    <2>2. StopTypeOK'
      BY <1>0, <1>3, Zenon DEF ForceTest, StopTypeOK
    <2>3. UNCHANGED <<threadVars, logVars, workQueue, workerVars>>
      BY <1>3, Zenon DEF ForceTest
    <2>4. QED
      BY <2>1, <2>2, <2>3, TypeFrame, Zenon DEF LogTypeOK
  <1>4. ASSUME ScanDoneCount PROVE LogTypeOK'
    <2>1. cw \in Workers /\ cw' \in 0 .. NumWorkers
      BY <1>0, <1>4 DEF ScanDoneCount, CombinerTypeOK, Workers
    <2>2. minDone' \in Nat
      BY <1>0, <1>4, <2>1, Zenon DEF ScanDoneCount, CombinerTypeOK, WorkerTypeOK
    <2>3. CombinerTypeOK'
      BY <1>0, <1>4, <2>1, <2>2 DEF ScanDoneCount, CombinerTypeOK
    <2>4. UNCHANGED <<threadVars, logVars, workQueue, workerVars, stopVars>>
      BY <1>4 DEF ScanDoneCount
    <2>5. QED
      BY <2>3, <2>4, TypeFrame DEF LogTypeOK
  <1>5. ASSUME Reclaim PROVE LogTypeOK'
    <2>0. logQueue \in Seq(Nat)
      BY <1>0 DEF CombinerTypeOK
    <2>1. PICK n \in 0 .. Len(logQueue) : logQueue' = SubSeq(logQueue, n + 1, Len(logQueue))
      BY <1>5 DEF Reclaim
    <2>2. Len(logQueue) \in Nat /\ \A i \in (n + 1) .. Len(logQueue) : logQueue[i] \in Nat
      BY <2>0, LenProperties, ElementOfSeq
    <2>3. logQueue' \in Seq(Nat)
      BY <2>0, <2>1, <2>2, SubSeqProperties
    <2>4. /\ cpc' = "loop" /\ cw' = 0 /\ minDone' = 0
          /\ UNCHANGED <<phase, left, merged, rounds, logs>>
      BY <1>5 DEF Reclaim
    <2>5. CombinerTypeOK'
      BY <1>0, <2>3, <2>4 DEF CombinerTypeOK
    <2>6. UNCHANGED <<threadVars, logVars, workQueue, workerVars, stopVars>>
      BY <1>5 DEF Reclaim
    <2>7. QED
      BY <2>5, <2>6, TypeFrame DEF LogTypeOK
  <1>6. ASSUME NEW w \in Workers, Apply(w) \/ WorkerExit(w) PROVE LogTypeOK'
    <2>1. WorkerTypeOK'
      <3>1. /\ wpc' = [wpc EXCEPT ![w] = "retire"] \/ wpc' = [wpc EXCEPT ![w] = "exit"]
            /\ UNCHANGED <<workQueue, logDoneCount>>
        BY <1>6, Zenon DEF Apply, WorkerExit
      <3>2. QED
        BY <1>0, <3>1, Zenon DEF WorkerTypeOK
    <2>2. UNCHANGED <<threadVars, logVars, combinerVars, stopVars>>
      BY <1>6, Zenon DEF Apply, WorkerExit
    <2>3. QED
      BY <2>1, <2>2, TypeFrame, Zenon DEF LogTypeOK
  <1>7. ASSUME NEW w \in Workers, Retire(w) PROVE LogTypeOK'
    <2>1. workQueue[w] \in Seq(Nat) /\ workQueue[w] # << >>
      BY <1>0, <1>7 DEF Retire, RetireHasLog, WorkerTypeOK
    <2>2. Tail(workQueue[w]) \in Seq(Nat)
      BY <2>1
    <2>3. WorkerTypeOK'
      BY <1>0, <1>7, <2>2 DEF Retire, WorkerTypeOK
    <2>4. UNCHANGED <<threadVars, logVars, combinerVars, stopVars>>
      BY <1>7 DEF Retire
    <2>5. QED
      BY <2>3, <2>4, TypeFrame DEF LogTypeOK
  <1>8. ASSUME Stop PROVE LogTypeOK'
    <2>1. StopTypeOK'
      BY <1>0, <1>8, Zenon DEF Stop, StopTypeOK
    <2>2. UNCHANGED <<threadVars, logVars, combinerVars, workQueue, workerVars>>
      BY <1>8 DEF Stop
    <2>3. QED
      BY <2>1, <2>2, TypeFrame DEF LogTypeOK
  <1>9. QED
    BY <1>1, <1>2, <1>3, <1>4, <1>5, <1>6, <1>7, <1>8, Zenon DEF Worker

-----------------------------------------------------------------------------
AliveRest == QueuedLogsAlive /\ NumbersAhead /\ BacklogBounded /\ RetireHasLog
               /\ BroadcastIsQueued /\ MinimumIsLow

(* Steps that touch neither the logs and queues nor the workers.           *)
LEMMA QuietStep ==
  ASSUME AliveRest,
         UNCHANGED <<logs, logQueue, workQueue, logDoneCount, wpc>>,
         \/ UNCHANGED <<cpc, cw, minDone>>
         \/ cpc # "broadcast" /\ cpc' \notin {"broadcast", "scan"}
         \/ cpc # "broadcast" /\ cpc' = "scan" /\ cw' = 0
  PROVE  AliveRest'
  <1>1. QueuedLogsAlive' /\ NumbersAhead' /\ RetireHasLog'
    BY DEF AliveRest, QueuedLogsAlive, NumbersAhead, RetireHasLog
  <1>2. \A w \in Workers : Sent(w)' = Sent(w)
    BY DEF Sent
  <1>3. BacklogBounded'
    BY <1>2 DEF AliveRest, BacklogBounded
  <1>4. BroadcastIsQueued'
    BY DEF AliveRest, BroadcastIsQueued
  <1>5. MinimumIsLow'
    BY DEF AliveRest, MinimumIsLow, Workers
  <1>6. QED
    BY <1>1, <1>3, <1>4, <1>5, Zenon DEF AliveRest

(* The new log is the last of logQueue, and nobody has it yet.             *)
LEMMA SortStep ==
  ASSUME LogTypeOK, AliveRest, CombinerSort
  PROVE  AliveRest'
  <1>1. CASE merged = << >>
    <2>1. /\ UNCHANGED <<logs, logQueue, workQueue, logDoneCount, wpc>>
          /\ cpc # "broadcast" /\ cpc' \notin {"broadcast", "scan"}
      BY <1>1 DEF CombinerSort, workerVars
    <2>2. QED
      BY <2>1, QuietStep
  <1>2. CASE merged # << >>
    <2>1. PICK s \in Orders(merged) : logs' = Append(logs, s)
      BY <1>2 DEF CombinerSort
    <2>2. /\ logQueue' = Append(logQueue, Len(logs)) /\ cpc = "merge" /\ cpc' = "broadcast"
          /\ cw' = 0 /\ UNCHANGED <<workQueue, logDoneCount, wpc>>
      BY <1>2 DEF CombinerSort, workerVars
    <2>3. logs \in Seq(Seq(Op)) /\ s \in Seq(Op) /\ logQueue \in Seq(Nat)
      BY <2>1, OrdersType, Zenon DEF LogTypeOK, CombinerTypeOK
    <2>4. /\ Len(logs) \in Nat /\ Len(logQueue) \in Nat
          /\ Len(logs') = Len(logs) + 1 /\ Len(logQueue') = Len(logQueue) + 1
          /\ logQueue'[Len(logQueue) + 1] = Len(logs)
          /\ \A j \in 1 .. Len(logQueue) : logQueue'[j] = logQueue[j]
      BY <2>1, <2>2, <2>3, AppendProperties, LenProperties
    <2>5. QueuedLogsAlive'
      BY <2>2, <2>4 DEF AliveRest, QueuedLogsAlive
    <2>6. NumbersAhead' /\ RetireHasLog'
      BY <2>2 DEF AliveRest, NumbersAhead, RetireHasLog
    <2>7. BacklogBounded'
      <3>1. \A w \in Workers : Sent(w)' = Sent(w)
        BY <2>2, <2>4 DEF Sent, Workers
      <3>2. QED
        BY <2>2, <3>1, ZenonT(60) DEF AliveRest, BacklogBounded
    <2>8. BroadcastIsQueued'
      BY <2>2, <2>4 DEF BroadcastIsQueued
    <2>9. MinimumIsLow'
      BY <2>2 DEF MinimumIsLow
    <2>10. QED
      BY <2>5, <2>6, <2>7, <2>8, <2>9, ZenonT(60) DEF AliveRest
  <1>3. QED
    BY <1>1, <1>2

(* The pushed number is beyond everything its queue holds, or is dropped.  *)
LEMMA BroadcastStep ==
  ASSUME LogTypeOK, AliveRest, CombinerBroadcast
  PROVE  AliveRest'
  <1>1. /\ workQueue \in [Workers -> Seq(Nat)] /\ logDoneCount \in [Workers -> Nat]
        /\ Len(logs) \in Nat /\ cw \in 0 .. NumWorkers
    BY LenProperties DEF LogTypeOK, CombinerTypeOK, WorkerTypeOK
  <1>2. UNCHANGED <<logs, logQueue, logDoneCount, wpc>> /\ cpc = "broadcast"
    BY DEF CombinerBroadcast, workerVars
  <1>3. \A w \in Workers : Len(workQueue[w]) \in Nat
    BY <1>1, LenProperties, Zenon
  <1>4. CASE cw < NumWorkers
    <2>1. cw \in Workers /\ cpc' = "broadcast" /\ cw' = cw + 1
      BY <1>1, <1>2, <1>4, WorkerAssumption DEF CombinerBroadcast, Workers
    <2>2. CASE workQueue' = workQueue
      <3>1. \A w \in Workers : Sent(w)' >= Sent(w) /\ Sent(w) \in Int /\ Sent(w)' \in Int
        BY <1>1, <1>2, <2>1 DEF Sent, Workers
      <3>2. BacklogBounded'
        BY <1>1, <1>2, <1>3, <2>2, <3>1 DEF AliveRest, BacklogBounded
      <3>3. QED
        BY <1>2, <2>1, <2>2, <3>2, Zenon DEF AliveRest, QueuedLogsAlive, NumbersAhead,
           RetireHasLog, BroadcastIsQueued, MinimumIsLow
    <2>3. CASE workQueue' = [workQueue EXCEPT ![cw] = Append(@, Len(logs) - 1)]
      <3>0. PICK c \in Workers : c = cw
        BY <2>1
      <3>1. Len(logs) - 1 \in Nat
        BY <1>1, <1>2 DEF AliveRest, BroadcastIsQueued
      <3>2. /\ Len(workQueue'[c]) = Len(workQueue[c]) + 1
            /\ workQueue'[c][Len(workQueue[c]) + 1] = Len(logs) - 1
            /\ \A i \in 1 .. Len(workQueue[c]) : workQueue'[c][i] = workQueue[c][i]
        BY <1>1, <2>3, <3>0, <3>1, AppendProperties
      <3>3. \A w \in Workers : w # c => workQueue'[w] = workQueue[w]
        BY <1>1, <2>3, <3>0, Zenon
      <3>4. /\ Sent(c) = Len(logs) - 1 /\ Sent(c)' = Len(logs)
            /\ \A w \in Workers : w # c => Sent(w)' = Sent(w)
        BY <1>1, <1>2, <2>1, <3>0 DEF Sent, Workers
      <3>5. logDoneCount[c] + Len(workQueue[c]) <= Len(logs) - 1
        BY <3>4, Zenon DEF AliveRest, BacklogBounded
      <3>6. ASSUME NEW w \in Workers, NEW i \in 1 .. Len(workQueue'[w])
            PROVE  \/ i \in 1 .. Len(workQueue[w]) /\ workQueue'[w][i] = workQueue[w][i]
                   \/ /\ w = c /\ i = Len(workQueue[c]) + 1
                      /\ workQueue'[w][i] = Len(logs) - 1
        BY <1>3, <3>2, <3>3
      <3>7. QueuedLogsAlive'
        BY <1>2, <3>6 DEF AliveRest, QueuedLogsAlive, BroadcastIsQueued
      <3>8. NumbersAhead'
        <4>1. ASSUME NEW w \in Workers, NEW i \in 1 .. Len(workQueue'[w])
              PROVE  workQueue'[w][i] >= logDoneCount[w] + i - 1
          <5>1. CASE i \in 1 .. Len(workQueue[w]) /\ workQueue'[w][i] = workQueue[w][i]
            BY <5>1, Zenon DEF AliveRest, NumbersAhead
          <5>2. CASE w = c /\ i = Len(workQueue[c]) + 1 /\ workQueue'[w][i] = Len(logs) - 1
            BY <1>1, <1>3, <3>5, <5>2
          <5>3. QED
            BY <3>6, <5>1, <5>2, Zenon
        <4>2. QED
          BY <1>2, <4>1, Zenon DEF NumbersAhead
      <3>9. BacklogBounded'
        <4>1. ASSUME NEW w \in Workers PROVE logDoneCount[w] + Len(workQueue'[w]) <= Sent(w)'
          <5>1. CASE w = c
            BY <1>1, <1>3, <3>2, <3>4, <3>5, <5>1
          <5>2. CASE w # c
            BY <3>3, <3>4, <5>2, Zenon DEF AliveRest, BacklogBounded
          <5>3. QED
            BY <5>1, <5>2, Zenon
        <4>2. QED
          BY <1>2, <4>1 DEF BacklogBounded
      <3>10. RetireHasLog'
        BY <1>2, <1>3, <3>2, <3>3 DEF AliveRest, RetireHasLog
      <3>11. BroadcastIsQueued' /\ MinimumIsLow'
        BY <1>2, <2>1, Zenon DEF AliveRest, BroadcastIsQueued, MinimumIsLow
      <3>12. QED
        BY <3>7, <3>8, <3>9, <3>10, <3>11 DEF AliveRest
    <2>4. QED
      BY <1>4, <2>2, <2>3, ZenonT(60) DEF CombinerBroadcast
  <1>5. CASE ~(cw < NumWorkers)
    <2>1. cw = NumWorkers /\ cpc' \in {"free", "loop"} /\ workQueue' = workQueue
      BY <1>1, <1>5, WorkerAssumption DEF CombinerBroadcast
    <2>2. \A w \in Workers : Sent(w)' = Sent(w)
      BY <1>2, <2>1, WorkerAssumption DEF Sent, Workers
    <2>3. QED
      BY <1>2, <2>1, <2>2, Zenon DEF AliveRest, QueuedLogsAlive, NumbersAhead, BacklogBounded,
         RetireHasLog, BroadcastIsQueued, MinimumIsLow
  <1>6. QED
    BY <1>4, <1>5

(* The minimum is at most every count read so far.                         *)
LEMMA ScanStep ==
  ASSUME LogTypeOK, AliveRest, ScanDoneCount
  PROVE  AliveRest'
  <1>1. /\ logDoneCount \in [Workers -> Nat] /\ cw \in 0 .. NumWorkers /\ minDone \in Nat
        /\ cpc = "scan" /\ cw < NumWorkers /\ cw' = cw + 1 /\ cpc' = cpc
        /\ UNCHANGED <<logs, logQueue, workQueue, logDoneCount, wpc>>
    BY DEF LogTypeOK, CombinerTypeOK, WorkerTypeOK, ScanDoneCount, workerVars
  <1>2. \A w \in Workers : Sent(w)' = Sent(w)
    BY <1>1 DEF Sent
  <1>3. MinimumIsLow'
    <2>1. minDone' = IF cw = 0 \/ logDoneCount[cw] < minDone THEN logDoneCount[cw] ELSE minDone
      BY DEF ScanDoneCount
    <2>2. cw \in Workers
      BY <1>1, WorkerAssumption DEF Workers
    <2>3. \A v \in Workers : v < cw + 1 => minDone' <= logDoneCount[v]
      BY <1>1, <2>1, <2>2 DEF AliveRest, MinimumIsLow, Workers
    <2>4. QED
      BY <1>1, <2>3 DEF MinimumIsLow
  <1>4. QED
    BY <1>1, <1>2, <1>3, Zenon DEF AliveRest, QueuedLogsAlive, NumbersAhead, BacklogBounded,
       RetireHasLog, BroadcastIsQueued

(* What is deleted is numbered below the minimum, hence below every number *)
(* still queued; what is left of logQueue holds those numbers.             *)
LEMMA ReclaimStep ==
  ASSUME LogTypeOK, AliveRest, Reclaim
  PROVE  AliveRest'
  <1>1. /\ logDoneCount \in [Workers -> Nat] /\ workQueue \in [Workers -> Seq(Nat)]
        /\ logQueue \in Seq(Nat) /\ minDone \in Nat
        /\ cpc = "scan" /\ cw = NumWorkers /\ cpc' = "loop"
        /\ UNCHANGED <<logs, workQueue, logDoneCount, wpc>>
    BY DEF LogTypeOK, CombinerTypeOK, WorkerTypeOK, Reclaim, workerVars
  <1>2. PICK n \in 0 .. Len(logQueue) :
          /\ \A i \in 1 .. n : logQueue[i] < minDone
          /\ logQueue' = SubSeq(logQueue, n + 1, Len(logQueue))
    BY Zenon DEF Reclaim
  <1>3. /\ Len(logQueue) \in Nat /\ Len(logQueue') = Len(logQueue) - n
        /\ \A j \in 1 .. Len(logQueue') : logQueue'[j] = logQueue[n + j]
    <2>1. /\ Len(logQueue) \in Nat /\ n + 1 \in Int /\ Len(logQueue) \in Int
          /\ \A i \in n + 1 .. Len(logQueue) : i \in 1 .. Len(logQueue)
      BY <1>1, LenProperties
    <2>2. \A i \in n + 1 .. Len(logQueue) : logQueue[i] \in Nat
      BY <1>1, <2>1, ElementOfSeq, Zenon
    <2>3. /\ Len(logQueue') = IF n + 1 <= Len(logQueue) THEN Len(logQueue) - (n + 1) + 1 ELSE 0
          /\ \A i \in 1 .. Len(logQueue) - (n + 1) + 1 : logQueue'[i] = logQueue[n + 1 + i - 1]
      BY <1>2, <2>1, <2>2, SubSeqProperties
    <2>4. /\ Len(logQueue') = Len(logQueue) - n
          /\ Len(logQueue) - (n + 1) + 1 = Len(logQueue) - n
      BY <2>1, <2>3
    <2>5. \A j \in 1 .. Len(logQueue') : n + 1 + j - 1 = n + j
      BY <2>1, <2>4
    <2>6. QED
      BY <2>1, <2>3, <2>4, <2>5, Zenon
  <1>4. QueuedLogsAlive'
    <2> SUFFICES ASSUME NEW w \in Workers, NEW i \in 1 .. Len(workQueue[w])
                 PROVE  \E j \in 1 .. Len(logQueue') : logQueue'[j] = workQueue[w][i]
      BY <1>1, Zenon DEF QueuedLogsAlive
    <2>1. PICK j \in 1 .. Len(logQueue) : logQueue[j] = workQueue[w][i]
      BY DEF AliveRest, QueuedLogsAlive
    <2>2. minDone <= logDoneCount[w]
      BY <1>1, WorkerAssumption DEF AliveRest, MinimumIsLow, Workers
    <2>3. workQueue[w][i] \in Nat /\ Len(workQueue[w]) \in Nat
      BY <1>1, ElementOfSeq, LenProperties, Zenon
    <2>4. workQueue[w][i] >= minDone
      <3>1. workQueue[w][i] >= logDoneCount[w] + i - 1
        BY DEF AliveRest, NumbersAhead
      <3>2. minDone \in Nat /\ logDoneCount[w] \in Nat
        BY <1>1, Zenon
      <3>3. i \in Nat /\ i >= 1
        BY <2>3
      <3>4. QED
        BY <2>2, <2>3, <3>1, <3>2, <3>3
    <2>5. ~(j \in 1 .. n)
      <3>1. j \in 1 .. n => workQueue[w][i] < minDone
        BY <1>2, <2>1, Zenon
      <3>2. minDone \in Nat
        BY <1>1, Zenon
      <3>3. QED
        BY <2>3, <2>4, <3>1, <3>2
    <2>6. j - n \in 1 .. Len(logQueue') /\ n + (j - n) = j
      BY <1>2, <1>3, <2>1, <2>5
    <2>7. logQueue'[j - n] = logQueue[j]
      BY <1>3, <2>6
    <2>8. QED
      BY <2>1, <2>6, <2>7, Zenon
  <1>5. \A w \in Workers : Sent(w)' = Sent(w)
    BY <1>1 DEF Sent
  <1>6. QED
    BY <1>1, <1>4, <1>5, ZenonT(60) DEF AliveRest, NumbersAhead, BacklogBounded, RetireHasLog,
       BroadcastIsQueued, MinimumIsLow

(* A pop shifts the queue by one place and the count by one.               *)
LEMMA RetireStep ==
  ASSUME LogTypeOK, AliveRest, NEW w \in Workers, Retire(w)
  PROVE  AliveRest'
  <1>1. /\ logDoneCount \in [Workers -> Nat] /\ workQueue \in [Workers -> Seq(Nat)]
        /\ wpc \in [Workers -> {"run", "retire", "exit"}] /\ minDone \in Nat
    BY Zenon DEF LogTypeOK, CombinerTypeOK, WorkerTypeOK
  <1>2. /\ UNCHANGED <<logs, logQueue, cpc, cw, minDone>>
        /\ workQueue' = [workQueue EXCEPT ![w] = Tail(@)]
        /\ logDoneCount' = [logDoneCount EXCEPT ![w] = @ + 1]
        /\ wpc' = [wpc EXCEPT ![w] = "run"] /\ wpc[w] = "retire"
    BY DEF Retire, combinerVars
  <1>3. workQueue[w] \in Seq(Nat) /\ workQueue[w] # << >>
    BY <1>1, <1>2 DEF AliveRest, RetireHasLog
  <1>4. /\ Len(workQueue[w]) \in Nat /\ Len(workQueue'[w]) = Len(workQueue[w]) - 1
        /\ \A i \in 1 .. Len(workQueue'[w]) : workQueue'[w][i] = workQueue[w][i + 1]
        /\ logDoneCount'[w] = logDoneCount[w] + 1
    BY <1>1, <1>2, <1>3, HeadTailProperties, LenProperties, Zenon
  <1>5. \A v \in Workers : v # w => /\ workQueue'[v] = workQueue[v]
                                   /\ logDoneCount'[v] = logDoneCount[v]
                                   /\ wpc'[v] = wpc[v]
    BY <1>1, <1>2, Zenon
  <1>0. \A v \in Workers :
          /\ Len(workQueue[v]) \in Nat /\ Len(workQueue'[v]) \in Nat
          /\ logDoneCount[v] \in Nat /\ logDoneCount'[v] \in Nat
    <2>1. \A v \in Workers : Len(workQueue[v]) \in Nat /\ logDoneCount[v] \in Nat
      BY <1>1, LenProperties
    <2>2. Len(workQueue[w]) # 0
      BY <1>3, EmptySeq, Zenon
    <2>3. Len(workQueue'[w]) \in Nat /\ logDoneCount'[w] \in Nat
      BY <1>4, <2>1, <2>2
    <2>4. QED
      BY <1>5, <2>1, <2>3, Zenon
  <1>6. ASSUME NEW v \in Workers, NEW i \in 1 .. Len(workQueue'[v])
        PROVE  \E k \in 1 .. Len(workQueue[v]) :
                  /\ workQueue'[v][i] = workQueue[v][k]
                  /\ logDoneCount'[v] + i = logDoneCount[v] + k
    <2>1. CASE v = w
      <3>1. i + 1 \in 1 .. Len(workQueue[v]) /\ workQueue'[v][i] = workQueue[v][i + 1]
        BY <1>4, <1>0, <2>1
      <3>2. i \in Int /\ logDoneCount[v] \in Int /\ logDoneCount'[v] = logDoneCount[v] + 1
        BY <1>4, <1>0, <2>1
      <3>3. \A d, k \in Int : (d + 1) + k = d + (k + 1)
        OBVIOUS
      <3>4. (logDoneCount[v] + 1) + i = logDoneCount[v] + (i + 1)
        BY <3>2, <3>3, Zenon
      <3>5. logDoneCount'[v] + i = (logDoneCount[v] + 1) + i
        BY <3>2, ZenonT(60)
      <3>6. QED
        BY <3>1, <3>4, <3>5, Zenon
    <2>2. CASE v # w
      BY <1>5, <2>2, ZenonT(60)
    <2>3. QED
      BY <2>1, <2>2, Zenon
  <1>7. QueuedLogsAlive'
    BY <1>2, <1>6 DEF AliveRest, QueuedLogsAlive
  <1>8. NumbersAhead'
    <2>1. ASSUME NEW v \in Workers, NEW i \in 1 .. Len(workQueue'[v])
          PROVE  workQueue'[v][i] >= logDoneCount'[v] + i - 1
      <3>1. PICK k \in 1 .. Len(workQueue[v]) :
                  /\ workQueue'[v][i] = workQueue[v][k]
                  /\ logDoneCount'[v] + i = logDoneCount[v] + k
        BY <1>6
      <3>2. workQueue[v][k] >= logDoneCount[v] + k - 1
        BY DEF AliveRest, NumbersAhead
      <3>3. \A d, e, x, y, n \in Int : e + x = d + y /\ n >= d + y - 1 => n >= e + x - 1
        OBVIOUS
      <3>4. /\ logDoneCount[v] \in Int /\ logDoneCount'[v] \in Int /\ i \in Int /\ k \in Int
            /\ workQueue[v][k] \in Int
        BY <1>0, <1>1, ElementOfSeq
      <3>5. workQueue[v][k] >= logDoneCount'[v] + i - 1
        BY <3>1, <3>2, <3>3, <3>4, Zenon
      <3>6. QED
        BY <3>1, <3>5, ZenonT(60)
    <2>2. QED
      BY <2>1, Zenon DEF NumbersAhead
  <1>9. BacklogBounded'
    <2>1. \A v \in Workers : Sent(v)' = Sent(v)
      BY <1>2, Zenon DEF Sent
    <2>2. ASSUME NEW v \in Workers
          PROVE  logDoneCount'[v] + Len(workQueue'[v]) = logDoneCount[v] + Len(workQueue[v])
      <3>1. CASE v = w
        BY <1>1, <1>4, <3>1
      <3>2. CASE v # w
        BY <1>5, <3>2, Zenon
      <3>3. QED
        BY <3>1, <3>2, Zenon
    <2>3. QED
      BY <2>1, <2>2, Zenon DEF AliveRest, BacklogBounded
  <1>10. RetireHasLog'
    BY <1>1, <1>2, <1>5, Zenon DEF AliveRest, RetireHasLog
  <1>11. BroadcastIsQueued'
    BY <1>2, Zenon DEF AliveRest, BroadcastIsQueued
  <1>12. MinimumIsLow'
    BY <1>1, <1>2, <1>4, <1>5 DEF AliveRest, MinimumIsLow
  <1>13. QED
    BY <1>7, <1>8, <1>9, <1>10, <1>11, <1>12, Zenon DEF AliveRest

(* applyOperation and the exit of a worker preserve the invariant.         *)
LEMMA WorkerStep ==
  ASSUME LogTypeOK, AliveRest, NEW w \in Workers, Worker(w)
  PROVE  AliveRest'
  <1>1. CASE Retire(w)
    BY <1>1, RetireStep, Zenon
  <1>2. CASE Apply(w) \/ WorkerExit(w)
    <2>1. /\ UNCHANGED <<logs, logQueue, workQueue, logDoneCount, cpc, cw, minDone>>
          /\ wpc \in [Workers -> {"run", "retire", "exit"}]
      BY <1>2 DEF Apply, WorkerExit, combinerVars, LogTypeOK, WorkerTypeOK
    <2>2. \A v \in Workers : wpc'[v] = "retire" => wpc[v] = "retire" \/ workQueue[v] # << >>
      <3>1. \/ wpc' = [wpc EXCEPT ![w] = "retire"] /\ workQueue[w] # << >>
            \/ wpc' = [wpc EXCEPT ![w] = "exit"]
        BY <1>2, Zenon DEF Apply, WorkerExit
      <3>2. wpc \in [Workers -> {"run", "retire", "exit"}]
        BY <2>1
      <3>3. QED
        BY <3>1, <3>2, Zenon
    <2>3. \A v \in Workers : workQueue[v] # << >> => Len(workQueue[v]) > 0
      BY LenProperties DEF LogTypeOK, WorkerTypeOK
    <2>4. RetireHasLog'
      BY <2>1, <2>2, <2>3, Zenon DEF AliveRest, RetireHasLog
    <2>5. \A v \in Workers : Sent(v)' = Sent(v)
      BY <2>1, Zenon DEF Sent
    <2>6. QED
      BY <2>1, <2>4, <2>5, ZenonT(60) DEF AliveRest, QueuedLogsAlive, NumbersAhead, BacklogBounded,
         BroadcastIsQueued, MinimumIsLow
  <1>3. QED
    BY <1>1, <1>2 DEF Worker

(* Every step preserves the invariant, action by action.                   *)
LEMMA AliveStep == AliveInv /\ [Next]_vars => AliveInv'
  <1> SUFFICES ASSUME LogTypeOK, AliveRest, [Next]_vars PROVE LogTypeOK' /\ AliveRest'
    BY DEF AliveInv, AliveRest
  <1>0. RetireHasLog /\ BroadcastIsQueued
    BY Zenon DEF AliveRest
  <1>1. ASSUME UNCHANGED vars PROVE LogTypeOK' /\ AliveRest'
    <2>1. LogTypeOK'
      BY <1>1, TypeFrame, Zenon DEF LogTypeOK, vars
    <2>2. QED
      BY <1>1, <2>1, QuietStep, Zenon DEF vars, combinerVars, workerVars
  <1>2. ASSUME NEW t \in Threads, Enq(t) \/ \E o \in Op : EnqCall(t, o)
        PROVE  LogTypeOK' /\ AliveRest'
    <2>1. LogTypeOK'
      BY <1>2, LogTypeEnq, Zenon
    <2>2. UNCHANGED <<logs, logQueue, workQueue, logDoneCount, wpc, cpc, cw, minDone>>
      <3>1. CASE Enq(t)
        <4>1. UNCHANGED <<combinerVars, workQueue, workerVars>>
          BY <3>1, Zenon DEF Enq, EnqLoad, EnqTryLock, EnqPush
        <4>2. QED
          BY <4>1, Zenon DEF combinerVars, workerVars
      <3>2. CASE \E o \in Op : EnqCall(t, o)
        BY <3>2 DEF EnqCall, workerVars
      <3>3. QED
        BY <1>2, <3>1, <3>2, Zenon
    <2>3. QED
      BY <2>1, <2>2, QuietStep, Zenon
  <1>3. ASSUME Stop PROVE LogTypeOK' /\ AliveRest'
    <2>1. LogTypeOK'
      BY <1>0, <1>3, LogTypeRest, Zenon
    <2>2. UNCHANGED <<logs, logQueue, workQueue, logDoneCount, wpc, cpc, cw, minDone>>
      BY <1>3 DEF Stop, combinerVars, workerVars
    <2>3. QED
      BY <2>1, <2>2, QuietStep
  <1>4. ASSUME CombinerLoop \/ CombinerSeesStop \/ CombinerDrain \/ CombinerDrained
        PROVE  LogTypeOK' /\ AliveRest'
    <2>1. LogTypeOK'
      BY <1>4, LogTypeCombine, ZenonT(60)
    <2>2. /\ UNCHANGED <<logs, logQueue, workQueue, logDoneCount, wpc>>
          /\ cpc # "broadcast" /\ cpc' \notin {"broadcast", "scan"}
      BY <1>4 DEF CombinerLoop, CombinerSeesStop, CombinerDrain, CombinerDrained, StartCombine,
                  workerVars
    <2>3. QED
      BY <2>1, <2>2, QuietStep
  <1>5. ASSUME NEW t \in Threads, CombinerLock(t) \/ CombinerCopy(t)
        PROVE  LogTypeOK' /\ AliveRest'
    <2>1. LogTypeOK'
      BY <1>5, LogTypeCombine, ZenonT(60)
    <2>2. /\ UNCHANGED <<logs, logQueue, workQueue, logDoneCount, wpc>>
          /\ cpc # "broadcast" /\ cpc' \notin {"broadcast", "scan"}
      BY <1>5 DEF CombinerLock, CombinerCopy, workerVars
    <2>3. QED
      BY <2>1, <2>2, QuietStep, Zenon
  <1>6. ASSUME CombinerSort PROVE LogTypeOK' /\ AliveRest'
    BY <1>6, LogTypeCombine, SortStep
  <1>7. ASSUME CombinerBroadcast PROVE LogTypeOK' /\ AliveRest'
    BY <1>0, <1>7, LogTypeRest, BroadcastStep
  <1>8. ASSUME FreeTest \/ ForceTest PROVE LogTypeOK' /\ AliveRest'
    <2>1. LogTypeOK'
      BY <1>0, <1>8, LogTypeRest
    <2>2. /\ UNCHANGED <<logs, logQueue, workQueue, logDoneCount, wpc>>
          /\ cpc # "broadcast"
          /\ cpc' \notin {"broadcast", "scan"} \/ (cpc' = "scan" /\ cw' = 0)
      <3>1. CASE FreeTest
        BY <3>1 DEF FreeTest, workerVars
      <3>2. CASE ForceTest
        BY <3>2 DEF ForceTest, workerVars
      <3>3. QED
        BY <1>8, <3>1, <3>2
    <2>3. QED
      BY <2>1, <2>2, QuietStep
  <1>9. ASSUME ScanDoneCount PROVE LogTypeOK' /\ AliveRest'
    BY <1>0, <1>9, LogTypeRest, ScanStep
  <1>10. ASSUME Reclaim PROVE LogTypeOK' /\ AliveRest'
    BY <1>0, <1>10, LogTypeRest, ReclaimStep
  <1>11. ASSUME NEW w \in Workers, Worker(w) PROVE LogTypeOK' /\ AliveRest'
    BY <1>0, <1>11, LogTypeRest, WorkerStep, Zenon
  <1>12. QED
    BY <1>1, <1>2, <1>3, <1>4, <1>5, <1>6, <1>7, <1>8, <1>9, <1>10, <1>11
      , ZenonT(60) DEF Next, Combiner, Finished

(* With no log there is nothing to delete too early.                       *)
LEMMA InitAlive == Init => AliveInv
  <1> SUFFICES ASSUME Init PROVE AliveInv
    OBVIOUS
  <1>1. \A w \in Workers : Len(workQueue[w]) = 0 /\ logDoneCount[w] = 0 /\ wpc[w] = "run"
    BY DEF Init
  <1>2. cpc = "loop" /\ Len(logs) = 0
    BY DEF Init
  <1>3. QED
    BY <1>1, <1>2, InitLogType DEF AliveInv, QueuedLogsAlive, NumbersAhead, BacklogBounded,
       RetireHasLog, BroadcastIsQueued, MinimumIsLow, Sent

(* The invariant of log reclamation holds in every reachable state.        *)
THEOREM AliveInvariance == Spec => []AliveInv
  BY InitAlive, AliveStep, PTL DEF Spec

(* freeMergedLogs never deletes a log a worker still has to read, for any  *)
(* number of workers and any interleaving of their progress with the scan  *)
(* of their counts, even when pushes to full queues are dropped.           *)
THEOREM LogsOutliveReaders == Spec => []QueuedLogsAlive
  BY AliveInvariance, PTL DEF AliveInv

(* The logs, queues and counters always have their types.                  *)
THEOREM LogTypeCorrect == Spec => []LogTypeOK
  BY AliveInvariance, PTL DEF AliveInv

-----------------------------------------------------------------------------
(***************************************************************************)
(* The shutdown.  DrainInv says what each part of the combiner's loop has  *)
(* drained; LogQueueInv that logQueue holds the youngest logs and that the *)
(* ones deleted from it have been applied by every worker.                 *)
(***************************************************************************)
Drained(q) == \A t \in Threads : op_[t][q] = << >>

PhaseInv ==
    /\ globalStop => \A t \in Threads : pc[t] = "idle"
    /\ phase = "run" => rounds = DrainRounds
    /\ phase # "run" => globalStop
    /\ phase = "drain" => cpc \in {"loop", "merge", "copy", "broadcast"}
    /\ phase = "force" => cpc \in {"loop", "scan"}
    /\ phase = "done" => cpc = "loop" /\ logQueue = << >>
    /\ combinerStop => phase = "done"

OwnersKnown ==
    \A t \in Threads \ perThreadLog :
        pc[t] = "idle" /\ op_[t][0] = << >> /\ op_[t][1] = << >>

DrainInv ==
    /\ phase = "drain" =>
         /\ rounds <= DrainRounds
         /\ cpc # "loop" => rounds < DrainRounds
         /\ cpc \in {"merge", "copy"} => \A t \in Threads \ left : op_[t][1 - curQ] = << >>
         /\ cpc \in {"loop", "broadcast"} /\ rounds < DrainRounds => Drained(1 - curQ)
         /\ rounds + 1 < DrainRounds => Drained(curQ)
    /\ phase \in {"force", "done"} => Drained(0) /\ Drained(1)

LogQueueInv ==
    /\ Len(logQueue) <= Len(logs)
    /\ \A j \in 1 .. Len(logQueue) : logQueue[j] = Len(logs) - Len(logQueue) + j - 1
    /\ \A w \in Workers : logDoneCount[w] >= Len(logs) - Len(logQueue)

ShutdownInv == AliveInv /\ PhaseInv /\ OwnersKnown /\ DrainInv /\ LogQueueInv

ShutRest == PhaseInv /\ OwnersKnown /\ DrainInv /\ LogQueueInv

(* Nothing is queued at the start.                                         *)
LEMMA InitShut == Init => ShutRest
  <1> SUFFICES ASSUME Init PROVE ShutRest
    OBVIOUS
  <1>1. PhaseInv /\ OwnersKnown
    BY ZenonT(60) DEF Init, PhaseInv, OwnersKnown
  <1>2. DrainInv
    BY DEF Init, DrainInv
  <1>3. logs = << >> /\ logQueue = << >> /\ logDoneCount = [w \in Workers |-> 0]
    BY DEF Init
  <1>4. LogQueueInv
    BY <1>3 DEF LogQueueInv
  <1>5. QED
    BY <1>1, <1>2, <1>4, Zenon DEF ShutRest

(* Logs are neither numbered nor deleted, and counts do not fall.          *)
LEMMA LogQueueFrame ==
  ASSUME LogQueueInv, UNCHANGED <<logs, logQueue, logDoneCount>>
  PROVE  LogQueueInv'
  BY DEF LogQueueInv

(* The steps of a user thread: they happen before the stop.                *)
LEMMA ShutEnq ==
  ASSUME LogTypeOK, ShutRest, NEW t \in Threads, Enq(t) \/ \E o \in Op : EnqCall(t, o)
  PROVE  ShutRest'
  <1>0. /\ pc \in [Threads -> {"idle", "load", "trylock", "push"}]
        /\ op_ \in [Threads -> [{0, 1} -> Seq(Op)]]
    BY Zenon DEF LogTypeOK, ThreadTypeOK, QueueTypeOK
  <1>1. /\ UNCHANGED <<cpc, phase, rounds, logs, logQueue, logDoneCount, globalStop, combinerStop>>
        /\ perThreadLog' = perThreadLog \/ perThreadLog' = perThreadLog \cup {t}
        /\ \A u \in Threads \ {t} : pc'[u] = pc[u] /\ op_'[u] = op_[u]
        /\ t \in perThreadLog'
        /\ ~globalStop
    <2>1. ASSUME NEW o \in Op, EnqCall(t, o) PROVE <1>1!:
      BY <1>0, <2>1, Zenon DEF EnqCall, logVars, workerVars, stopVars
    <2>2. CASE Enq(t)
      <3>1. pc[t] # "idle"
        BY <2>2, Zenon DEF Enq, EnqLoad, EnqTryLock, EnqPush
      <3>2. t \in perThreadLog /\ ~globalStop
        BY <3>1, ZenonT(60) DEF ShutRest, OwnersKnown, PhaseInv
      <3>3. UNCHANGED <<perThreadLog, combinerVars, workerVars, stopVars>>
        BY <2>2, Zenon DEF Enq, EnqLoad, EnqTryLock, EnqPush
      <3>4. \A u \in Threads \ {t} : pc'[u] = pc[u] /\ op_'[u] = op_[u]
        BY <1>0, <2>2, Zenon DEF Enq, EnqLoad, EnqTryLock, EnqPush, logVars
      <3>5. QED
        BY <3>2, <3>3, <3>4, ZenonT(60) DEF combinerVars, workerVars, stopVars
    <2>3. QED
      BY <2>1, <2>2, ZenonT(60)
  <1>2. phase = "run"
    BY <1>1, ZenonT(60) DEF ShutRest, PhaseInv
  <1>3. PhaseInv'
    BY <1>1, <1>2, ZenonT(60) DEF ShutRest, PhaseInv
  <1>4. OwnersKnown'
    BY <1>1, ZenonT(60) DEF ShutRest, OwnersKnown
  <1>5. DrainInv'
    BY <1>1, <1>2, Zenon DEF DrainInv
  <1>6. LogQueueInv'
    BY <1>1, LogQueueFrame, Zenon DEF ShutRest
  <1>7. QED
    BY <1>3, <1>4, <1>5, <1>6, Zenon DEF ShutRest

(* A combine round begins: the queue that was drained by the round before  *)
(* becomes the current one.                                                *)
LEMMA ShutLoop ==
  ASSUME LogTypeOK, ShutRest,
         CombinerLoop \/ CombinerSeesStop \/ CombinerDrain \/ CombinerDrained
  PROVE  ShutRest'
  <1>0. /\ curQ \in {0, 1} /\ rounds \in Nat /\ perThreadLog \subseteq Threads
        /\ phase \in {"run", "drain", "force", "done"}
    BY Zenon DEF LogTypeOK, ThreadTypeOK, QueueTypeOK, CombinerTypeOK
  <1>1. /\ UNCHANGED <<pc, perThreadLog, op_, logs, logQueue, logDoneCount, globalStop,
                       combinerStop>>
        /\ cpc = "loop"
    BY Zenon DEF CombinerLoop, CombinerSeesStop, CombinerDrain, CombinerDrained, threadVars, logVars,
           workerVars, stopVars
  <1>2. LogQueueInv' /\ OwnersKnown'
    BY <1>1, LogQueueFrame, Zenon DEF ShutRest, OwnersKnown
  <1>3. CASE CombinerLoop
    <2>1. phase = "run" /\ cpc' = "merge" /\ UNCHANGED <<phase, rounds>>
      BY <1>3, ZenonT(60) DEF CombinerLoop, StartCombine
    <2>2. PhaseInv' /\ DrainInv'
      BY <1>1, <2>1, Zenon DEF ShutRest, PhaseInv, DrainInv
    <2>3. QED
      BY <1>2, <2>2, Zenon DEF ShutRest
  <1>4. CASE CombinerSeesStop
    <2>1. /\ phase = "run" /\ phase' = "drain" /\ globalStop
          /\ UNCHANGED <<cpc, rounds>>
      BY <1>4 DEF CombinerSeesStop
    <2>2. PhaseInv'
      BY <1>1, <2>1 DEF ShutRest, PhaseInv
    <2>3. rounds = DrainRounds
      BY <2>1, Zenon DEF ShutRest, PhaseInv
    <2>4. DrainInv'
      BY <1>0, <1>1, <2>1, <2>3 DEF DrainInv
    <2>5. QED
      BY <1>2, <2>2, <2>4, Zenon DEF ShutRest
  <1>5. CASE CombinerDrain
    <2>1. /\ phase = "drain" /\ rounds' = rounds - 1 /\ curQ' = 1 - curQ
          /\ left' = perThreadLog /\ cpc' = "merge" /\ UNCHANGED phase
      BY <1>5, Zenon DEF CombinerDrain, StartCombine
    <2>2. PhaseInv'
      BY <1>1, <2>1, Zenon DEF ShutRest, PhaseInv
    <2>3. \A t \in Threads \ left' : op_[t][1 - curQ'] = << >>
      BY <1>0, <2>1 DEF ShutRest, OwnersKnown
    <2>4. /\ rounds <= DrainRounds
          /\ rounds < DrainRounds => \A t \in Threads : op_[t][1 - curQ] = << >>
      BY <1>1, <2>1, ZenonT(60) DEF ShutRest, DrainInv, Drained
    <2>5. DrainInv'
      BY <1>0, <1>1, <2>1, <2>3, <2>4, BoundAssumption DEF DrainInv, Drained
    <2>6. QED
      BY <1>2, <2>2, <2>5 DEF ShutRest
  <1>6. CASE CombinerDrained
    <2>1. phase = "drain" /\ rounds = 0 /\ phase' = "force" /\ UNCHANGED cpc
      BY <1>6, Zenon DEF CombinerDrained
    <2>2. PhaseInv'
      BY <1>1, <2>1, Zenon DEF ShutRest, PhaseInv
    <2>3. Drained(1 - curQ) /\ Drained(curQ)
      BY <1>1, <2>1, DrainAssumption, BoundAssumption DEF ShutRest, DrainInv
    <2>4. Drained(0) /\ Drained(1)
      BY <1>0, <2>3
    <2>5. DrainInv'
      BY <1>1, <2>1, <2>4 DEF DrainInv, Drained
    <2>6. QED
      BY <1>2, <2>2, <2>5 DEF ShutRest
  <1>7. QED
    BY <1>3, <1>4, <1>5, <1>6, Zenon

(* A round empties the queue it drains, one log after the other.           *)
LEMMA ShutMerge ==
  ASSUME LogTypeOK, ShutRest, NEW t \in Threads, CombinerLock(t) \/ CombinerCopy(t)
  PROVE  ShutRest'
  <1>0. curQ \in {0, 1} /\ op_ \in [Threads -> [{0, 1} -> Seq(Op)]]
    BY Zenon DEF LogTypeOK, QueueTypeOK
  <1>1. /\ UNCHANGED <<pc, perThreadLog, curQ, phase, rounds, logs, logQueue, logDoneCount,
                       globalStop, combinerStop>>
        /\ cpc \in {"merge", "copy"} /\ cpc' \in {"merge", "copy"}
    BY Zenon DEF CombinerLock, CombinerCopy, threadVars, workerVars, stopVars
  <1>2. \/ UNCHANGED <<op_, left>>
        \/ op_' = [op_ EXCEPT ![t][1 - curQ] = << >>] /\ left' = left \ {t}
    BY DEF CombinerLock, CombinerCopy
  <1>3. \A u \in Threads, q \in {0, 1} :
           op_'[u][q] = op_[u][q] \/ op_'[u][q] = << >>
    BY <1>0, <1>2
  <1>4. \A u \in Threads \ left' : u \in Threads \ left \/ op_'[u][1 - curQ] = << >>
    BY <1>0, <1>2
  <1>5. PhaseInv'
    BY <1>1, ZenonT(60) DEF ShutRest, PhaseInv
  <1>6. OwnersKnown'
    BY <1>1, <1>3 DEF ShutRest, OwnersKnown
  <1>7. DrainInv'
    <2>1. phase \notin {"force", "done"}
      BY <1>1, Zenon DEF ShutRest, PhaseInv
    <2>2. CASE phase = "drain"
      <3>1. /\ rounds <= DrainRounds /\ rounds < DrainRounds
            /\ \A u \in Threads \ left : op_[u][1 - curQ] = << >>
            /\ rounds + 1 < DrainRounds => \A u \in Threads : op_[u][curQ] = << >>
        BY <1>1, <2>2, Zenon DEF ShutRest, DrainInv, Drained
      <3>2. 1 - curQ \in {0, 1}
        BY <1>0
      <3>3. /\ \A u \in Threads \ left' : op_'[u][1 - curQ] = << >>
            /\ rounds + 1 < DrainRounds => \A u \in Threads : op_'[u][curQ] = << >>
        BY <1>0, <1>3, <1>4, <3>1, <3>2, ZenonT(60)
      <3>4. QED
        BY <1>1, <2>1, <3>1, <3>3, Zenon DEF DrainInv, Drained
    <2>3. CASE phase # "drain"
      BY <1>1, <2>1, <2>3, Zenon DEF DrainInv
    <2>4. QED
      BY <2>2, <2>3, Zenon
  <1>8. LogQueueInv'
    BY <1>1, LogQueueFrame, Zenon DEF ShutRest
  <1>9. QED
    BY <1>5, <1>6, <1>7, <1>8 DEF ShutRest

(* Steps that touch no log of a thread and leave the phase alone.  The     *)
(* combiner may go on from a complete round to its next part.              *)
LEMMA PhaseFrame ==
  ASSUME PhaseInv, OwnersKnown, DrainInv,
         UNCHANGED <<pc, perThreadLog, op_, curQ, left, phase, rounds, globalStop, combinerStop>>,
         \/ UNCHANGED cpc
         \/ cpc = "merge" /\ left = {} /\ cpc' \in {"loop", "broadcast"} /\ phase = "drain"
         \/ cpc \in {"broadcast", "scan"} /\ cpc' = "loop"
         \/ cpc = "loop" /\ cpc' = "scan" /\ phase = "force"
         \/ phase = "run",
         phase = "done" => UNCHANGED logQueue
  PROVE  PhaseInv' /\ OwnersKnown' /\ DrainInv'
  <1>1. PhaseInv'
    BY Zenon DEF PhaseInv
  <1>2. OwnersKnown'
    BY DEF OwnersKnown
  <1>3. DrainInv'
    <2>1. \A q \in {0, 1, curQ, 1 - curQ} : Drained(q)' = Drained(q)
      BY Zenon DEF Drained
    <2>2. CASE phase = "drain"
      <3>1. cpc = "merge" /\ left = {} => Drained(1 - curQ)
        BY <2>2 DEF DrainInv, Drained
      <3>2. cpc # "scan"
        BY <2>2, ZenonT(60) DEF PhaseInv
      <3>3. QED
        BY <2>1, <2>2, <3>1, <3>2, ZenonT(60) DEF DrainInv
    <2>3. CASE phase # "drain"
      BY <2>1, <2>3 DEF DrainInv
    <2>4. QED
      BY <2>2, <2>3, Zenon
  <1>4. QED
    BY <1>1, <1>2, <1>3, Zenon

(* A new log is the last of logQueue.                                      *)
LEMMA ShutSort ==
  ASSUME LogTypeOK, ShutRest, CombinerSort
  PROVE  ShutRest'
  <1>1. /\ UNCHANGED <<pc, perThreadLog, op_, curQ, left, phase, rounds, globalStop, combinerStop,
                       logDoneCount>>
        /\ cpc = "merge" /\ left = {}
        /\ cpc' = "broadcast" \/ cpc' = (IF phase = "run" THEN "free" ELSE "loop")
    BY DEF CombinerSort, threadVars, logVars, workerVars, stopVars
  <1>2. phase \in {"run", "drain"}
    BY <1>1, Zenon DEF LogTypeOK, CombinerTypeOK, ShutRest, PhaseInv
  <1>3. PhaseInv' /\ OwnersKnown' /\ DrainInv'
    BY <1>1, <1>2, PhaseFrame DEF ShutRest
  <1>4. LogQueueInv'
    <2>1. CASE merged = << >>
      <3>1. UNCHANGED <<logs, logQueue>>
        BY <2>1, Zenon DEF CombinerSort
      <3>2. QED
        BY <1>1, <3>1, LogQueueFrame DEF ShutRest
    <2>2. CASE merged # << >>
      <3>1. PICK s \in Orders(merged) : logs' = Append(logs, s)
        BY <2>2 DEF CombinerSort
      <3>2. logQueue' = Append(logQueue, Len(logs))
        BY <2>2, Zenon DEF CombinerSort
      <3>3. logs \in Seq(Seq(Op)) /\ s \in Seq(Op) /\ logQueue \in Seq(Nat)
        BY <3>1, OrdersType DEF LogTypeOK, CombinerTypeOK
      <3>4. /\ Len(logs) \in Nat /\ Len(logQueue) \in Nat
            /\ Len(logs') = Len(logs) + 1 /\ Len(logQueue') = Len(logQueue) + 1
            /\ logQueue'[Len(logQueue) + 1] = Len(logs)
            /\ \A j \in 1 .. Len(logQueue) : logQueue'[j] = logQueue[j]
        BY <3>1, <3>2, <3>3, AppendProperties, LenProperties
      <3>5. \A j \in 1 .. Len(logQueue') :
               logQueue'[j] = Len(logs') - Len(logQueue') + j - 1
        BY <3>4 DEF ShutRest, LogQueueInv
      <3>6. Len(logs') - Len(logQueue') = Len(logs) - Len(logQueue)
        BY <3>4
      <3>7. QED
        BY <1>1, <3>4, <3>5, <3>6 DEF ShutRest, LogQueueInv
    <2>3. QED
      BY <2>1, <2>2
  <1>5. QED
    BY <1>3, <1>4, ZenonT(60) DEF ShutRest

(* What is deleted is numbered below the count of every worker.            *)
LEMMA ShutReclaim ==
  ASSUME LogTypeOK, AliveRest, ShutRest, Reclaim
  PROVE  ShutRest'
  <1>1. /\ UNCHANGED <<pc, perThreadLog, op_, curQ, left, phase, rounds, globalStop, combinerStop,
                       logDoneCount, logs>>
        /\ cpc = "scan" /\ cpc' = "loop" /\ cw = NumWorkers
    BY DEF Reclaim, threadVars, logVars, workerVars, stopVars
  <1>2. phase # "done"
    BY <1>1, Zenon DEF ShutRest, PhaseInv
  <1>3. PhaseInv' /\ OwnersKnown' /\ DrainInv'
    BY <1>1, <1>2, PhaseFrame DEF ShutRest
  <1>4. /\ logDoneCount \in [Workers -> Nat] /\ logQueue \in Seq(Nat) /\ minDone \in Nat
        /\ Len(logs) \in Nat
    BY LenProperties DEF LogTypeOK, CombinerTypeOK, WorkerTypeOK
  <1>5. PICK n \in 0 .. Len(logQueue) :
          /\ \A i \in 1 .. n : logQueue[i] < minDone
          /\ logQueue' = SubSeq(logQueue, n + 1, Len(logQueue))
    BY DEF Reclaim
  <1>6. /\ Len(logQueue) \in Nat /\ Len(logQueue') = Len(logQueue) - n
        /\ \A j \in 1 .. Len(logQueue') : logQueue'[j] = logQueue[n + j]
    BY <1>4, <1>5, LenProperties, SubSeqProperties
  <1>7. \A j \in 1 .. Len(logQueue') : logQueue'[j] = Len(logs) - Len(logQueue') + j - 1
    <2>1. ASSUME NEW j \in 1 .. Len(logQueue')
          PROVE  logQueue'[j] = Len(logs) - Len(logQueue') + j - 1
      <3>1. n + j \in 1 .. Len(logQueue)
        BY <1>5, <1>6
      <3>2. logQueue[n + j] = Len(logs) - Len(logQueue) + (n + j) - 1
        BY <3>1 DEF ShutRest, LogQueueInv
      <3>3. logQueue'[j] = logQueue[n + j]
        BY <1>6
      <3>4. Len(logs) \in Int /\ Len(logQueue) \in Int /\ n \in Int /\ j \in Int
        BY <1>4, <1>5, <1>6
      <3>5. Len(logQueue') = Len(logQueue) - n
        BY <1>6
      <3>6. QED
        BY <3>2, <3>3, <3>4, <3>5
    <2>2. QED
      BY <2>1
  <1>8. ASSUME NEW w \in Workers PROVE logDoneCount[w] >= Len(logs) - Len(logQueue')
    <2>1. minDone <= logDoneCount[w]
      BY <1>1, WorkerAssumption DEF AliveRest, MinimumIsLow, Workers
    <2>2. logDoneCount[w] \in Nat /\ logDoneCount[w] >= Len(logs) - Len(logQueue)
      BY <1>4 DEF ShutRest, LogQueueInv
    <2>3. CASE n = 0
      BY <1>6, <2>2, <2>3
    <2>4. CASE n > 0
      <3>1. n \in 1 .. n /\ n \in 1 .. Len(logQueue)
        BY <1>5, <1>6, <2>4
      <3>2. logQueue[n] = Len(logs) - Len(logQueue) + n - 1 /\ logQueue[n] < minDone
        BY <1>5, <3>1 DEF ShutRest, LogQueueInv
      <3>3. QED
        BY <1>4, <1>5, <1>6, <2>1, <2>2, <3>2
    <2>5. QED
      BY <1>5, <1>6, <2>3, <2>4
  <1>9. Len(logQueue') <= Len(logs)
    BY <1>4, <1>5, <1>6 DEF ShutRest, LogQueueInv
  <1>10. LogQueueInv'
    BY <1>1, <1>7, <1>8, <1>9, Zenon DEF LogQueueInv
  <1>11. QED
    BY <1>3, <1>10, Zenon DEF ShutRest

(* The loop that forces the deletion ends with logQueue empty.             *)
LEMMA ShutForce ==
  ASSUME LogTypeOK, ShutRest, ForceTest
  PROVE  ShutRest'
  <1>1. /\ UNCHANGED <<pc, perThreadLog, op_, curQ, left, rounds, globalStop, logDoneCount, logs,
                       logQueue>>
        /\ cpc = "loop" /\ phase = "force"
    BY Zenon DEF ForceTest, threadVars, logVars, workerVars
  <1>2. LogQueueInv' /\ OwnersKnown'
    BY <1>1, LogQueueFrame DEF ShutRest, OwnersKnown
  <1>3. CASE logQueue = << >>
    <2>1. combinerStop' = TRUE /\ phase' = "done" /\ cpc' = cpc
      BY <1>3 DEF ForceTest
    <2>2. PhaseInv'
      BY <1>1, <1>3, <2>1, ZenonT(60) DEF ShutRest, PhaseInv
    <2>3. DrainInv'
      BY <1>1, <2>1 DEF ShutRest, DrainInv, Drained
    <2>4. QED
      BY <1>2, <2>2, <2>3 DEF ShutRest
  <1>4. CASE logQueue # << >>
    <2>1. cpc' = "scan" /\ UNCHANGED <<combinerStop, phase>>
      BY <1>4, Zenon DEF ForceTest
    <2>2. PhaseInv' /\ OwnersKnown' /\ DrainInv'
      BY <1>1, <2>1, PhaseFrame DEF ShutRest
    <2>3. QED
      BY <1>2, <2>2 DEF ShutRest
  <1>5. QED
    BY <1>3, <1>4

(* The other steps of the combiner.                                        *)
LEMMA ShutCombiner ==
  ASSUME LogTypeOK, ShutRest, CombinerBroadcast \/ FreeTest \/ ScanDoneCount
  PROVE  ShutRest'
  <1>1. /\ UNCHANGED <<pc, perThreadLog, op_, curQ, left, phase, rounds, globalStop, combinerStop>>
        /\ UNCHANGED <<logs, logQueue, logDoneCount>>
    BY DEF CombinerBroadcast, FreeTest, ScanDoneCount, threadVars, logVars, workerVars, stopVars
  <1>2. \/ UNCHANGED cpc
        \/ cpc = "broadcast" /\ cpc' = "loop"
        \/ phase = "run"
    <2>1. CASE CombinerBroadcast
      BY <2>1 DEF CombinerBroadcast
    <2>2. CASE FreeTest
      <3>1. cpc = "free"
        BY <2>2 DEF FreeTest
      <3>2. QED
        BY <3>1, Zenon DEF ShutRest, PhaseInv, LogTypeOK, CombinerTypeOK
    <2>3. CASE ScanDoneCount
      BY <2>3 DEF ScanDoneCount
    <2>4. QED
      BY <2>1, <2>2, <2>3, Zenon
  <1>3. PhaseInv' /\ OwnersKnown' /\ DrainInv'
    BY <1>1, <1>2, PhaseFrame DEF ShutRest
  <1>4. LogQueueInv'
    BY <1>1, LogQueueFrame DEF ShutRest
  <1>5. QED
    BY <1>3, <1>4, ZenonT(60) DEF ShutRest

(* The steps of a worker, and the stop itself.                             *)
LEMMA ShutWorker ==
  ASSUME LogTypeOK, ShutRest, Stop \/ \E w \in Workers : Worker(w)
  PROVE  ShutRest'
  <1>1. CASE Stop
    <2>1. /\ UNCHANGED <<pc, perThreadLog, op_, curQ, left, cpc, phase, rounds, combinerStop>>
          /\ UNCHANGED <<logs, logQueue, logDoneCount>>
          /\ globalStop' = TRUE /\ \A t \in Threads : pc[t] = "idle"
      BY <1>1, Zenon DEF Stop, threadVars, logVars, combinerVars, workerVars
    <2>2. LogQueueInv' /\ OwnersKnown'
      BY <2>1, LogQueueFrame, Zenon DEF ShutRest, OwnersKnown
    <2>3. PhaseInv'
      BY <2>1, ZenonT(60) DEF ShutRest, PhaseInv
    <2>4. DrainInv'
      BY <2>1 DEF ShutRest, DrainInv, Drained
    <2>5. QED
      BY <2>2, <2>3, <2>4, Zenon DEF ShutRest
  <1>2. ASSUME NEW w \in Workers, Worker(w) PROVE ShutRest'
    <2>1. UNCHANGED <<threadVars, logVars, combinerVars, stopVars>>
      BY <1>2, ZenonT(60) DEF Worker, Apply, Retire, WorkerExit
    <2>2. PhaseInv' /\ OwnersKnown' /\ DrainInv'
      BY <2>1, PhaseFrame DEF ShutRest, threadVars, logVars, combinerVars, stopVars
    <2>3. logDoneCount' = logDoneCount \/ logDoneCount' = [logDoneCount EXCEPT ![w] = @ + 1]
      BY <1>2, ZenonT(60) DEF Worker, Apply, Retire, WorkerExit
    <2>4. logDoneCount \in [Workers -> Nat] /\ Len(logs) \in Nat /\ Len(logQueue) \in Nat
      BY LenProperties DEF LogTypeOK, CombinerTypeOK, WorkerTypeOK
    <2>5. \A v \in Workers : logDoneCount'[v] >= Len(logs) - Len(logQueue)
      BY <2>3, <2>4 DEF ShutRest, LogQueueInv
    <2>6. LogQueueInv'
      BY <2>1, <2>5, Zenon DEF ShutRest, LogQueueInv, combinerVars
    <2>7. QED
      BY <2>2, <2>6 DEF ShutRest
  <1>3. QED
    BY <1>1, <1>2

(* Every step preserves the invariant.                                     *)
LEMMA ShutStep == LogTypeOK /\ AliveRest /\ ShutRest /\ [Next]_vars => ShutRest'
  <1> SUFFICES ASSUME LogTypeOK, AliveRest, ShutRest, [Next]_vars PROVE ShutRest'
    OBVIOUS
  <1>1. ASSUME UNCHANGED vars PROVE ShutRest'
    <2>1. PhaseInv' /\ OwnersKnown' /\ DrainInv'
      BY <1>1, PhaseFrame, Zenon DEF ShutRest, vars, threadVars, logVars, combinerVars, stopVars
    <2>2. LogQueueInv'
      BY <1>1, LogQueueFrame DEF ShutRest, vars, combinerVars, workerVars
    <2>3. QED
      BY <2>1, <2>2, Zenon DEF ShutRest
  <1>2. QED
    BY <1>1, ShutEnq, ShutLoop, ShutMerge, ShutSort, ShutReclaim, ShutForce, ShutCombiner,
       ShutWorker, Zenon DEF Next, Combiner, Finished

(* The invariant of the shutdown holds in every state: what a round of     *)
(* combineLogs drains stays drained, and a deleted log has been applied by *)
(* every worker.                                                           *)
THEOREM ShutdownInvariance == Spec => []ShutdownInv
  <1>1. Init => ShutdownInv
    BY InitAlive, InitShut, Zenon DEF ShutdownInv, ShutRest
  <1>2. ShutdownInv /\ [Next]_vars => ShutdownInv'
    BY AliveStep, ShutStep DEF ShutdownInv, ShutRest, AliveInv, AliveRest
  <1>3. QED
    BY <1>1, <1>2, PTL DEF Spec

(* When the combiner sets g_combinerStop, after at least two rounds of     *)
(* combineLogs and the forced deletion of every log, no operation is left  *)
(* in a log, no log in a queue, and every worker has applied all of them,  *)
(* even if pushes to full queues were dropped before: a worker that missed *)
(* a log keeps the combiner from ever stopping.                            *)
THEOREM NothingLeftAtStop == Spec => []StopMeansDrained
  <1>1. ShutdownInv => StopMeansDrained
    <2> SUFFICES ASSUME ShutdownInv, combinerStop PROVE StopMeansDrained!2
      BY DEF StopMeansDrained
    <2>1. phase = "done" /\ cpc = "loop" /\ logQueue = << >>
      BY Zenon DEF ShutdownInv, PhaseInv
    <2>2. Drained(0) /\ Drained(1)
      BY <2>1, Zenon DEF ShutdownInv, DrainInv
    <2>3. ASSUME NEW t \in Threads PROVE op_[t] = [q \in {0, 1} |-> << >>]
      <3>1. op_[t] \in [{0, 1} -> Seq(Op)]
        BY DEF ShutdownInv, AliveInv, LogTypeOK, QueueTypeOK
      <3>2. QED
        BY <2>2, <3>1 DEF Drained
    <2>4. ASSUME NEW w \in Workers
          PROVE  workQueue[w] = << >> /\ wpc[w] # "retire" /\ logDoneCount[w] = Len(logs)
      <3>1. /\ logDoneCount[w] \in Nat /\ workQueue[w] \in Seq(Nat) /\ Len(logs) \in Nat
            /\ Len(workQueue[w]) \in Nat
        BY LenProperties DEF ShutdownInv, AliveInv, LogTypeOK, CombinerTypeOK, WorkerTypeOK
      <3>2. Len(logQueue) = 0 /\ logDoneCount[w] >= Len(logs) - Len(logQueue)
        BY <2>1 DEF ShutdownInv, LogQueueInv
      <3>3. logDoneCount[w] + Len(workQueue[w]) <= Len(logs)
        BY <2>1 DEF ShutdownInv, AliveInv, BacklogBounded, Sent
      <3>4. logDoneCount[w] = Len(logs) /\ Len(workQueue[w]) = 0
        BY <3>1, <3>2, <3>3
      <3>5. workQueue[w] = << >>
        BY <3>1, <3>4, EmptySeq
      <3>6. wpc[w] # "retire"
        BY <3>4 DEF ShutdownInv, AliveInv, RetireHasLog
      <3>7. QED
        BY <3>4, <3>5, <3>6, Zenon
    <2>5. QED
      BY <2>1, <2>3, <2>4, Zenon
  <1>2. QED
    BY <1>1, ShutdownInvariance, PTL

-----------------------------------------------------------------------------
(***************************************************************************)
(* The steps that matter to the workers.                                   *)
(***************************************************************************)
Untouched ==
    /\ UNCHANGED <<logs, workQueue, logDoneCount, wpc, sl, freeQueue, freedNodes>>
    /\ \A w \in Workers : Sent(w)' = Sent(w)

(* Every other step leaves the logs, the queues and the workers alone.     *)
LEMMA WorkerSteps ==
  ASSUME LogTypeOK, [Next]_vars
  PROVE  \/ Untouched
         \/ CombinerSort /\ merged # << >>
         \/ CombinerBroadcast /\ cw < NumWorkers
         \/ \E w \in Workers : Worker(w)
  <1>1. ASSUME UNCHANGED <<logs, workQueue, workerVars>>,
               UNCHANGED <<cpc, cw>> \/ (cpc # "broadcast" /\ cpc' # "broadcast")
        PROVE  Untouched
    BY <1>1 DEF Untouched, Sent, workerVars
  <1>2. ASSUME UNCHANGED vars PROVE Untouched
    BY <1>1, <1>2 DEF vars, combinerVars
  <1>3. ASSUME NEW t \in Threads, Enq(t) \/ \E o \in Op : EnqCall(t, o) PROVE Untouched
    <2>1. UNCHANGED <<logs, workQueue, workerVars, cpc, cw>>
      BY <1>3, Zenon DEF Enq, EnqLoad, EnqTryLock, EnqPush, EnqCall, combinerVars
    <2>2. QED
      BY <1>1, <2>1
  <1>4. ASSUME Stop PROVE Untouched
    BY <1>1, <1>4 DEF Stop, combinerVars
  <1>5. ASSUME CombinerLoop \/ CombinerSeesStop \/ CombinerDrain \/ CombinerDrained
        PROVE  Untouched
    <2>1. UNCHANGED <<logs, workQueue, workerVars>> /\ cpc # "broadcast" /\ cpc' # "broadcast"
      BY <1>5 DEF CombinerLoop, CombinerSeesStop, CombinerDrain, CombinerDrained, StartCombine
    <2>2. QED
      BY <1>1, <2>1, ZenonT(60)
  <1>6. ASSUME NEW t \in Threads, CombinerLock(t) \/ CombinerCopy(t) PROVE Untouched
    <2>1. UNCHANGED <<logs, workQueue, workerVars>> /\ cpc # "broadcast" /\ cpc' # "broadcast"
      BY <1>6, Zenon DEF CombinerLock, CombinerCopy
    <2>2. QED
      BY <1>1, <2>1, Zenon
  <1>7. ASSUME CombinerSort, merged = << >> PROVE Untouched
    <2>1. UNCHANGED <<logs, workQueue, workerVars>> /\ cpc # "broadcast" /\ cpc' # "broadcast"
      BY <1>7 DEF CombinerSort
    <2>2. QED
      BY <1>1, <2>1
  <1>8. ASSUME CombinerBroadcast, ~(cw < NumWorkers) PROVE Untouched
    <2>1. UNCHANGED <<logs, workQueue, workerVars>> /\ cpc' # "broadcast"
      BY <1>8 DEF CombinerBroadcast
    <2>2. \A w \in Workers : ~(cw <= w)
      BY <1>8, WorkerAssumption DEF LogTypeOK, CombinerTypeOK, Workers
    <2>3. QED
      BY <2>1, <2>2 DEF Untouched, Sent, workerVars
  <1>9. ASSUME FreeTest \/ ForceTest \/ ScanDoneCount \/ Reclaim PROVE Untouched
    <2>1. UNCHANGED <<logs, workQueue, workerVars>> /\ cpc # "broadcast" /\ cpc' # "broadcast"
      BY <1>9, Zenon DEF FreeTest, ForceTest, ScanDoneCount, Reclaim
    <2>2. QED
      BY <1>1, <2>1
  <1>10. QED
    BY <1>2, <1>3, <1>4, <1>5, <1>6, <1>7, <1>8, <1>9, ZenonT(60) DEF Next, Combiner, Finished

(* What a log just numbered changes: nobody has been sent it yet.          *)
LEMMA SortMoves ==
  ASSUME LogTypeOK, CombinerSort, merged # << >>
  PROVE  /\ logs' \in Seq(Seq(Op)) /\ Len(logs') = Len(logs) + 1
         /\ \A n \in 1 .. Len(logs) : logs'[n] = logs[n]
         /\ UNCHANGED <<workQueue, workerVars>>
         /\ \A w \in Workers : Sent(w)' = Sent(w)
  <1>1. PICK s \in Orders(merged) : logs' = Append(logs, s)
    BY Zenon DEF CombinerSort
  <1>2. cpc = "merge" /\ cpc' = "broadcast" /\ cw' = 0 /\ UNCHANGED <<workQueue, workerVars>>
    BY DEF CombinerSort
  <1>3. logs \in Seq(Seq(Op)) /\ s \in Seq(Op)
    BY <1>1, OrdersType, Zenon DEF LogTypeOK, CombinerTypeOK
  <1>4. /\ logs' \in Seq(Seq(Op)) /\ Len(logs') = Len(logs) + 1
        /\ \A n \in 1 .. Len(logs) : logs'[n] = logs[n]
    BY <1>1, <1>3, AppendProperties
  <1>5. \A w \in Workers : 0 <= w
    BY WorkerAssumption DEF Workers
  <1>6. \A w \in Workers : Sent(w)' = Sent(w)
    BY <1>2, <1>3, <1>4, <1>5, LenProperties DEF Sent
  <1>7. QED
    BY <1>2, <1>4, <1>6, Zenon

(* What one push of broadcastMergedLog changes.                            *)
LEMMA PushMoves ==
  ASSUME LogTypeOK, CombinerBroadcast, cw < NumWorkers, NEW c, c = cw
  PROVE  /\ c \in Workers /\ UNCHANGED <<logs, workerVars>>
         /\ Sent(c) = Len(logs) - 1 /\ Sent(c)' = Len(logs)
         /\ \A w \in Workers : w # c => Sent(w)' = Sent(w) /\ workQueue'[w] = workQueue[w]
         /\ workQueue'[c] = IF Len(workQueue[c]) < QueueCapacity
                             THEN Append(workQueue[c], Len(logs) - 1) ELSE workQueue[c]
  <1>1. c \in Workers
    BY WorkerAssumption DEF LogTypeOK, CombinerTypeOK, Workers
  <1>2. /\ cpc = "broadcast" /\ cpc' = "broadcast" /\ cw' = c + 1
        /\ UNCHANGED <<logs, workerVars>>
        /\ workQueue' = IF Len(workQueue[c]) < QueueCapacity
                          THEN [workQueue EXCEPT ![c] = Append(@, Len(logs) - 1)]
                          ELSE workQueue
    BY DEF CombinerBroadcast
  <1>3. workQueue \in [Workers -> Seq(Nat)]
    BY DEF LogTypeOK, WorkerTypeOK
  <1>4. c <= c /\ ~(c + 1 <= c) /\ \A w \in Workers : w # c => (c + 1 <= w <=> c <= w)
    BY <1>1, WorkerAssumption DEF Workers
  <1>5. Sent(c) = Len(logs) - 1 /\ Sent(c)' = Len(logs)
    BY <1>2, <1>4, Zenon DEF Sent
  <1>6. \A w \in Workers : w # c => Sent(w)' = Sent(w)
    BY <1>2, <1>4, Zenon DEF Sent
  <1>7. QED
    BY <1>1, <1>2, <1>3, <1>5, <1>6, Zenon

-----------------------------------------------------------------------------
(***************************************************************************)
(* The backlog.  Received(w) says that no push to worker w has been        *)
(* dropped: what it has retired and what it has queued add up to what it   *)
(* was sent.  A push dropped at a full queue makes the sum fall short for  *)
(* good.                                                                   *)
(***************************************************************************)
Received(w) == logDoneCount[w] + Len(workQueue[w]) = Sent(w)

BacklogInv ==
    \A w \in Workers : Received(w) =>
        \A i \in 1 .. Len(workQueue[w]) : workQueue[w][i] = logDoneCount[w] + i - 1

(* No push of broadcastMergedLog finds the queue full.                     *)
NeverFull == cpc = "broadcast" /\ cw < NumWorkers => Len(workQueue[cw]) < QueueCapacity

(* Retire takes the front log off the queue and counts it.                 *)
LEMMA RetireMoves ==
  ASSUME LogTypeOK, RetireHasLog, NEW w \in Workers, Retire(w)
  PROVE  /\ UNCHANGED <<logs, sl, freeQueue, freedNodes>>
         /\ \A v \in Workers : Sent(v)' = Sent(v)
         /\ wpc[w] = "retire" /\ wpc'[w] = "run"
         /\ logDoneCount'[w] = logDoneCount[w] + 1
         /\ Len(workQueue[w]) \in Nat /\ Len(workQueue'[w]) = Len(workQueue[w]) - 1
         /\ Len(workQueue[w]) > 0
         /\ \A i \in 1 .. Len(workQueue'[w]) : workQueue'[w][i] = workQueue[w][i + 1]
         /\ \A v \in Workers : v # w => /\ wpc'[v] = wpc[v]
                                        /\ logDoneCount'[v] = logDoneCount[v]
                                        /\ workQueue'[v] = workQueue[v]
  <1>0. /\ workQueue \in [Workers -> Seq(Nat)] /\ logDoneCount \in [Workers -> Nat]
        /\ wpc \in [Workers -> {"run", "retire", "exit"}]
    BY DEF LogTypeOK, WorkerTypeOK
  <1>1. /\ workQueue' = [workQueue EXCEPT ![w] = Tail(@)]
        /\ logDoneCount' = [logDoneCount EXCEPT ![w] = @ + 1]
        /\ wpc' = [wpc EXCEPT ![w] = "run"] /\ wpc[w] = "retire"
        /\ UNCHANGED <<combinerVars, sl, freeQueue, freedNodes>>
    BY DEF Retire
  <1>2. workQueue[w] \in Seq(Nat) /\ workQueue[w] # << >> /\ Len(workQueue[w]) > 0
    BY <1>0, <1>1 DEF RetireHasLog
  <1>3. /\ Len(workQueue[w]) \in Nat /\ Len(Tail(workQueue[w])) = Len(workQueue[w]) - 1
        /\ \A i \in 1 .. Len(Tail(workQueue[w])) : Tail(workQueue[w])[i] = workQueue[w][i + 1]
    BY <1>2, HeadTailProperties, LenProperties, Zenon
  <1>4. workQueue'[w] = Tail(workQueue[w])
    BY <1>0, <1>1, Zenon
  <1>5. \A v \in Workers : Sent(v)' = Sent(v)
    BY <1>1, Zenon DEF Sent, combinerVars
  <1>6. logs' = logs
    BY <1>1, Zenon DEF combinerVars
  <1>7. QED
    BY <1>0, <1>1, <1>2, <1>3, <1>4, <1>5, <1>6, Zenon

(* Apply and WorkerExit leave the queues and the counts alone.             *)
LEMMA ApplyMoves ==
  ASSUME LogTypeOK, NEW w \in Workers, Apply(w) \/ WorkerExit(w)
  PROVE  /\ UNCHANGED <<logs, workQueue, logDoneCount>>
         /\ \A v \in Workers : Sent(v)' = Sent(v)
         /\ \A v \in Workers : v # w => wpc'[v] = wpc[v]
  <1>1. UNCHANGED <<combinerVars, workQueue, logDoneCount>>
    BY ZenonT(60) DEF Apply, WorkerExit
  <1>2. wpc' = [wpc EXCEPT ![w] = "retire"] \/ wpc' = [wpc EXCEPT ![w] = "exit"]
    BY DEF Apply, WorkerExit
  <1>3. wpc \in [Workers -> {"run", "retire", "exit"}]
    BY DEF LogTypeOK, WorkerTypeOK
  <1>4. QED
    BY <1>1, <1>2, <1>3, Zenon DEF Sent, combinerVars

(* What has been received in full after a step had been before it, and     *)
(* stays so unless a push is dropped.                                      *)
LEMMA ReceivedStep ==
  ASSUME LogTypeOK, AliveRest, [Next]_vars, NEW v \in Workers
  PROVE  /\ Received(v)' => Received(v)
         /\ NeverFull /\ Received(v) => Received(v)'
  <1>0. /\ workQueue[v] \in Seq(Nat) /\ logDoneCount[v] \in Nat /\ Len(logs) \in Nat
        /\ Len(workQueue[v]) \in Nat
    BY LenProperties, Zenon DEF LogTypeOK, WorkerTypeOK, CombinerTypeOK
  <1>1. CASE Untouched
    BY <1>1, Zenon DEF Untouched, Received
  <1>2. CASE CombinerSort /\ merged # << >>
    BY <1>2, SortMoves DEF Received, workerVars
  <1>3. CASE CombinerBroadcast /\ cw < NumWorkers
    <2>1. PICK c : c = cw
      BY Zenon
    <2>2. /\ c \in Workers /\ UNCHANGED <<logs, workerVars>>
          /\ Sent(c) = Len(logs) - 1 /\ Sent(c)' = Len(logs)
          /\ \A w \in Workers : w # c => Sent(w)' = Sent(w) /\ workQueue'[w] = workQueue[w]
          /\ workQueue'[c] = IF Len(workQueue[c]) < QueueCapacity
                              THEN Append(workQueue[c], Len(logs) - 1) ELSE workQueue[c]
      BY <1>3, <2>1, PushMoves, Zenon
    <2>3. logDoneCount' = logDoneCount
      BY <2>2, Zenon DEF workerVars
    <2>4. CASE v # c
      BY <2>2, <2>3, <2>4, ZenonT(60) DEF Received
    <2>5. CASE v = c
      <3>0. cpc = "broadcast" /\ Len(logs) > 0
        BY <1>3, ZenonT(60) DEF CombinerBroadcast, AliveRest, BroadcastIsQueued
      <3>1. cpc = "broadcast" /\ Len(logs) - 1 \in Nat
        BY <1>0, <3>0
      <3>2. NeverFull => Len(workQueue[v]) < QueueCapacity
        BY <1>3, <2>1, <2>5, <3>1, ZenonT(60) DEF NeverFull
      <3>3. Len(workQueue[v]) < QueueCapacity => Len(workQueue'[v]) = Len(workQueue[v]) + 1
        BY <1>0, <2>2, <2>5, <3>1, AppendProperties
      <3>4. ~(Len(workQueue[v]) < QueueCapacity) => workQueue'[v] = workQueue[v]
        BY <2>2, <2>5, Zenon
      <3>5. logDoneCount[v] + Len(workQueue[v]) <= Len(logs) - 1
        BY <2>2, <2>5, Zenon DEF AliveRest, BacklogBounded
      <3>6. Received(v) <=> logDoneCount[v] + Len(workQueue[v]) = Len(logs) - 1
        BY <2>2, <2>5, Zenon DEF Received
      <3>7. Received(v)' <=> logDoneCount[v] + Len(workQueue'[v]) = Len(logs)
        BY <2>2, <2>3, <2>5, Zenon DEF Received
      <3>8. QED
        BY <1>0, <3>2, <3>3, <3>4, <3>5, <3>6, <3>7
    <2>6. QED
      BY <2>4, <2>5
  <1>4. ASSUME NEW w \in Workers, Worker(w)
        PROVE  Received(v)' <=> Received(v)
    <2>1. CASE Retire(w)
      <3>1. /\ Sent(v)' = Sent(v) /\ logDoneCount'[w] = logDoneCount[w] + 1
            /\ Len(workQueue[w]) \in Nat /\ Len(workQueue'[w]) = Len(workQueue[w]) - 1
            /\ v # w => logDoneCount'[v] = logDoneCount[v] /\ workQueue'[v] = workQueue[v]
        BY <2>1, RetireMoves, Zenon DEF AliveRest
      <3>2. logDoneCount'[v] + Len(workQueue'[v]) = logDoneCount[v] + Len(workQueue[v])
        <4>1. CASE v = w
          <5>1. \A d, n \in Nat : (d + 1) + (n - 1) = d + n
            OBVIOUS
          <5>2. QED
            BY <1>0, <3>1, <4>1, <5>1, ZenonT(60)
        <4>2. CASE v # w
          BY <3>1, <4>2
        <4>3. QED
          BY <4>1, <4>2
      <3>3. QED
        BY <3>1, <3>2, Zenon DEF Received
    <2>2. CASE Apply(w) \/ WorkerExit(w)
      BY <2>2, ApplyMoves, Zenon DEF Received
    <2>3. QED
      BY <1>4, <2>1, <2>2, Zenon DEF Worker
  <1>5. QED
    BY <1>1, <1>2, <1>3, <1>4, WorkerSteps, Zenon

(* Every step preserves the order and the numbers of the backlog.          *)
LEMMA BacklogStep ==
  ASSUME LogTypeOK, AliveRest, BacklogInv, [Next]_vars
  PROVE  BacklogInv'
  <1> SUFFICES ASSUME NEW v \in Workers, Received(v)', NEW i \in 1 .. Len(workQueue'[v])
               PROVE  workQueue'[v][i] = logDoneCount'[v] + i - 1
    BY Zenon DEF BacklogInv
  <1>0. /\ workQueue[v] \in Seq(Nat) /\ logDoneCount[v] \in Nat /\ Len(logs) \in Nat
        /\ Len(workQueue[v]) \in Nat
    BY LenProperties, Zenon DEF LogTypeOK, WorkerTypeOK, CombinerTypeOK
  <1>1. /\ Received(v)
        /\ \A j \in 1 .. Len(workQueue[v]) : workQueue[v][j] = logDoneCount[v] + j - 1
    BY ReceivedStep, ZenonT(60) DEF BacklogInv
  <1>2. CASE UNCHANGED <<workQueue, logDoneCount>>
    BY <1>1, <1>2
  <1>3. CASE CombinerBroadcast /\ cw < NumWorkers
    <2>1. PICK c : c = cw
      BY Zenon
    <2>2. /\ UNCHANGED workerVars /\ Sent(c) = Len(logs) - 1
          /\ \A w \in Workers : w # c => workQueue'[w] = workQueue[w]
          /\ workQueue'[c] = IF Len(workQueue[c]) < QueueCapacity
                              THEN Append(workQueue[c], Len(logs) - 1) ELSE workQueue[c]
      BY <1>3, <2>1, PushMoves, ZenonT(60)
    <2>3. logDoneCount' = logDoneCount
      BY <2>2, Zenon DEF workerVars
    <2>4. CASE workQueue'[v] = workQueue[v]
      BY <1>1, <2>3, <2>4, ZenonT(60)
    <2>5. CASE v = c /\ workQueue'[v] = Append(workQueue[v], Len(logs) - 1)
      <3>0. Len(logs) > 0
        BY <1>3, ZenonT(60) DEF CombinerBroadcast, AliveRest, BroadcastIsQueued
      <3>1. Len(logs) - 1 \in Nat
        BY <1>0, <3>0
      <3>2. /\ Len(workQueue'[v]) = Len(workQueue[v]) + 1
            /\ \A j \in 1 .. Len(workQueue[v]) : workQueue'[v][j] = workQueue[v][j]
            /\ workQueue'[v][Len(workQueue[v]) + 1] = Len(logs) - 1
        BY <1>0, <2>5, <3>1, AppendProperties
      <3>3. logDoneCount[v] + Len(workQueue[v]) = Len(logs) - 1
        BY <1>1, <2>2, <2>5, Zenon DEF Received
      <3>4. CASE i \in 1 .. Len(workQueue[v])
        BY <1>1, <2>3, <3>2, <3>4, Zenon
      <3>5. logDoneCount[v] \in Nat /\ Len(workQueue[v]) \in Nat
        BY <1>0, LenProperties, Zenon
      <3>6. CASE i = Len(workQueue[v]) + 1
        <4>1. Len(logs) - 1 = logDoneCount[v] + i - 1
          BY <3>3, <3>5, <3>6
        <4>2. QED
          BY <2>3, <3>2, <3>6, <4>1, Zenon
      <3>7. i \in 1 .. Len(workQueue[v]) \/ i = Len(workQueue[v]) + 1
        BY <3>2, <3>5
      <3>8. QED
        BY <3>4, <3>6, <3>7, Zenon
    <2>6. QED
      BY <2>2, <2>4, <2>5, ZenonT(60)
  <1>4. ASSUME NEW w \in Workers, Retire(w) PROVE workQueue'[v][i] = logDoneCount'[v] + i - 1
    <2>1. /\ logDoneCount'[w] = logDoneCount[w] + 1
          /\ Len(workQueue[w]) \in Nat /\ Len(workQueue'[w]) = Len(workQueue[w]) - 1
          /\ \A j \in 1 .. Len(workQueue'[w]) : workQueue'[w][j] = workQueue[w][j + 1]
          /\ v # w => logDoneCount'[v] = logDoneCount[v] /\ workQueue'[v] = workQueue[v]
      BY <1>4, RetireMoves, Zenon DEF AliveRest
    <2>2. CASE v = w
      <3>0. /\ Len(workQueue[v]) \in Nat /\ Len(workQueue'[v]) = Len(workQueue[v]) - 1
            /\ \A j \in 1 .. Len(workQueue'[v]) : workQueue'[v][j] = workQueue[v][j + 1]
        BY <2>1, <2>2, ZenonT(60)
      <3>1. i + 1 \in 1 .. Len(workQueue[v]) /\ workQueue'[v][i] = workQueue[v][i + 1]
        BY <3>0
      <3>2. workQueue[v][i + 1] = logDoneCount[v] + (i + 1) - 1
        BY <1>1, <3>1, ZenonT(60)
      <3>3. logDoneCount'[v] = logDoneCount[v] + 1 /\ i \in Int /\ logDoneCount[v] \in Int
        BY <1>0, <2>1, <2>2
      <3>4. logDoneCount[v] + (i + 1) - 1 = (logDoneCount[v] + 1) + i - 1
        BY <3>3
      <3>5. QED
        BY <3>1, <3>2, <3>3, <3>4, Zenon
    <2>3. CASE v # w
      BY <1>1, <2>1, <2>3, Zenon
    <2>4. QED
      BY <2>2, <2>3
  <1>5. QED
    <2>1. Untouched => UNCHANGED <<workQueue, logDoneCount>>
      BY Zenon DEF Untouched
    <2>2. CombinerSort /\ merged # << >> => UNCHANGED <<workQueue, logDoneCount>>
      BY SortMoves, Zenon DEF workerVars
    <2>3. \A w \in Workers : Apply(w) \/ WorkerExit(w) => UNCHANGED <<workQueue, logDoneCount>>
      BY ApplyMoves, Zenon
    <2>4. QED
      BY <1>2, <1>3, <1>4, <2>1, <2>2, <2>3, WorkerSteps, ZenonT(60) DEF Worker

AllReceived == \A w \in Workers : Received(w)

(* Nothing has been sent.                                                  *)
LEMMA InitBacklog == Init => BacklogInv /\ AllReceived
  <1> SUFFICES ASSUME Init PROVE BacklogInv /\ AllReceived
    BY Zenon
  <1>1. /\ logs = << >> /\ workQueue = [w \in Workers |-> << >>] /\ cpc = "loop"
        /\ logDoneCount = [w \in Workers |-> 0]
    BY DEF Init
  <1>2. QED
    BY <1>1 DEF BacklogInv, AllReceived, Received, Sent

(* The invariant of the backlog holds in every state.                      *)
THEOREM BacklogInvariance == Spec => []BacklogInv
  <1>1. AliveInv /\ BacklogInv /\ [Next]_vars => BacklogInv'
    BY BacklogStep DEF AliveInv, AliveRest
  <1>2. QED
    BY <1>1, InitBacklog, AliveInvariance, PTL DEF Spec

(* With no push dropped, everything sent is received.                      *)
LEMMA ReceivedInvariance == Spec /\ []NeverFull => []AllReceived
  <1>1. AliveInv /\ NeverFull /\ AllReceived /\ [Next]_vars => AllReceived'
    <2> SUFFICES ASSUME AliveInv, NeverFull, AllReceived, [Next]_vars PROVE AllReceived'
      OBVIOUS
    <2>1. LogTypeOK /\ AliveRest
      BY DEF AliveInv, AliveRest
    <2>2. \A w \in Workers : Received(w)'
      BY <2>1, ReceivedStep DEF AllReceived
    <2>3. QED
      BY <2>2 DEF AllReceived
  <1>2. QED
    BY <1>1, InitBacklog, AliveInvariance, PTL DEF Spec

(* While no queue is full when broadcastMergedLog pushes to it, a worker's *)
(* queue holds exactly the logs sent and not yet retired, in order.        *)
THEOREM BacklogInOrder == Spec /\ []NeverFull => []QueueIsBacklog
  <1>1. LogTypeOK /\ BacklogInv /\ AllReceived => QueueIsBacklog
    <2> SUFFICES ASSUME LogTypeOK, BacklogInv, AllReceived, NEW w \in Workers
                 PROVE  workQueue[w] = [i \in 1 .. Sent(w) - logDoneCount[w]
                                           |-> logDoneCount[w] + i - 1]
      BY DEF QueueIsBacklog
    <2>1. /\ workQueue[w] \in Seq(Nat) /\ Len(workQueue[w]) \in Nat
          /\ logDoneCount[w] \in Nat /\ DOMAIN workQueue[w] = 1 .. Len(workQueue[w])
      BY LenProperties DEF LogTypeOK, WorkerTypeOK
    <2>2. logDoneCount[w] + Len(workQueue[w]) = Sent(w)
      BY Zenon DEF AllReceived, Received
    <2>3. Sent(w) - logDoneCount[w] = Len(workQueue[w])
      BY <2>1, <2>2
    <2>4. \A i \in 1 .. Len(workQueue[w]) : workQueue[w][i] = logDoneCount[w] + i - 1
      BY DEF AllReceived, BacklogInv
    <2>5. workQueue[w] = [i \in 1 .. Len(workQueue[w]) |-> workQueue[w][i]]
      BY <2>1
    <2>6. QED
      BY <2>3, <2>4, <2>5, Zenon
  <1>2. QED
    BY <1>1, LogTypeCorrect, BacklogInvariance, ReceivedInvariance, PTL
=============================================================================
