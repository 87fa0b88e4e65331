--------------------------- MODULE MCReplication ---------------------------
(* Instances of Replication for TLC.                                       *)
EXTENDS Replication, TLC

CONSTANTS n1, n2, t1, t2

(* Two nodes with different minima, and two nodes made one after the other *)
(* at the same minimum.                                                    *)
TwoKeys == {1, 2}
OneKey == {1}
DistinctMins == (n1 :> 1) @@ (n2 :> 2)
SameMin == (n1 :> 1) @@ (n2 :> 1)
OneMin == n1 :> 1

ThreadSymmetry == Permutations({t1, t2})
=============================================================================
