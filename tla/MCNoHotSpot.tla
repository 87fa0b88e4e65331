---------------------------- MODULE MCNoHotSpot ----------------------------
(* An instance of NoHotSpot with three loads: two workers on a short list; *)
(* one on a list long enough for a second level of the index; one that     *)
(* empties a list, so that the index is lowered under one more operation.  *)
EXTENDS NoHotSpot, TLC

Race  == [preload |-> <<1>>, keys |-> {0, 1, 2}, left |-> 3, width |-> 2]
Tall  == [preload |-> <<1, 2, 3, 4, 5, 6, 7>>, keys |-> {4}, left |-> 2, width |-> 1]
Empty == [preload |-> <<1, 2, 3>>, keys |-> {1, 2, 3}, left |-> 4, width |-> 1]

MCLoads == {Race, Tall, Empty}

Symmetry == Permutations(Workers)
=============================================================================
