----------------------------- MODULE MCBTreeOLC -----------------------------
(* An instance of BTreeOLC with two loads: a full root above full leaves,  *)
(* so that an insert splits the root and a leaf, and a lone full leaf that *)
(* becomes a tree.                                                         *)
EXTENDS BTreeOLC, TLC

MCLoads == {[setup |-> <<1, 2, 3, 5, 7, 8>>, left |-> 2, new |-> {6, 8}, asked |-> {7, 8}],
            [setup |-> <<2, 4>>, left |-> 3, new |-> {3, 5}, asked |-> {4}]}

Symmetry == Permutations(Writers)
=============================================================================
