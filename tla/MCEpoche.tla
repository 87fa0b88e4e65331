------------------------------ MODULE MCEpoche ------------------------------
(* An instance of Epoche.                                                  *)
EXTENDS Epoche, TLC

Symmetry == Permutations(Threads) \cup Permutations(Nodes)
=============================================================================
