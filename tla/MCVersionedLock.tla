-------------------------- MODULE MCVersionedLock --------------------------
EXTENDS VersionedLock, TLC

CONSTANTS t1, t2, t3

Symmetry == Permutations(Threads)
=============================================================================
