----------------------------- MODULE MCListNode -----------------------------
(* An instance of ListNode: five keys, enough to fill, split and merge     *)
(* nodes of four slots; a node that is fresh or full, its keys out of      *)
(* order; neighbours of up to three entries, more than may find a slot;    *)
(* keys that share a fingerprint.                                          *)
EXTENDS ListNode, TLC

CONSTANTS r1, r2, none

P(k, v) == [key |-> k, val |-> v]

MCPairs == {P(0, "a"), P(1, "b"), P(2, "c"), P(3, "d"), P(4, "e"), P(1, "f")}

MCFillings == {<<P(0, "a")>>, <<P(0, "a"), P(3, "d"), P(1, "b"), P(2, "c")>>}

MCBatches == {s \in UNION {[1 .. n -> {P(2, "c"), P(3, "d"), P(4, "e")}] : n \in 0 .. 3} :
                \A i, j \in DOMAIN s : s[i].key = s[j].key => i = j}

HashOf == [k \in Keys |-> k % 2]

ReaderSymmetry == Permutations(Readers)
=============================================================================
