---------------------------- MODULE MCRowexTree ----------------------------
(* An instance of RowexTree with two loads: deep paths whose prefixes, of  *)
(* which one byte is stored, are cut and joined, and a wide node that      *)
(* grows, is compacted and shrinks.                                        *)
EXTENDS RowexTree

MCCapacity == <<3, 4, 5, 5>>
MCCompactMax == <<2, 2, 4, 5>>
MCShrinkAt == <<0, 3, 4, 6>>

MCKeys == << <<1,1,1,1,0>>, <<1,1,1,1,2>>, <<1,1,1,0,1>>, <<1,1,0,2,1>>, <<1,0,0,0,0>>, <<2,0,0,0,0>>,
             <<1,1,1,0,0>>, <<1,1,1,1,0>>, <<1,1,1,3,0>>, <<1,1,1,4,0>>, <<1,1,1,3,0>> >>

Deep == [setup |-> <<1, 2, 6>>, left |-> 4, tids |-> 1 .. 6,
         probes |-> { <<1,1,1,1,1>>, <<1,1,1,2,0>>, <<1,1,1,1,2>>, <<1,1,0,1,1>>, <<1,0,1,1,1>> }]

Wide == [setup |-> <<9, 10, 6>>, left |-> 4, tids |-> 6 .. 11,
         probes |-> { <<1,1,1,2,0>>, <<1,1,2,0,0>>, <<1,1,1,4,0>> }]

MCLoads == {Deep, Wide}
=============================================================================
