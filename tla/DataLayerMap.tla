---------------------------- MODULE DataLayerMap ---------------------------
(***************************************************************************)
(* The map a list of DataLayer stands for, and the operations on the list  *)
(* as operations on that map.                                              *)
(***************************************************************************)
EXTENDS DataLayer

(* The nodes that hold an entry with this key.                             *)
Homes(k) == {n \in 1 .. nalloc : node[n].entries[k] # NoVal}

LayoutMap(L) ==
    [k \in Keys |-> LET H == {i \in DOMAIN L : L[i].entries[k] # NoVal} IN
                    IF H = {} THEN NoVal ELSE L[CHOOSE i \in H : TRUE].entries[k]]

InitMaps == {LayoutMap(s.layout) : s \in Scenarios}

(* The map the list stands for, and how far a thread's call is.            *)
Contents == [k \in Keys |->
               IF Homes(k) = {} THEN NoVal
               ELSE node[CHOOSE n \in Homes(k) : TRUE].entries[k]]

Stage == [t \in Threads |-> IF pc[t] = "idle" THEN "idle"
                            ELSE IF res[t] = "pending" THEN "called" ELSE "done"]

Dict == INSTANCE Dictionary WITH map <- Contents, stage <- Stage

(* insert, update, remove and lookup are linearizable: the list behaves as *)
(* a map on which every call takes effect in one step.                     *)
Linearizable == Dict!Spec
=============================================================================
