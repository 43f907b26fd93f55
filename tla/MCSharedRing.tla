---------------------------- MODULE MCSharedRing ----------------------------
(* Two instances, one of three lines and one of one, over rings of two slots. *)
EXTENDS SharedRing
CONSTANTS i1, i2, a, b, c
MCInstances == {i1, i2}
MCLines == {a, b, c}
MCCapacity == 2
MCInput == [i \in MCInstances |-> IF i = i1 THEN <<a, b, c>> ELSE <<c>>]
=============================================================================
