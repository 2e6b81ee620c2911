------------------------- MODULE MCIntrusiveQueues -------------------------
(* Instances of IntrusiveQueues for TLC.                                    *)
EXTENDS IntrusiveQueues

Symmetry == Permutations(Producers) \cup Permutations(Ops)
=============================================================================
