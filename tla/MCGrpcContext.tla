--------------------------- MODULE MCGrpcContext ---------------------------
(* Instances of GrpcContext for TLC.                                        *)
EXTENDS GrpcContext

(* The remote threads and the addresses of operations are interchangeable.  *)
(* Only used where no liveness is checked.                                  *)
Symmetry == Permutations(Threads \ {Main}) \cup Permutations(Ops)
=============================================================================
