---------------------- MODULE MCProjectionPublication ----------------------
(* Model checking of ProjectionPublication on small instances.             *)
EXTENDS PublicationInvariant, TLC

(* Generation ids carry no order, and no cfg that uses this set checks     *)
(* liveness.                                                               *)
GenerationSymmetry == Permutations(Generations)
=============================================================================
