------------------------ MODULE MCGenerationReaders ------------------------
(* Model checking of GenerationReaders on small instances.                 *)
EXTENDS GenerationReaders, TLC

GenerationSymmetry == Permutations(Generations)
=============================================================================
