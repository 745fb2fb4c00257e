---------------------------- MODULE MCMemoryWrite ----------------------------
(* Model checking of MemoryWrite on small instances.                       *)
EXTENDS MemoryWrite, TLC

WriteSymmetry == Permutations(Servers) \cup Permutations(Threads) \cup Permutations(Vaults) \cup Permutations(Names)
=============================================================================
