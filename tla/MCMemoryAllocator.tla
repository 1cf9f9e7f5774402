------------------------- MODULE MCMemoryAllocator -------------------------
(***************************************************************************)
(* MemoryAllocator on a small instance; threads and chunks are             *)
(* interchangeable.                                                        *)
(***************************************************************************)
EXTENDS MemoryAllocator, TLC

Symmetry == Permutations(Threads) \cup Permutations(Chunks)
=============================================================================
