---------------------------- MODULE MCChunkStash ----------------------------
(***************************************************************************)
(* ChunkStash on small instances.                                          *)
(***************************************************************************)
EXTENDS ChunkStash, TLC

CONSTANTS c1, c2

(* One command buffer at a time: what the pipelines of the engine pass.    *)
SingleFlushes == {<<c1>>, <<c2>>}

(* Several: what flushCommands accepts and its job graph is there for.     *)
SeveralFlushes == {<<c1, c2>>}

(* Chunks are interchangeable.                                             *)
ChunkSymmetry == Permutations(Chunks)
=============================================================================
