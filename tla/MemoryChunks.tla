---------------------------- MODULE MemoryChunks ----------------------------
(***************************************************************************)
(* The memory chunks of the message queues (cocos/base/threading/          *)
(* MessageQueue.h): what the allocator hands out and queues give back.     *)
(***************************************************************************)
CONSTANTS
  Chunks,    \* chunks the C heap can ever provide
  NoChunk    \* a null chunk pointer

ASSUME ChunkAssumption == NoChunk \notin Chunks
=============================================================================
