-------------------------- MODULE MemoryAllocator --------------------------
(***************************************************************************)
(* MessageQueue::MemoryAllocator (cocos/base/threading/MessageQueue.cpp):  *)
(* the chunks of all message queues.  A chunk that was recycled waits in   *)
(* _chunkFreeQueue until a FreeChunksInFreeQueue message is executed; it   *)
(* then goes to _chunkPool or, when _chunkCount says that the pool is      *)
(* full, back to the C heap.                                               *)
(*                                                                         *)
(* The counter and the two concurrent queues are changed one after the     *)
(* other and without a lock, by the threads that fill and execute message  *)
(* queues.                                                                 *)
(***************************************************************************)
EXTENDS Integers, FiniteSets, MemoryChunks

CONSTANTS
  Threads,     \* threads that use message queues
  MEMORY_CHUNK_POOL_CAPACITY,
  W            \* _chunkCount is unsigned and wraps at W (2^32)

ASSUME ThreadAssumption == IsFiniteSet(Threads) /\ Threads # {}
ASSUME CapacityAssumption ==
  /\ MEMORY_CHUNK_POOL_CAPACITY \in Nat /\ W \in Nat
  /\ W > MEMORY_CHUNK_POOL_CAPACITY + 2 * Cardinality(Threads)

VARIABLES
  chunkCount,    \* _chunkCount
  chunkPool,     \* _chunkPool
  freeQueue,     \* _chunkFreeQueue
  inUse,         \* chunks of message queues
  pc, mine       \* where a thread is, and the chunk in its hands

poolVars == <<chunkCount, chunkPool, freeQueue, inUse, pc, mine>>

(* The C heap has every other chunk.                                       *)
InHand == {mine[t] : t \in {u \in Threads : pc[u] \in {"free", "enqueue"}}}
Heap == Chunks \ (chunkPool \cup freeQueue \cup inUse \cup InHand)

PoolInit ==
  /\ chunkCount = 0
  /\ chunkPool = {} /\ freeQueue = {} /\ inUse = {}
  /\ pc = [t \in Threads |-> "idle"]
  /\ mine = [t \in Threads |-> NoChunk]

Goto(t, l) == pc' = [pc EXCEPT ![t] = l]

-----------------------------------------------------------------------------
(* request: a chunk of the pool, which is counted off after it was taken,  *)
(* and not left for others; the counter is unsigned, which the faulty form *)
(* of counting ignores.                                                    *)
RequestShared(t) ==
  /\ pc[t] = "idle"
  /\ \E c \in chunkPool : inUse' = inUse \cup {c}
  /\ Goto(t, "sub")
  /\ UNCHANGED <<chunkCount, chunkPool, freeQueue, mine>>

RequestPooled(t) ==
  /\ pc[t] = "idle"
  /\ \E c \in chunkPool : /\ chunkPool' = chunkPool \ {c}
                          /\ inUse' = inUse \cup {c}
  /\ Goto(t, "sub")
  /\ UNCHANGED <<chunkCount, freeQueue, mine>>

RequestCounted(t) ==
  /\ pc[t] = "sub"
  /\ chunkCount' = (chunkCount - 1) % W
  /\ Goto(t, "idle")
  /\ UNCHANGED <<chunkPool, freeQueue, inUse, mine>>

(* or one of the heap.  try_dequeue may fail while the pool is being used  *)
(* by others, even when it is not empty.                                   *)
RequestAllocated(t) ==
  /\ pc[t] = "idle"
  /\ \E c \in Heap : inUse' = inUse \cup {c}
  /\ UNCHANGED <<chunkCount, chunkPool, freeQueue, pc, mine>>

(* recycle, _freeChunksByUser being true                                   *)
Recycle(t) ==
  /\ pc[t] = "idle"
  /\ \E c \in inUse : /\ inUse' = inUse \ {c}
                      /\ freeQueue' = freeQueue \cup {c}
  /\ UNCHANGED <<chunkCount, chunkPool, pc, mine>>

(* FreeChunksInFreeQueue: a thread takes chunk after chunk out of the      *)
(* free queue, to free each,...                                            *)
FreeByUser(t) ==
  /\ pc[t] \in {"idle", "drain"}
  /\ \E c \in freeQueue : /\ freeQueue' = freeQueue \ {c}
                          /\ mine' = [mine EXCEPT ![t] = c]
  /\ Goto(t, "free")
  /\ UNCHANGED <<chunkCount, chunkPool, inUse>>

FreeByUserEnd(t) ==
  /\ pc[t] = "drain"
  /\ Goto(t, "idle")
  /\ UNCHANGED <<chunkCount, chunkPool, freeQueue, inUse, mine>>

(* ... first looking at the counter; the faulty form allows one too many.  *)
FreeBeyond(t) ==
  /\ pc[t] = "free"
  /\ IF chunkCount > MEMORY_CHUNK_POOL_CAPACITY
     THEN Goto(t, "drain") /\ mine' = [mine EXCEPT ![t] = NoChunk]
     ELSE Goto(t, "enqueue") /\ UNCHANGED mine
  /\ UNCHANGED <<chunkCount, chunkPool, freeQueue, inUse>>

Free(t) ==
  /\ pc[t] = "free"
  /\ IF chunkCount >= MEMORY_CHUNK_POOL_CAPACITY
     THEN Goto(t, "drain") /\ mine' = [mine EXCEPT ![t] = NoChunk]
     ELSE Goto(t, "enqueue") /\ UNCHANGED mine
  /\ UNCHANGED <<chunkCount, chunkPool, freeQueue, inUse>>

(* then putting the chunk into the pool, and at last counting it.          *)
FreeEnqueue(t) ==
  /\ pc[t] = "enqueue"
  /\ chunkPool' = chunkPool \cup {mine[t]}
  /\ mine' = [mine EXCEPT ![t] = NoChunk]
  /\ Goto(t, "add")
  /\ UNCHANGED <<chunkCount, freeQueue, inUse>>

FreeUncounted(t) ==
  /\ pc[t] = "add"
  /\ Goto(t, "drain")
  /\ UNCHANGED <<chunkCount, chunkPool, freeQueue, inUse, mine>>

FreeCounted(t) ==
  /\ pc[t] = "add"
  /\ chunkCount' = (chunkCount + 1) % W
  /\ Goto(t, "drain")
  /\ UNCHANGED <<chunkPool, freeQueue, inUse, mine>>

Step(t) ==
  \/ RequestPooled(t) \/ RequestCounted(t) \/ RequestAllocated(t) \/ Recycle(t)
  \/ FreeByUser(t) \/ FreeByUserEnd(t)
  \/ Free(t) \/ FreeEnqueue(t) \/ FreeCounted(t)

PoolNext == \E t \in Threads : Step(t)

PoolSpec == PoolInit /\ [][PoolNext]_poolVars

-----------------------------------------------------------------------------
(* Properties.                                                             *)

PoolAt(l) == {t \in Threads : pc[t] = l}

(* Every variable has its type, and a thread that frees a chunk has one.   *)
PoolTypeOK ==
  /\ chunkCount \in 0..(W - 1)
  /\ chunkPool \subseteq Chunks /\ freeQueue \subseteq Chunks /\ inUse \subseteq Chunks
  /\ pc \in [Threads -> {"idle", "sub", "drain", "free", "enqueue", "add"}]
  /\ mine \in [Threads -> Chunks \cup {NoChunk}]
  /\ \A t \in Threads : mine[t] # NoChunk <=> pc[t] \in {"free", "enqueue"}

(* A chunk is in one place: the pool, the free queue, a message queue or   *)
(* the hands of one thread.                                                *)
OneOwner ==
  /\ chunkPool \cap freeQueue = {} /\ chunkPool \cap inUse = {}
  /\ freeQueue \cap inUse = {} /\ InHand \cap (chunkPool \cup freeQueue \cup inUse) = {}
  /\ \A t, u \in Threads : mine[t] = mine[u] /\ mine[t] # NoChunk => t = u

(* The counter is off by the threads that have yet to count a chunk, and   *)
(* wraps below zero when a chunk is taken before it was counted; it is     *)
(* exact whenever no thread is between the two.                            *)
CountAgrees ==
  chunkCount =
    (Cardinality(chunkPool) + Cardinality(PoolAt("sub")) - Cardinality(PoolAt("add"))) % W

(* The counter is read before the chunk is put into the pool, so the pool  *)
(* may grow beyond its capacity, but by less than the number of threads.   *)
PoolBounded ==
  Cardinality(chunkPool) <= MEMORY_CHUNK_POOL_CAPACITY + Cardinality(Threads) - 1
=============================================================================
