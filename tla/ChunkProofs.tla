----------------------------- MODULE ChunkProofs -----------------------------
(***************************************************************************)
(* The memory chunks of the message queues, for any number of threads,     *)
(* queues and chunks.  Part 1: the pool of MemoryAllocator keeps its       *)
(* account.  Part 2: the stash that all queues share (ChunkStash) is safe  *)
(* as long as flushCommands is called with one command buffer at a time.   *)
(***************************************************************************)
EXTENDS MemoryAllocator, ChunkStash, FiniteSetTheorems, TLAPS

(***************************************************************************)
(* Part 1: the pool.                                                       *)
(***************************************************************************)

Capacity == MEMORY_CHUNK_POOL_CAPACITY

(* A thread that has found room for its chunk takes that room.             *)
PoolRoom ==
  Cardinality(chunkPool) + Cardinality(PoolAt("enqueue")) <= Capacity + Cardinality(Threads) - 1

PoolInv == PoolTypeOK /\ OneOwner /\ IsFiniteSet(chunkPool) /\ CountAgrees /\ PoolRoom

-----------------------------------------------------------------------------
(* Remainders, by which the unsigned counters are modelled.               *)

(* A number is its remainder when it lies in the range of remainders.      *)
LEMMA ModUnique ==
  ASSUME NEW m \in Nat \ {0}, NEW q \in Int, NEW r \in 0..(m - 1), NEW a \in Int,
         a = m * q + r
  PROVE  a % m = r
  BY SMTT(30)

(* Every number has a quotient and a remainder.                            *)
LEMMA ModSplit ==
  ASSUME NEW m \in Nat \ {0}, NEW a \in Int
  PROVE  \E q \in Int, r \in 0..(m - 1) : a = m * q + r /\ a % m = r
<1>1. a = m * (a \div m) + (a % m) /\ (a \div m) \in Int
  BY SMTT(30)
<1>2. a % m \in 0..(m - 1)
  BY SMTT(30)
<1>3. QED
  BY <1>1, <1>2

(* Counting on a wrapped counter wraps the count.                          *)
LEMMA ModAdd ==
  ASSUME NEW m \in Nat \ {0}, NEW a \in Int, NEW b \in Int
  PROVE  ((a % m) + b) % m = (a + b) % m
<1>1. PICK q \in Int, r \in 0..(m - 1) : a = m * q + r /\ a % m = r
  BY ModSplit
<1>2. r + b \in Int
  OBVIOUS
<1>3. PICK p \in Int, t \in 0..(m - 1) : r + b = m * p + t /\ (r + b) % m = t
  BY <1>2, ModSplit
<1>4. m * (q + p) = m * q + m * p /\ m * q \in Int /\ m * p \in Int
  OBVIOUS
<1>5. PICK x \in Int, y \in Int : x = q + p /\ y = a + b
  OBVIOUS
<1>6. y % m = t
  <2>1. y = m * x + t
    BY <1>1, <1>3, <1>4, <1>5
  <2>2. m \in Nat \ {0} /\ x \in Int /\ t \in 0..(m - 1) /\ y \in Int
    BY <1>3, <1>5
  <2>3. \A k \in Int, u \in 0..(m - 1), z \in Int : z = m * k + u => z % m = u
    BY ModUnique
  <2>4. QED
    BY <2>1, <2>2, <2>3
<1>7. QED
  BY <1>1, <1>3, <1>5, <1>6

(* A number that is not beyond one modulus away from zero is its own       *)
(* remainder, or its remainder less the modulus.                           *)
LEMMA ModNear ==
  ASSUME NEW m \in Nat \ {0}, NEW a \in Int, -m <= a, a < m
  PROVE  a % m = IF a >= 0 THEN a ELSE m + a
<1>1. CASE a >= 0
  <2>1. a \in 0..(m - 1) /\ a = m * 0 + a /\ 0 \in Int
    BY <1>1
  <2>2. a % m = a
    BY <2>1, ModUnique
  <2>3. QED
    BY <1>1, <2>2
<1>2. CASE a < 0
  <2>1. m + a \in 0..(m - 1) /\ a = m * (-1) + (m + a) /\ -1 \in Int
    BY <1>2
  <2>2. a % m = m + a
    BY <2>1, ModUnique
  <2>3. QED
    BY <1>2, <2>2
<1>3. QED
  BY <1>1, <1>2

-----------------------------------------------------------------------------
(* How many threads are where.                                             *)

LEMMA ConstantTypes ==
  /\ Cardinality(Threads) \in Nat /\ Cardinality(Threads) >= 1
  /\ Capacity \in Nat /\ W \in Nat \ {0} /\ W > Capacity + 2 * Cardinality(Threads)
<1>1. Cardinality(Threads) \in Nat /\ Cardinality(Threads) # 0
  BY ThreadAssumption, ChunkAssumption, FS_CardinalityType, FS_EmptySet
<1>2. QED
  BY <1>1, CapacityAssumption DEF Capacity

LEMMA AtFinite ==
  ASSUME NEW l
  PROVE  /\ IsFiniteSet(PoolAt(l)) /\ Cardinality(PoolAt(l)) \in Nat
         /\ Cardinality(PoolAt(l)) <= Cardinality(Threads)
<1>1. PoolAt(l) \in SUBSET Threads
  BY DEF PoolAt
<1>2. IsFiniteSet(PoolAt(l)) /\ Cardinality(PoolAt(l)) <= Cardinality(Threads)
  BY <1>1, ThreadAssumption, ChunkAssumption, FS_Subset
<1>3. QED
  BY <1>2, FS_CardinalityType

(* A thread that goes from k to l leaves one set and enters the other.     *)
LEMMA AtMoves ==
  ASSUME PoolTypeOK, NEW t \in Threads, NEW k, NEW l, pc[t] = k, k # l, Goto(t, l)
  PROVE  /\ Cardinality(PoolAt(k)') = Cardinality(PoolAt(k)) - 1
         /\ Cardinality(PoolAt(l)') = Cardinality(PoolAt(l)) + 1
         /\ \A m : m # k /\ m # l => PoolAt(m)' = PoolAt(m)
<1>1. \A u \in Threads : pc'[u] = IF u = t THEN l ELSE pc[u]
  BY DEF Goto, PoolTypeOK
<1>2. PoolAt(k)' = PoolAt(k) \ {t} /\ t \in PoolAt(k)
  BY <1>1 DEF PoolAt
<1>3. PoolAt(l)' = PoolAt(l) \cup {t} /\ t \notin PoolAt(l)
  BY <1>1 DEF PoolAt
<1>4. \A m : m # k /\ m # l => PoolAt(m)' = PoolAt(m)
  BY <1>1 DEF PoolAt
<1>5. Cardinality(PoolAt(k)') = Cardinality(PoolAt(k)) - 1
  BY <1>2, AtFinite, FS_RemoveElement
<1>6. Cardinality(PoolAt(l)') = Cardinality(PoolAt(l)) + 1
  BY <1>3, AtFinite, FS_AddElement
<1>7. QED
  BY <1>4, <1>5, <1>6
-----------------------------------------------------------------------------
(* Owners.                                                                 *)

LEMMA TypeStep ==
  ASSUME PoolTypeOK, [PoolNext]_poolVars
  PROVE  PoolTypeOK'
<1>1. CASE UNCHANGED poolVars
  BY <1>1 DEF PoolTypeOK, poolVars
<1>2. ASSUME NEW t \in Threads, Step(t) PROVE PoolTypeOK'
  <2>1. (chunkCount - 1) % W \in 0..(W - 1) /\ (chunkCount + 1) % W \in 0..(W - 1)
    BY CapacityAssumption, ConstantTypes DEF PoolTypeOK
  <2>2. CASE RequestPooled(t) \/ RequestAllocated(t) \/ Recycle(t)
    BY <2>2 DEF PoolTypeOK, RequestPooled, RequestAllocated, Recycle, Goto, Heap
  <2>3. CASE RequestCounted(t) \/ FreeCounted(t)
    BY <2>1, <2>3 DEF PoolTypeOK, RequestCounted, FreeCounted, Goto
  <2>4. CASE FreeByUser(t) \/ FreeByUserEnd(t)
    BY <2>4, ThreadAssumption, ChunkAssumption DEF PoolTypeOK, FreeByUser, FreeByUserEnd, Goto
  <2>5. CASE Free(t) \/ FreeEnqueue(t)
    BY <2>5, ThreadAssumption, ChunkAssumption DEF PoolTypeOK, Free, FreeEnqueue, Goto
  <2>6. QED
    BY <1>2, <2>2, <2>3, <2>4, <2>5 DEF Step
<1>3. QED
  BY <1>1, <1>2 DEF PoolNext

LEMMA OwnerStep ==
  ASSUME PoolTypeOK, OneOwner, [PoolNext]_poolVars
  PROVE  OneOwner'
<1> DEFINE Owner(x) == /\ x \in chunkPool => x \notin freeQueue /\ x \notin inUse
                       /\ x \in freeQueue => x \notin inUse
                       /\ \A t \in Threads : mine[t] = x => x \notin chunkPool /\ x \notin freeQueue /\ x \notin inUse
<1>1. OneOwner => /\ \A x \in Chunks : Owner(x)
                  /\ \A t, u \in Threads : mine[t] = mine[u] /\ mine[t] # NoChunk => t = u
  BY ThreadAssumption, ChunkAssumption DEF OneOwner, InHand, PoolTypeOK
<1>2. PoolTypeOK'
  BY TypeStep
<1>3. (\A x \in Chunks : Owner(x))' /\ (\A t, u \in Threads : mine[t] = mine[u] /\ mine[t] # NoChunk => t = u)'
        => OneOwner'
  BY <1>2, ThreadAssumption, ChunkAssumption DEF OneOwner, InHand, PoolTypeOK
<1>4. CASE UNCHANGED poolVars
  BY <1>1, <1>3, <1>4 DEF poolVars
<1>5. ASSUME NEW t \in Threads, Step(t) PROVE OneOwner'
  <2>1. CASE RequestPooled(t)
    BY <1>1, <1>3, <2>1 DEF RequestPooled
  <2>2. CASE RequestAllocated(t)
    <3>1. \A c \in Heap : c \in Chunks /\ c \notin chunkPool /\ c \notin freeQueue /\ c \notin inUse
                          /\ \A u \in Threads : mine[u] # c
      BY ThreadAssumption, ChunkAssumption DEF Heap, InHand, PoolTypeOK
    <3>2. QED
      BY <1>1, <1>3, <2>2, <3>1 DEF RequestAllocated
  <2>3. CASE Recycle(t)
    BY <1>1, <1>3, <2>3 DEF Recycle
  <2>4. CASE FreeByUser(t)
    <3>1. PICK c \in freeQueue : freeQueue' = freeQueue \ {c} /\ mine' = [mine EXCEPT ![t] = c]
      BY <2>4 DEF FreeByUser
    <3>2. UNCHANGED <<chunkPool, inUse>>
      BY <2>4 DEF FreeByUser
    <3>3. c \in Chunks /\ mine \in [Threads -> Chunks \cup {NoChunk}]
      BY DEF PoolTypeOK
    <3>4. QED
      BY <1>1, <1>3, <3>1, <3>2, <3>3
  <2>5. CASE RequestCounted(t) \/ FreeByUserEnd(t) \/ FreeCounted(t)
    BY <1>1, <1>3, <2>5 DEF RequestCounted, FreeByUserEnd, FreeCounted
  <2>6. CASE Free(t)
    <3>1. \/ mine' = mine
          \/ mine' = [mine EXCEPT ![t] = NoChunk]
      BY <2>6 DEF Free
    <3>2. UNCHANGED <<chunkPool, freeQueue, inUse>>
      BY <2>6 DEF Free
    <3>3. QED
      BY <1>1, <1>3, <3>1, <3>2, ThreadAssumption, ChunkAssumption DEF PoolTypeOK
  <2>7. CASE FreeEnqueue(t)
    <3>1. /\ chunkPool' = chunkPool \cup {mine[t]} /\ UNCHANGED <<freeQueue, inUse>>
          /\ mine' = [mine EXCEPT ![t] = NoChunk] /\ mine[t] # NoChunk
      BY <2>7 DEF FreeEnqueue, PoolTypeOK
    <3>2. QED
      BY <1>1, <1>3, <3>1, ThreadAssumption, ChunkAssumption DEF PoolTypeOK
  <2>8. QED
    BY <1>5, <2>1, <2>2, <2>3, <2>4, <2>5, <2>6, <2>7 DEF Step
<1>6. QED
  BY <1>4, <1>5 DEF PoolNext
-----------------------------------------------------------------------------
(* The counter and the pool.                                               *)

(* Threads that have chosen to put a chunk into the pool, and those that   *)
(* have yet to count one, are not the thread that is choosing.             *)
LEMMA OthersOnly ==
  ASSUME NEW t \in Threads, pc[t] = "free"
  PROVE  Cardinality(PoolAt("add")) + Cardinality(PoolAt("enqueue")) <= Cardinality(Threads) - 1
<1> DEFINE A == PoolAt("add")
           E == PoolAt("enqueue")
<1>1. A \cap E = {} /\ A \cup E \in SUBSET (Threads \ {t})
  BY DEF PoolAt
<1>2. IsFiniteSet(A) /\ IsFiniteSet(E) /\ Cardinality(A) \in Nat /\ Cardinality(E) \in Nat
  BY AtFinite
<1>3. IsFiniteSet(Threads \ {t}) /\ Cardinality(Threads \ {t}) = Cardinality(Threads) - 1
  BY ThreadAssumption, ChunkAssumption, FS_RemoveElement
<1>4. Cardinality(A \cup E) <= Cardinality(Threads \ {t})
  BY <1>1, <1>3, FS_Subset
<1>5. Cardinality(A \cup E) = Cardinality(A) + Cardinality(E) - Cardinality(A \cap E)
  BY <1>2, FS_Union
<1>6. Cardinality(A \cap E) = 0
  BY <1>1, FS_EmptySet
<1>7. Cardinality(A) + Cardinality(E) <= Cardinality(Threads) - 1
  BY <1>2, <1>3, <1>4, <1>5, <1>6, ConstantTypes
<1>8. QED
  BY <1>7

(* A thread that finds the counter below the capacity finds room.          *)
LEMMA RoomFound ==
  ASSUME NEW w \in Nat \ {0}, NEW cap \in Nat, NEW n \in Nat, w > cap + 2 * n,
         NEW p \in Nat, NEW s \in Nat, NEW a \in Nat, NEW e \in Nat,
         n >= 1, s <= n, a <= n, a + e <= n - 1, p + e <= cap + n - 1,
         (p + s - a) % w < cap
  PROVE  p + e + 1 <= cap + n - 1
<1>1. PICK d \in Int : d = p + s - a
  OBVIOUS
<1>2. -w <= d /\ d < w
  BY <1>1
<1>3. d % w = IF d >= 0 THEN d ELSE w + d
  BY <1>2, ModNear
<1>4. d % w < cap
  BY <1>1
<1>5. CASE d >= 0
  BY <1>1, <1>3, <1>4, <1>5
<1>6. CASE d < 0
  BY <1>1, <1>6
<1>7. QED
  BY <1>1, <1>5, <1>6

(* The numbers of PoolInv are naturals.                                    *)
LEMMA Sizes ==
  ASSUME PoolInv
  PROVE  /\ Cardinality(chunkPool) \in Nat
         /\ Cardinality(PoolAt("sub")) \in Nat /\ Cardinality(PoolAt("sub")) <= Cardinality(Threads)
         /\ Cardinality(PoolAt("add")) \in Nat /\ Cardinality(PoolAt("add")) <= Cardinality(Threads)
         /\ Cardinality(PoolAt("enqueue")) \in Nat
  BY AtFinite, FS_CardinalityType DEF PoolInv

(* Only chunks that are put into the pool or taken from it, and threads    *)
(* that pass between "sub", "add" and "enqueue", touch the account.        *)
LEMMA AccountKept ==
  ASSUME PoolInv, chunkCount' = chunkCount, chunkPool' = chunkPool,
         PoolAt("sub")' = PoolAt("sub"), PoolAt("add")' = PoolAt("add"), PoolAt("enqueue")' = PoolAt("enqueue")
  PROVE  (IsFiniteSet(chunkPool) /\ CountAgrees /\ PoolRoom)'
  BY DEF PoolInv, CountAgrees, PoolRoom

LEMMA AccountStep ==
  ASSUME PoolInv, NEW t \in Threads, Step(t)
  PROVE  (IsFiniteSet(chunkPool) /\ CountAgrees /\ PoolRoom)'
<1> DEFINE p == Cardinality(chunkPool)
           s == Cardinality(PoolAt("sub"))
           a == Cardinality(PoolAt("add"))
           e == Cardinality(PoolAt("enqueue"))
           n == Cardinality(Threads)
<1>1. /\ PoolTypeOK /\ OneOwner /\ IsFiniteSet(chunkPool)
      /\ chunkCount = (p + s - a) % W /\ p + e <= Capacity + n - 1
  BY DEF PoolInv, CountAgrees, PoolRoom
<1>2. /\ p \in Nat /\ s \in Nat /\ a \in Nat /\ e \in Nat /\ s <= n /\ a <= n
      /\ W \in Nat \ {0} /\ n \in Nat /\ n >= 1 /\ Capacity \in Nat /\ W > Capacity + 2 * n
  BY Sizes, ConstantTypes
<1>3. /\ CountAgrees' <=> chunkCount' = (p' + s' - a') % W
      /\ PoolRoom' <=> p' + e' <= Capacity + n - 1
  BY DEF CountAgrees, PoolRoom
<1>4. \A x, y \in Int : ((x % W) + y) % W = (x + y) % W
  BY <1>2, ModAdd
<1>5. PICK d \in Int : d = p + s - a
  BY <1>2
<1>6. CASE RequestPooled(t)
  <2>1. /\ s' = s + 1 /\ a' = a /\ e' = e
    BY <1>1, <1>6, AtMoves DEF RequestPooled
  <2>2. PICK c \in chunkPool : chunkPool' = chunkPool \ {c}
    BY <1>6 DEF RequestPooled
  <2>3. IsFiniteSet(chunkPool') /\ p' = p - 1
    BY <1>1, <2>2, FS_RemoveElement
  <2>4. chunkCount' = chunkCount
    BY <1>6 DEF RequestPooled
  <2>5. p' + s' - a' = p + s - a /\ p' + e' <= Capacity + n - 1
    BY <1>1, <1>2, <2>1, <2>3
  <2>6. QED
    BY <1>1, <1>3, <2>3, <2>4, <2>5
<1>7. CASE RequestCounted(t)
  <2>1. /\ s' = s - 1 /\ a' = a /\ e' = e
    BY <1>1, <1>7, AtMoves DEF RequestCounted
  <2>2. chunkPool' = chunkPool /\ p' = p
    BY <1>7 DEF RequestCounted
  <2>3. chunkCount' = (chunkCount - 1) % W
    BY <1>7 DEF RequestCounted
  <2>4. chunkCount' = ((d % W) + (-1)) % W
    BY <1>1, <1>5, <2>3
  <2>5. ((d % W) + (-1)) % W = (d + (-1)) % W
    BY <1>4, <1>5
  <2>6. d + (-1) = p' + s' - a' /\ p' + e' <= Capacity + n - 1
    BY <1>1, <1>2, <1>5, <2>1, <2>2
  <2>7. QED
    BY <1>1, <1>3, <2>2, <2>4, <2>5, <2>6
<1>8. CASE RequestAllocated(t) \/ Recycle(t)
  <2>1. chunkCount' = chunkCount /\ chunkPool' = chunkPool /\ pc' = pc
    BY <1>8 DEF RequestAllocated, Recycle
  <2>2. PoolAt("sub")' = PoolAt("sub") /\ PoolAt("add")' = PoolAt("add") /\ PoolAt("enqueue")' = PoolAt("enqueue")
    BY <2>1 DEF PoolAt
  <2>3. QED
    BY <2>1, <2>2, AccountKept
<1>9. CASE FreeByUser(t) \/ FreeByUserEnd(t) \/ (Free(t) /\ Goto(t, "drain"))
  <2>1. chunkCount' = chunkCount /\ chunkPool' = chunkPool
    BY <1>9 DEF FreeByUser, FreeByUserEnd, Free
  <2>2. PICK k \in {"idle", "drain", "free"}, l \in {"idle", "drain", "free"} :
          pc[t] = k /\ Goto(t, l) /\ k # l
    BY <1>9 DEF FreeByUser, FreeByUserEnd, Free
  <2>3. PoolAt("sub")' = PoolAt("sub") /\ PoolAt("add")' = PoolAt("add") /\ PoolAt("enqueue")' = PoolAt("enqueue")
    BY <1>1, <2>2, AtMoves
  <2>4. QED
    BY <2>1, <2>3, AccountKept
<1>10. CASE Free(t) /\ Goto(t, "enqueue")
  <2>1. pc[t] = "free" /\ chunkCount' = chunkCount /\ chunkPool' = chunkPool
    BY <1>10 DEF Free
  <2>2. chunkCount < Capacity
    <3>1. pc'[t] = "enqueue"
      BY <1>1, <1>10 DEF Goto, PoolTypeOK
    <3>2. ~(chunkCount >= MEMORY_CHUNK_POOL_CAPACITY)
      BY <1>1, <1>10, <3>1 DEF Free, Goto, PoolTypeOK
    <3>3. chunkCount \in Int
      BY <1>1, <1>2 DEF PoolTypeOK
    <3>4. QED
      BY <1>2, <3>2, <3>3 DEF Capacity
  <2>3. e' = e + 1 /\ s' = s /\ a' = a
    BY <1>1, <1>10, <2>1, AtMoves
  <2>4. a + e <= n - 1
    BY <2>1, OthersOnly
  <2>5. p + e + 1 <= Capacity + n - 1
    BY <1>1, <1>2, <2>2, <2>4, RoomFound
  <2>6. p' = p
    BY <2>1
  <2>7. p' + e' <= Capacity + n - 1
    BY <1>2, <2>3, <2>5, <2>6
  <2>8. QED
    BY <1>1, <1>3, <2>1, <2>3, <2>6, <2>7
<1>11. CASE FreeEnqueue(t)
  <2>1. pc[t] = "enqueue" /\ chunkCount' = chunkCount /\ chunkPool' = chunkPool \cup {mine[t]}
    BY <1>11 DEF FreeEnqueue
  <2>2. mine[t] \notin chunkPool
    BY <1>1, <2>1 DEF OneOwner, InHand
  <2>3. IsFiniteSet(chunkPool') /\ p' = p + 1
    BY <1>1, <2>1, <2>2, FS_AddElement
  <2>4. e' = e - 1 /\ a' = a + 1 /\ s' = s
    BY <1>1, <1>11, AtMoves DEF FreeEnqueue
  <2>5. p' + s' - a' = p + s - a /\ p' + e' <= Capacity + n - 1
    BY <1>1, <1>2, <2>3, <2>4
  <2>6. QED
    BY <1>1, <1>3, <2>1, <2>3, <2>5
<1>12. CASE FreeCounted(t)
  <2>1. /\ a' = a - 1 /\ s' = s /\ e' = e
    BY <1>1, <1>12, AtMoves DEF FreeCounted
  <2>2. chunkPool' = chunkPool /\ p' = p
    BY <1>12 DEF FreeCounted
  <2>3. chunkCount' = ((d % W) + 1) % W
    BY <1>1, <1>5, <1>12 DEF FreeCounted
  <2>4. ((d % W) + 1) % W = (d + 1) % W
    BY <1>4, <1>5
  <2>5. d + 1 = p' + s' - a' /\ p' + e' <= Capacity + n - 1
    BY <1>1, <1>2, <1>5, <2>1, <2>2
  <2>6. QED
    BY <1>1, <1>3, <2>2, <2>3, <2>4, <2>5
<1>13. Free(t) => Goto(t, "drain") \/ Goto(t, "enqueue")
  BY DEF Free
<1>14. QED
  BY <1>6, <1>7, <1>8, <1>9, <1>10, <1>11, <1>12, <1>13 DEF Step
-----------------------------------------------------------------------------
LEMMA PoolInvInit == PoolInit => PoolInv
<1> SUFFICES ASSUME PoolInit PROVE PoolInv
  OBVIOUS
<1>1. PoolTypeOK
  BY ConstantTypes, ThreadAssumption, ChunkAssumption DEF PoolInit, PoolTypeOK
<1>2. OneOwner
  BY DEF PoolInit, OneOwner, InHand
<1>3. PoolAt("sub") = {} /\ PoolAt("add") = {} /\ PoolAt("enqueue") = {} /\ chunkPool = {}
  BY DEF PoolInit, PoolAt
<1>4. Cardinality({}) = 0 /\ IsFiniteSet({})
  BY FS_EmptySet
<1>5. 0 % W = 0
  BY ConstantTypes, ModNear
<1>6. CountAgrees
  <2>1. Cardinality(chunkPool) + Cardinality(PoolAt("sub")) - Cardinality(PoolAt("add")) = 0
    <3>1. /\ Cardinality(chunkPool) = 0 /\ Cardinality(PoolAt("sub")) = 0
          /\ Cardinality(PoolAt("add")) = 0
      BY <1>3, <1>4
    <3>2. 0 + 0 - 0 = 0
      OBVIOUS
    <3>3. QED
      BY <3>1, <3>2, Zenon
  <2>2. chunkCount = 0
    BY DEF PoolInit
  <2>3. QED
    BY <1>5, <2>1, <2>2, Zenon DEF CountAgrees
<1>7. PoolRoom
  BY <1>3, <1>4, ConstantTypes DEF PoolRoom
<1>8. QED
  BY <1>1, <1>2, <1>3, <1>4, <1>6, <1>7 DEF PoolInv

LEMMA PoolInvStep == PoolInv /\ [PoolNext]_poolVars => PoolInv'
<1> SUFFICES ASSUME PoolInv, [PoolNext]_poolVars PROVE PoolInv'
  OBVIOUS
<1>1. PoolTypeOK' /\ OneOwner'
  BY TypeStep, OwnerStep DEF PoolInv
<1>2. CASE UNCHANGED poolVars
  BY <1>2 DEF PoolInv, CountAgrees, PoolRoom, PoolAt, PoolTypeOK, OneOwner, InHand, poolVars
<1>3. CASE PoolNext
  BY <1>1, <1>3, AccountStep DEF PoolNext, PoolInv
<1>4. QED
  BY <1>2, <1>3

LEMMA PoolInvAlways == PoolSpec => []PoolInv
  BY PoolInvInit, PoolInvStep, PTL DEF PoolSpec

(* A chunk has one owner, however request, recycle and free interleave.    *)
THEOREM OneOwnerCorrect == PoolSpec => [](PoolTypeOK /\ OneOwner)
<1>1. PoolInv => PoolTypeOK /\ OneOwner
  BY DEF PoolInv
<1>2. QED
  BY <1>1, PoolInvAlways, PTL

(* _chunkCount is the size of the pool up to the threads that are between  *)
(* the change of the one and the change of the other.                      *)
THEOREM CountAgreesCorrect == PoolSpec => []CountAgrees
<1>1. PoolInv => CountAgrees
  BY DEF PoolInv
<1>2. QED
  BY <1>1, PoolInvAlways, PTL

(* The pool never holds MEMORY_CHUNK_POOL_CAPACITY chunks and one for      *)
(* each thread, although no lock guards its size.                          *)
THEOREM PoolBoundedCorrect == PoolSpec => []PoolBounded
<1>1. PoolInv => PoolBounded
  <2>1. SUFFICES ASSUME PoolInv PROVE PoolBounded
    OBVIOUS
  <2>2. PoolRoom /\ Cardinality(chunkPool) \in Nat /\ Cardinality(PoolAt("enqueue")) \in Nat
    BY <2>1, Sizes DEF PoolInv
  <2>3. QED
    BY <2>2, ConstantTypes DEF PoolRoom, PoolBounded, Capacity
<1>2. QED
  BY <1>1, PoolInvAlways, PTL

(***************************************************************************)
(* Part 2: the stash.                                                      *)
(***************************************************************************)

Single == \A cs \in FlushLists : Len(cs) = 1

(* The messages of a queue by their distance: 0 is the one that executes.  *)
Places(q) == 0..Len(unread[q])
At(q, k) == IF k = 0 THEN executing[q] ELSE unread[q][k]

(* The switch message at k gives chunk b back; from k on queue q holds b.  *)
Leaves(q, k, b) == k \in Places(q) /\ At(q, k).kind = "Switch" /\ At(q, k).block = b
Holds(q, k, b) == b = current[q] \/ \E j \in Places(q) : k <= j /\ Leaves(q, j, b)

(* While a queue is read no other queue executes a message that frees.     *)
Running(q) ==
  IF q = main THEN dPc = "main" \/ 1 \in todo \ begun
  ELSE dPc = "flush" /\ 1 \in todo \cap begun /\ q = executing[main].cmdBuffs[1]

(* 1. Where the threads are, and what their messages look like.            *)
Device ==
  /\ dPc = "main" => todo = {} /\ begun = {}
  /\ dPc = "flush" => executing[main].kind = "Flush" /\ todo \subseteq {1} /\ begun \subseteq {1}
  /\ \A q \in CmdBuffs : executing[q].kind # "None" => Running(q)
Game ==
  gPc = "flush" => /\ gCall.kind = "Flush" /\ gCall.block = current[main]
                   /\ gCall.cmdBuffs \in FlushLists
Shape(q, k) ==
  LET m == At(q, k)
  IN  /\ m \in MessageType
      /\ m.kind = "None" => k = 0 /\ m = NoMessage
      /\ m.kind = "Flush" => q = main /\ m.cmdBuffs \in FlushLists
      /\ m.kind \in {"Switch", "Plain", "Flush"} => m.block \in Chunks
      /\ m.kind = "Switch" => /\ k + 1 \in Places(q) /\ At(q, k + 1).kind = "Dummy"
                              /\ m.chunk = m.block
Shapes == \A q \in Queues : \A k \in Places(q) : Shape(q, k)

(* 2. A chunk in use is written by one queue, or left by one message.      *)
Leaving ==
  /\ \A q \in Queues : chunk[current[q]] = "used"
  /\ \A q \in Queues : \A b \in Chunks : \A k \in Places(q) : Leaves(q, k, b) =>
       /\ chunk[b] = "used"
       /\ \A p \in Queues : current[p] # b
       /\ \A p \in Queues : \A l \in Places(p) : Leaves(p, l, b) => p = q /\ l = k

(* 3. A message lies in a chunk that its queue holds until it has executed.*)
Lying ==
  \A q \in Queues : \A k \in Places(q) :
    At(q, k).kind # "None" => Holds(q, k, At(q, k).chunk)

(* 4. What it points to is held too, or is left just before it.            *)
Points(q, k) ==
  LET m == At(q, k)
  IN  \/ m.kind = "Plain"
      \/ m.kind = "Flush" /\ (k = 0 => dPc = "main" \/ 1 \in todo \ begun)
JustLeft(q, k, b) ==
  \/ k >= 2 /\ At(q, k - 1).kind = "Dummy" /\ Leaves(q, k - 2, b)
  \/ /\ chunk[b] = "stashed" /\ Running(q)
     /\ k \in 0..2
     /\ k = 2 => At(q, 1).kind = "Dummy"
     /\ k >= 1 => At(q, 0).kind \in {"None", "Dummy"}
Pointing ==
  \A q \in Queues : \A k \in Places(q) :
    Points(q, k) => Holds(q, k, At(q, k).block) \/ JustLeft(q, k, At(q, k).block)

(* 5. The last message taken is read once more, for its link.              *)
LastLeft(q) ==
  /\ chunk[last[q]] = "stashed" /\ Running(q)
  /\ At(q, 0).kind = "None" /\ 1 \in Places(q) /\ At(q, 1).kind = "Dummy"
Linking == \A q \in Queues : Holds(q, 0, last[q]) \/ LastLeft(q)

IInv ==
  /\ TypeOK /\ WritersApart
  /\ Device /\ Game /\ Shapes /\ Leaving /\ Lying /\ Pointing /\ Linking

-----------------------------------------------------------------------------
(* What holds of the messages of a queue.                                  *)

LEMMA PlaceFacts ==
  ASSUME TypeOK, NEW q \in Queues
  PROVE  /\ unread[q] \in Seq(MessageType) /\ Len(unread[q]) \in Nat
         /\ DOMAIN unread[q] = 1..Len(unread[q])
         /\ 0 \in Places(q) /\ Places(q) \subseteq Nat
         /\ \A k \in Places(q) : k # 0 => k \in 1..Len(unread[q]) /\ At(q, k) = unread[q][k]
         /\ At(q, 0) = executing[q]
<1>1. unread[q] \in Seq(MessageType)
  BY DEF TypeOK
<1>2. QED
  BY <1>1 DEF Places, At

LEMMA SameQueue ==
  ASSUME NEW p, unread'[p] = unread[p], current'[p] = current[p], executing'[p] = executing[p]
  PROVE  /\ Places(p)' = Places(p)
         /\ \A k : At(p, k)' = At(p, k)
         /\ \A k, b : Leaves(p, k, b)' <=> Leaves(p, k, b)
         /\ \A k, b : Holds(p, k, b)' <=> Holds(p, k, b)
BY DEF Places, At, Leaves, Holds

LEMMA MessageTypes ==
  ASSUME NEW k \in Kinds, NEW c \in Chunks \cup {NoChunk}, NEW b \in Chunks \cup {NoChunk},
         NEW cs \in {<<>>} \cup FlushLists
  PROVE  /\ Message(k, c, b, cs) \in MessageType
         /\ Message(k, c, b, cs).kind = k /\ Message(k, c, b, cs).chunk = c
         /\ Message(k, c, b, cs).block = b /\ Message(k, c, b, cs).cmdBuffs = cs
BY DEF Message, MessageType

LEMMA NoMessageFacts ==
  /\ NoMessage \in MessageType /\ NoMessage.kind = "None" /\ NoMessage.chunk = NoChunk
BY MessageTypes DEF NoMessage, Kinds

LEMMA Appended ==
  ASSUME NEW s \in Seq(MessageType), NEW t \in Seq(MessageType)
  PROVE  /\ s \o t \in Seq(MessageType) /\ Len(s \o t) = Len(s) + Len(t)
         /\ Len(s) \in Nat /\ Len(t) \in Nat
         /\ \A i \in 1..Len(s) : (s \o t)[i] = s[i]
         /\ \A i \in 1..Len(t) : (s \o t)[Len(s) + i] = t[i]
<1>1. /\ s \o t \in Seq(MessageType) /\ Len(s \o t) = Len(s) + Len(t)
      /\ Len(s) \in Nat /\ Len(t) \in Nat
  OBVIOUS
<1>2. ASSUME NEW i \in 1..Len(s) PROVE (s \o t)[i] = s[i]
  OBVIOUS
<1>3. ASSUME NEW i \in 1..Len(t) PROVE (s \o t)[Len(s) + i] = t[i]
  OBVIOUS
<1>4. QED
  BY <1>1, <1>2, <1>3

(* Only one queue is read at a time.                                       *)
LEMMA OneRuns ==
  ASSUME NEW p \in Queues, NEW q \in Queues, Running(p), Running(q), Device
  PROVE  p = q
BY DEF Running, Device, Queues

-----------------------------------------------------------------------------
(* The game thread enters a chunk and places messages.                     *)

Added(q, c) == IF c = current[q] THEN 0 ELSE 2

LEMMA EnterEffects ==
  ASSUME TypeOK, NEW q \in Queues, NEW c \in Room(q), NEW ms \in Seq(MessageType),
         Enter(q, c, ms)
  PROVE  LET n == Len(unread[q])
         IN  /\ c \in Chunks /\ (c # current[q] => chunk[c] = "free")
             /\ unread' \in [Queues -> Seq(MessageType)] /\ current' \in [Queues -> Chunks]
             /\ chunk' \in [Chunks -> {"free", "used", "stashed"}]
             /\ \A p \in Queues : p # q => unread'[p] = unread[p] /\ current'[p] = current[p]
             /\ current'[q] = c /\ chunk'[c] = "used"
             /\ \A b \in Chunks : b # c => chunk'[b] = chunk[b]
             /\ Len(unread'[q]) = n + Added(q, c) + Len(ms)
             /\ \A i \in 1..n : unread'[q][i] = unread[q][i]
             /\ c # current[q] =>
                  /\ unread'[q][n + 1] = Message("Switch", current[q], current[q], <<>>)
                  /\ unread'[q][n + 2] = Message("Dummy", c, NoChunk, <<>>)
             /\ \A i \in 1..Len(ms) : unread'[q][n + Added(q, c) + i] = ms[i]
<1> DEFINE n == Len(unread[q])
           sw == Message("Switch", current[q], current[q], <<>>)
           du == Message("Dummy", c, NoChunk, <<>>)
<1>1. c \in Chunks /\ (c # current[q] => chunk[c] = "free") /\ current[q] \in Chunks
  BY DEF Room, TypeOK
<1>2. /\ unread[q] \in Seq(MessageType) /\ n \in Nat /\ Len(ms) \in Nat
      /\ Added(q, c) \in Nat /\ (c # current[q] => Added(q, c) = 2)
  BY DEF TypeOK, Added
<1>3. /\ SwitchTo(q, c) \in Seq(MessageType) /\ Len(SwitchTo(q, c)) = Added(q, c)
      /\ c # current[q] => SwitchTo(q, c)[1] = sw /\ SwitchTo(q, c)[2] = du
  <2>1. sw \in MessageType /\ du \in MessageType
    BY <1>1, MessageTypes DEF Kinds
  <2> HIDE DEF sw, du
  <2>2. SwitchTo(q, c) = IF c = current[q] THEN <<>> ELSE <<sw, du>>
    BY DEF SwitchTo, sw, du
  <2>3. <<sw, du>> \in Seq(MessageType) /\ Len(<<sw, du>>) = 2
        /\ <<sw, du>>[1] = sw /\ <<sw, du>>[2] = du
    BY <2>1
  <2>4. QED
    BY <2>2, <2>3 DEF Added
<1> DEFINE t == unread[q] \o SwitchTo(q, c)
<1>4. /\ t \in Seq(MessageType) /\ Len(t) = n + Added(q, c)
      /\ \A i \in 1..n : t[i] = unread[q][i]
      /\ \A i \in 1..Added(q, c) : t[n + i] = SwitchTo(q, c)[i]
  <2> DEFINE v == unread[q]
             w == SwitchTo(q, c)
  <2>1. v \in Seq(MessageType) /\ w \in Seq(MessageType) /\ Len(v) = n /\ Len(w) = Added(q, c)
    BY <1>2, <1>3
  <2>2. t = v \o w
    OBVIOUS
  <2> HIDE DEF v, w, t
  <2>3. /\ t \in Seq(MessageType) /\ Len(t) = Len(v) + Len(w)
        /\ \A i \in 1..Len(v) : t[i] = v[i]
        /\ \A i \in 1..Len(w) : t[Len(v) + i] = w[i]
    BY <2>1, <2>2, Appended
  <2>4. /\ Len(t) = n + Added(q, c) /\ \A i \in 1..n : t[i] = v[i]
        /\ \A i \in 1..Added(q, c) : t[n + i] = w[i]
    BY <2>1, <2>3
  <2>5. QED
    BY <2>3, <2>4 DEF v, w
<1> DEFINE u == t \o ms
<1>5. /\ u \in Seq(MessageType) /\ Len(u) = n + Added(q, c) + Len(ms)
      /\ \A i \in 1..Len(t) : u[i] = t[i]
      /\ \A i \in 1..Len(ms) : u[Len(t) + i] = ms[i]
  <2>1. u = t \o ms
    OBVIOUS
  <2> HIDE DEF t, u
  <2>2. QED
    BY <1>4, <2>1, Appended
<1>6. unread' = [unread EXCEPT ![q] = u]
  BY DEF Enter
<1> HIDE DEF t, u
<1>7. unread'[q] = u /\ \A p \in Queues : p # q => unread'[p] = unread[p]
  BY <1>6 DEF TypeOK
<1>8. \A i \in 1..n : unread'[q][i] = unread[q][i]
  <2>1. TAKE i \in 1..n
  <2>2. i \in 1..Len(t)
    BY <1>2, <1>4
  <2>3. QED
    BY <1>4, <1>5, <1>7, <2>2
<1>9. c # current[q] => unread'[q][n + 1] = sw /\ unread'[q][n + 2] = du
  <2>1. SUFFICES ASSUME c # current[q] PROVE unread'[q][n + 1] = sw /\ unread'[q][n + 2] = du
    OBVIOUS
  <2>2. n + 1 \in 1..Len(t) /\ n + 2 \in 1..Len(t) /\ 1 \in 1..Added(q, c) /\ 2 \in 1..Added(q, c)
    BY <1>2, <1>4, <2>1
  <2>3. t[n + 1] = sw /\ t[n + 2] = du
    BY <1>3, <1>4, <2>1, <2>2
  <2>4. u[n + 1] = t[n + 1] /\ u[n + 2] = t[n + 2]
    BY <1>5, <2>2
  <2>5. QED
    BY <1>7, <2>3, <2>4
<1>10. unread' \in [Queues -> Seq(MessageType)]
  BY <1>5, <1>6 DEF TypeOK
<1>11. /\ current' \in [Queues -> Chunks] /\ current'[q] = c
       /\ \A p \in Queues : p # q => current'[p] = current[p]
       /\ chunk' \in [Chunks -> {"free", "used", "stashed"}] /\ chunk'[c] = "used"
       /\ \A b \in Chunks : b # c => chunk'[b] = chunk[b]
  BY <1>1 DEF Enter, TypeOK
<1>12. QED
  BY <1>1, <1>4, <1>5, <1>7, <1>8, <1>9, <1>10, <1>11

(* What is placed: messages in the chunk entered, of which the first may   *)
(* point to where the queue was before.                                    *)
Fresh(q, c, ms) ==
  \A i \in 1..Len(ms) :
    /\ ms[i].chunk = c /\ ms[i].kind \in {"Plain", "Free", "Finish", "Flush"}
    /\ ms[i].kind \in {"Plain", "Flush"} => i = 1 /\ ms[i].block = current[q]
    /\ ms[i].kind = "Flush" => q = main /\ ms[i].cmdBuffs \in FlushLists

LEMMA EnterPlaces ==
  ASSUME IInv, NEW q \in Queues, NEW c \in Room(q), NEW ms \in Seq(MessageType),
         Enter(q, c, ms), UNCHANGED executing, NEW n, n = Len(unread[q])
  PROVE  /\ \A p \in Queues : \A k \in Places(p) : k \in Places(p)' /\ At(p, k)' = At(p, k)
         /\ \A p \in Queues : \A k \in Places(p)' :
              \/ k \in Places(p)
              \/ /\ p = q /\ c # current[q] /\ k = n + 1
                 /\ At(q, k)' = Message("Switch", current[q], current[q], <<>>)
              \/ /\ p = q /\ c # current[q] /\ k = n + 2
                 /\ At(q, k)' = Message("Dummy", c, NoChunk, <<>>)
              \/ /\ p = q
                 /\ \E i \in 1..Len(ms) : k = n + Added(q, c) + i /\ At(q, k)' = ms[i]
         /\ c # current[q] =>
              /\ n + 1 \in Places(q)' /\ n + 2 \in Places(q)'
              /\ At(q, n + 1)' = Message("Switch", current[q], current[q], <<>>)
              /\ At(q, n + 2)' = Message("Dummy", c, NoChunk, <<>>)
         /\ n \in Nat /\ Places(q) = 0..n /\ Len(ms) \in Nat
<1> DEFINE sw == Message("Switch", current[q], current[q], <<>>)
           du == Message("Dummy", c, NoChunk, <<>>)
<1>0. TypeOK
  BY DEF IInv
<1>1. /\ n \in Nat /\ Places(q) = 0..n /\ Len(ms) \in Nat
      /\ Added(q, c) \in {0, 2} /\ (c # current[q] => Added(q, c) = 2)
      /\ (c = current[q] => Added(q, c) = 0)
  BY <1>0, PlaceFacts DEF Places, Added
<1>2. /\ \A p \in Queues : p # q => unread'[p] = unread[p]
      /\ Len(unread'[q]) = n + Added(q, c) + Len(ms)
      /\ \A i \in 1..n : unread'[q][i] = unread[q][i]
      /\ c # current[q] => unread'[q][n + 1] = sw /\ unread'[q][n + 2] = du
      /\ \A i \in 1..Len(ms) : unread'[q][n + Added(q, c) + i] = ms[i]
  BY <1>0, EnterEffects
<1> HIDE DEF sw, du
<1>3. Places(q)' = 0..(n + Added(q, c) + Len(ms))
  BY <1>2 DEF Places
<1>4. /\ At(q, 0)' = At(q, 0)
      /\ \A k \in 1..(n + Added(q, c) + Len(ms)) : At(q, k)' = unread'[q][k]
      /\ \A k \in 1..n : At(q, k)' = At(q, k)
  <2>1. At(q, 0)' = At(q, 0)
    BY DEF At
  <2>2. ASSUME NEW k \in 1..(n + Added(q, c) + Len(ms)) PROVE At(q, k)' = unread'[q][k]
    BY <1>1 DEF At
  <2>3. ASSUME NEW k \in 1..n PROVE At(q, k)' = At(q, k)
    BY <1>1, <1>2 DEF At
  <2>4. QED
    BY <2>1, <2>2, <2>3
<1>5. ASSUME NEW p \in Queues, p # q
      PROVE  Places(p)' = Places(p) /\ \A k : At(p, k)' = At(p, k)
  BY <1>2, <1>5 DEF Places, At
<1>6. \A p \in Queues : \A k \in Places(p) : k \in Places(p)' /\ At(p, k)' = At(p, k)
  <2>1. \A k \in Places(q) : k \in Places(q)' /\ At(q, k)' = At(q, k)
    BY <1>1, <1>3, <1>4
  <2>2. QED
    BY <1>5, <2>1
<1>7. ASSUME c # current[q]
      PROVE  n + 1 \in Places(q)' /\ n + 2 \in Places(q)' /\ At(q, n + 1)' = sw /\ At(q, n + 2)' = du
  <2>1. n + 1 \in 1..(n + Added(q, c) + Len(ms)) /\ n + 2 \in 1..(n + Added(q, c) + Len(ms))
    BY <1>1, <1>7
  <2>2. QED
    <3>1. n + 1 \in Places(q)' /\ n + 2 \in Places(q)'
      BY <1>1, <1>3, <2>1
    <3>2. At(q, n + 1)' = unread'[q][n + 1] /\ At(q, n + 2)' = unread'[q][n + 2]
      BY <1>4, <2>1
    <3>3. QED
      BY <1>2, <1>7, <3>1, <3>2
<1>8. ASSUME NEW k \in Places(q)'
      PROVE  \/ k \in Places(q)
             \/ c # current[q] /\ k = n + 1 /\ At(q, k)' = sw
             \/ c # current[q] /\ k = n + 2 /\ At(q, k)' = du
             \/ \E i \in 1..Len(ms) : k = n + Added(q, c) + i /\ At(q, k)' = ms[i]
  <2>0. /\ k \in Nat /\ k <= n + Added(q, c) + Len(ms)
        /\ n \in Nat /\ Added(q, c) \in Nat /\ Len(ms) \in Nat
    BY <1>1, <1>3
  <2>1. k \in Places(q) \/ (c # current[q] /\ k \in {n + 1, n + 2}) \/ k > n + Added(q, c)
    <3>1. CASE c = current[q]
      BY <1>1, <2>0, <3>1
    <3>2. CASE c # current[q]
      BY <1>1, <2>0, <3>2
    <3>3. QED
      BY <3>1, <3>2
  <2>2. CASE k > n + Added(q, c)
    <3>1. PICK i \in 1..Len(ms) : k = n + Added(q, c) + i
      <4>1. k - (n + Added(q, c)) \in 1..Len(ms)
        BY <2>0, <2>2
      <4>2. k = n + Added(q, c) + (k - (n + Added(q, c)))
        BY <2>0
      <4>3. QED
        BY <4>1, <4>2
    <3>2. k \in 1..(n + Added(q, c) + Len(ms))
      BY <1>1, <3>1
    <3>3. QED
      BY <1>2, <1>4, <3>1, <3>2
  <2>3. QED
    BY <1>7, <2>1, <2>2
<1>9. QED
  BY <1>1, <1>5, <1>6, <1>7, <1>8 DEF sw, du

LEMMA EnterLeaves ==
  ASSUME IInv, NEW q \in Queues, NEW c \in Room(q), NEW ms \in Seq(MessageType),
         Enter(q, c, ms), UNCHANGED executing, Fresh(q, c, ms), NEW n, n = Len(unread[q])
  PROVE  /\ \A p \in Queues : \A b : \A k \in Places(p)' :
              Leaves(p, k, b)' <=>
                \/ k \in Places(p) /\ Leaves(p, k, b)
                \/ p = q /\ c # current[q] /\ k = n + 1 /\ b = current[q]
         /\ \A p \in Queues : \A b : \A k \in Places(p) : Holds(p, k, b) => Holds(p, k, b)'
<1>0. TypeOK /\ QueueAssumption
  BY QueueAssumption, ChunkAssumption DEF IInv
<1>1. /\ \A p \in Queues : \A k \in Places(p) : k \in Places(p)' /\ At(p, k)' = At(p, k)
      /\ \A p \in Queues : \A k \in Places(p)' :
           \/ k \in Places(p)
           \/ /\ p = q /\ c # current[q] /\ k = n + 1
              /\ At(q, k)' = Message("Switch", current[q], current[q], <<>>)
           \/ /\ p = q /\ c # current[q] /\ k = n + 2
              /\ At(q, k)' = Message("Dummy", c, NoChunk, <<>>)
           \/ /\ p = q
              /\ \E i \in 1..Len(ms) : k = n + Added(q, c) + i /\ At(q, k)' = ms[i]
      /\ c # current[q] =>
           /\ n + 1 \in Places(q)' /\ n + 2 \in Places(q)'
           /\ At(q, n + 1)' = Message("Switch", current[q], current[q], <<>>)
           /\ At(q, n + 2)' = Message("Dummy", c, NoChunk, <<>>)
      /\ n \in Nat /\ Places(q) = 0..n /\ Len(ms) \in Nat
  BY EnterPlaces
<1>2. /\ c \in Chunks /\ current[q] \in Chunks /\ current'[q] = c
      /\ \A p \in Queues : p # q => current'[p] = current[p]
      /\ \A k \in 1..Len(ms) : ms[k].kind # "Switch"
  <2>1. \A k \in 1..Len(ms) : ms[k].kind # "Switch"
    BY DEF Fresh
  <2>2. c \in Chunks /\ current'[q] = c /\ \A p \in Queues : p # q => current'[p] = current[p]
    BY <1>0 DEF Enter, Room, TypeOK
  <2>3. QED
    BY <1>0, <2>1, <2>2 DEF TypeOK
<1>3. /\ Message("Switch", current[q], current[q], <<>>).kind = "Switch"
      /\ Message("Switch", current[q], current[q], <<>>).block = current[q]
      /\ Message("Dummy", c, NoChunk, <<>>).kind = "Dummy"
  BY DEF Message
<1>4. ASSUME NEW p \in Queues, NEW b, NEW k \in Places(p)'
      PROVE  Leaves(p, k, b)' <=>
               \/ k \in Places(p) /\ Leaves(p, k, b)
               \/ p = q /\ c # current[q] /\ k = n + 1 /\ b = current[q]
  <2>1. CASE k \in Places(p)
    <3>1. ~(p = q /\ k = n + 1)
      BY <1>1, <2>1
    <3>2. QED
      BY <1>1, <2>1, <3>1 DEF Leaves
  <2>2. CASE k \notin Places(p)
    <3>1. \/ p = q /\ c # current[q] /\ k = n + 1
             /\ At(q, k)' = Message("Switch", current[q], current[q], <<>>)
          \/ p = q /\ c # current[q] /\ k = n + 2 /\ At(q, k)' = Message("Dummy", c, NoChunk, <<>>)
          \/ p = q /\ \E i \in 1..Len(ms) : k = n + Added(q, c) + i /\ At(q, k)' = ms[i]
      BY <1>1, <2>2
    <3>2. CASE p = q /\ c # current[q] /\ k = n + 1
               /\ At(q, k)' = Message("Switch", current[q], current[q], <<>>)
      BY <1>3, <2>2, <3>2 DEF Leaves
    <3>3. CASE p = q /\ c # current[q] /\ k = n + 2 /\ At(q, k)' = Message("Dummy", c, NoChunk, <<>>)
      <4>1. k # n + 1
        BY <1>1, <3>3
      <4>2. QED
        BY <1>3, <2>2, <3>3, <4>1 DEF Leaves
    <3>4. CASE p = q /\ \E i \in 1..Len(ms) : k = n + Added(q, c) + i /\ At(q, k)' = ms[i]
      <4>1. PICK i \in 1..Len(ms) : k = n + Added(q, c) + i /\ At(q, k)' = ms[i]
        BY <3>4
      <4>2. c # current[q] => k # n + 1
        BY <1>1, <4>1 DEF Added
      <4>3. ~Leaves(p, k, b)'
        BY <1>2, <3>4, <4>1 DEF Leaves
      <4>4. QED
        BY <2>2, <4>2, <4>3
    <3>5. QED
      BY <3>1, <3>2, <3>3, <3>4
  <2>3. QED
    BY <2>1, <2>2
<1>5. ASSUME NEW p \in Queues, NEW b, NEW k \in Places(p), Holds(p, k, b)
      PROVE  Holds(p, k, b)'
  <2>1. CASE b = current[p] /\ p = q /\ c # current[q]
    <3>1. n + 1 \in Places(q)' /\ k <= n + 1 /\ Leaves(q, n + 1, b)'
      BY <1>1, <1>3, <2>1 DEF Leaves
    <3>2. QED
      BY <2>1, <3>1 DEF Holds
  <2>2. CASE b = current[p] /\ ~(p = q /\ c # current[q])
    BY <1>2, <2>2 DEF Holds
  <2>3. ASSUME NEW j \in Places(p), k <= j, Leaves(p, j, b) PROVE Holds(p, k, b)'
    BY <1>1, <1>4, <2>3 DEF Holds
  <2>4. QED
    BY <1>5, <2>1, <2>2, <2>3 DEF Holds
<1>6. QED
  BY <1>4, <1>5

LEMMA EnterKeeps ==
  ASSUME IInv, NEW q \in Queues, NEW c \in Room(q), NEW ms \in Seq(MessageType),
         Enter(q, c, ms), Fresh(q, c, ms), UNCHANGED <<last, executing, dPc, todo, begun>>
  PROVE  /\ WritersApart' /\ Device' /\ Shapes' /\ Leaving' /\ Lying' /\ Pointing' /\ Linking'
<1>0. /\ TypeOK /\ WritersApart /\ Device /\ Shapes /\ Leaving /\ Lying /\ Pointing /\ Linking
  BY DEF IInv
<1>n. PICK n : n = Len(unread[q])
  OBVIOUS
<1>o. PICK old : old = current[q]
  OBVIOUS
<1>1. /\ \A p \in Queues : \A k \in Places(p) : k \in Places(p)' /\ At(p, k)' = At(p, k)
      /\ \A p \in Queues : \A k \in Places(p)' :
           \/ k \in Places(p)
           \/ /\ p = q /\ c # current[q] /\ k = n + 1
              /\ At(q, k)' = Message("Switch", current[q], current[q], <<>>)
           \/ /\ p = q /\ c # current[q] /\ k = n + 2
              /\ At(q, k)' = Message("Dummy", c, NoChunk, <<>>)
           \/ /\ p = q
              /\ \E i \in 1..Len(ms) : k = n + Added(q, c) + i /\ At(q, k)' = ms[i]
      /\ c # current[q] =>
           /\ n + 1 \in Places(q)' /\ n + 2 \in Places(q)'
           /\ At(q, n + 1)' = Message("Switch", current[q], current[q], <<>>)
           /\ At(q, n + 2)' = Message("Dummy", c, NoChunk, <<>>)
      /\ n \in Nat /\ Places(q) = 0..n /\ Len(ms) \in Nat
  BY <1>n, EnterPlaces
<1>2. /\ \A p \in Queues : \A b : \A k \in Places(p)' :
           Leaves(p, k, b)' <=>
             \/ k \in Places(p) /\ Leaves(p, k, b)
             \/ p = q /\ c # current[q] /\ k = n + 1 /\ b = current[q]
      /\ \A p \in Queues : \A b : \A k \in Places(p) : Holds(p, k, b) => Holds(p, k, b)'
  BY <1>n, EnterLeaves
<1>3. /\ c \in Chunks /\ (c # current[q] => chunk[c] = "free")
      /\ \A p \in Queues : p # q => current'[p] = current[p]
      /\ current'[q] = c /\ chunk'[c] = "used"
      /\ \A b \in Chunks : b # c => chunk'[b] = chunk[b]
      /\ \A p \in Queues : current[p] \in Chunks /\ 0 \in Places(p) /\ Places(p) \subseteq Nat
  BY <1>0, EnterEffects, PlaceFacts DEF TypeOK
<1>4. \A p \in Queues : p # q => current[p] # c
  BY <1>0, <1>3 DEF Leaving, WritersApart
<1>5. \A p \in Queues : (Running(p)' <=> Running(p))
  BY DEF Running
<1>6. WritersApart'
  BY <1>0, <1>3, <1>4 DEF WritersApart
<1>7. Device'
  BY <1>0, <1>5 DEF Device, Queues
<1>8. Leaving'
  <2>1. \A p \in Queues : chunk'[current'[p]] = "used"
    BY <1>0, <1>3, <1>4 DEF Leaving
  <2>2. ASSUME NEW p \in Queues, NEW b \in Chunks, NEW k \in Places(p)', Leaves(p, k, b)'
        PROVE  /\ chunk'[b] = "used"
               /\ \A r \in Queues : current'[r] # b
               /\ \A r \in Queues : \A l \in Places(r)' : Leaves(r, l, b)' => r = p /\ l = k
    <3>1. CASE k \in Places(p) /\ Leaves(p, k, b)
      <4>1. /\ chunk[b] = "used" /\ \A r \in Queues : current[r] # b
            /\ \A r \in Queues : \A l \in Places(r) : Leaves(r, l, b) => r = p /\ l = k
        BY <1>0, <3>1 DEF Leaving
      <4>2. b # c
        BY <1>3, <4>1
      <4>3. QED
        BY <1>2, <1>3, <4>1, <4>2
    <3>2. CASE p = q /\ c # current[q] /\ k = n + 1 /\ b = current[q]
      <4>1. chunk[b] = "used" /\ b # c /\ \A r \in Queues : r # q => current[r] # b
        BY <1>0, <3>2 DEF Leaving, WritersApart
      <4>2. \A r \in Queues : \A l \in Places(r) : ~Leaves(r, l, b)
        BY <1>0, <3>2 DEF Leaving
      <4>3. QED
        BY <1>2, <1>3, <3>2, <4>1, <4>2
    <3>3. QED
      BY <1>2, <2>2, <3>1, <3>2
  <2>3. QED
    BY <2>1, <2>2 DEF Leaving
<1>9. ASSUME NEW k \in Places(q)', k \notin Places(q)
      PROVE  /\ Shape(q, k)' /\ Holds(q, k, At(q, k).chunk)'
             /\ Points(q, k)' => Holds(q, k, At(q, k).block)' \/ JustLeft(q, k, At(q, k).block)'
  <2>0. Holds(q, k, c)' /\ k # 0
    BY <1>3, <1>9 DEF Holds
  <2>1. CASE /\ c # current[q] /\ k = n + 1
             /\ At(q, k)' = Message("Switch", current[q], current[q], <<>>)
    <3>1. LET m == At(q, k)'
          IN  /\ m \in MessageType /\ m.kind = "Switch"
              /\ m.chunk = current[q] /\ m.block = current[q]
      BY <1>3, <2>1, MessageTypes DEF Kinds
    <3>2. k + 1 = n + 2 /\ k + 1 \in Places(q)' /\ At(q, k + 1)' = Message("Dummy", c, NoChunk, <<>>)
      BY <1>1, <2>1
    <3>3. At(q, k + 1)'.kind = "Dummy"
      BY <3>2 DEF Message
    <3>4. Leaves(q, k, old)' /\ k <= k
      BY <1>o, <1>1, <1>3, <1>9, <2>1, <3>1 DEF Leaves
    <3>5. Holds(q, k, old)' /\ At(q, k)'.chunk = old
      BY <1>o, <1>9, <3>1, <3>4 DEF Holds
    <3>6. QED
      BY <1>3, <1>9, <3>1, <3>2, <3>3, <3>5 DEF Shape, Points, Holds
  <2>2. CASE c # current[q] /\ k = n + 2 /\ At(q, k)' = Message("Dummy", c, NoChunk, <<>>)
    <3>1. LET m == At(q, k)' IN m \in MessageType /\ m.kind = "Dummy" /\ m.chunk = c
      <4>1. Message("Dummy", c, NoChunk, <<>>) \in MessageType
        BY <1>3, MessageTypes DEF Kinds
      <4>2. /\ Message("Dummy", c, NoChunk, <<>>).kind = "Dummy"
            /\ Message("Dummy", c, NoChunk, <<>>).chunk = c
        BY DEF Message
      <4>3. QED
        BY <2>2, <4>1, <4>2
    <3>2. QED
      BY <2>0, <3>1 DEF Shape, Points, Holds
  <2>3. ASSUME NEW i \in 1..Len(ms), k = n + Added(q, c) + i, At(q, k)' = ms[i]
        PROVE  /\ Shape(q, k)' /\ Holds(q, k, At(q, k).chunk)'
               /\ Points(q, k)' => Holds(q, k, At(q, k).block)' \/ JustLeft(q, k, At(q, k).block)'
    <3>1. /\ ms[i] \in MessageType /\ ms[i].chunk = c
          /\ ms[i].kind \in {"Plain", "Free", "Finish", "Flush"}
          /\ ms[i].kind \in {"Plain", "Flush"} => i = 1 /\ ms[i].block = current[q]
          /\ ms[i].kind = "Flush" => q = main /\ ms[i].cmdBuffs \in FlushLists
      BY DEF Fresh
    <3>2. Shape(q, k)'
      BY <1>3, <2>3, <3>1 DEF Shape
    <3>3. Holds(q, k, At(q, k).chunk)'
      BY <2>0, <2>3, <3>1
    <3>4. ASSUME Points(q, k)'
          PROVE  Holds(q, k, At(q, k).block)' \/ JustLeft(q, k, At(q, k).block)'
      <4>1. i = 1 /\ ms[i].block = current[q]
        BY <2>3, <3>1, <3>4 DEF Points
      <4>2. CASE c = current[q]
        BY <2>0, <2>3, <4>1, <4>2
      <4>3. CASE c # current[q]
        <5>1. k = n + 3 /\ k >= 2 /\ k - 1 = n + 2 /\ k - 2 = n + 1
          BY <1>1, <2>3, <4>1, <4>3 DEF Added
        <5>2. At(q, k - 1)'.kind = "Dummy"
          BY <1>1, <4>3, <5>1 DEF Message
        <5>3. Leaves(q, k - 2, old)'
          BY <1>o, <1>1, <4>3, <5>1 DEF Leaves, Message
        <5>4. JustLeft(q, k, old)' /\ At(q, k)'.block = old
          BY <1>o, <2>3, <4>1, <5>1, <5>2, <5>3 DEF JustLeft
        <5>5. QED
          BY <5>4 DEF JustLeft, Leaves
      <4>4. QED
        BY <4>2, <4>3
    <3>5. QED
      BY <3>2, <3>3, <3>4
  <2>4. QED
    BY <1>1, <1>9, <2>1, <2>2, <2>3
<1>10. Shapes'
  <2>1. ASSUME NEW p \in Queues, NEW k \in Places(p) PROVE Shape(p, k)'
    BY <1>0, <1>1, <2>1 DEF Shapes, Shape
  <2>2. QED
    BY <1>1, <1>9, <2>1 DEF Shapes
<1>11. Lying'
  <2>1. ASSUME NEW p \in Queues, NEW k \in Places(p), At(p, k)'.kind # "None"
        PROVE  Holds(p, k, At(p, k).chunk)'
    BY <1>0, <1>1, <1>2, <2>1 DEF Lying
  <2>2. QED
    BY <1>1, <1>9, <2>1 DEF Lying
<1>12. Pointing'
  <2>1. ASSUME NEW p \in Queues, NEW k \in Places(p), Points(p, k)'
        PROVE  Holds(p, k, At(p, k).block)' \/ JustLeft(p, k, At(p, k).block)'
    <3>1. Points(p, k) /\ At(p, k)' = At(p, k)
      BY <1>1, <2>1 DEF Points
    <3>2. PICK b : b = At(p, k).block
      OBVIOUS
    <3>3. At(p, k).block' = b
      BY <3>1, <3>2
    <3>4. ASSUME JustLeft(p, k, b) PROVE JustLeft(p, k, b)'
      <4>1. CASE k >= 2 /\ At(p, k - 1).kind = "Dummy" /\ Leaves(p, k - 2, b)
        <5>1. k - 1 \in Places(p) /\ k - 2 \in Places(p)
          BY <1>3, <4>1 DEF Places
        <5>2. QED
          BY <1>1, <1>2, <4>1, <5>1 DEF JustLeft
      <4>2. CASE /\ chunk[b] = "stashed" /\ Running(p)
                 /\ k \in 0..2
                 /\ k = 2 => At(p, 1).kind = "Dummy"
                 /\ k >= 1 => At(p, 0).kind \in {"None", "Dummy"}
        <5>1. b \in Chunks /\ b # c
          <6>1. Shape(p, k)
            BY <1>0 DEF Shapes
          <6>2. b \in Chunks
            BY <3>1, <3>2, <6>1 DEF Shape, Points
          <6>3. QED
            BY <1>0, <1>3, <4>2, <6>2 DEF Leaving
        <5>2. chunk'[b] = "stashed" /\ Running(p)'
          BY <1>3, <1>5, <4>2, <5>1
        <5>3. k = 2 => At(p, 1)'.kind = "Dummy"
          <6>1. k = 2 => 1 \in Places(p)
            BY <1>3 DEF Places
          <6>2. QED
            BY <1>1, <4>2, <6>1
        <5>4. k >= 1 => At(p, 0)'.kind \in {"None", "Dummy"}
          BY <1>1, <1>3, <4>2
        <5>5. QED
          BY <4>2, <5>2, <5>3, <5>4 DEF JustLeft
      <4>3. QED
        BY <3>4, <4>1, <4>2 DEF JustLeft
    <3>5. Holds(p, k, b) \/ JustLeft(p, k, b)
      BY <1>0, <3>1, <3>2 DEF Pointing
    <3>6. Holds(p, k, b)' \/ JustLeft(p, k, b)'
      BY <1>2, <3>4, <3>5
    <3>7. QED
      BY <3>1, <3>2, <3>6 DEF Holds, JustLeft, Leaves
  <2>2. QED
    BY <1>1, <1>9, <2>1 DEF Pointing
<1>13. Linking'
  <2>1. ASSUME NEW p \in Queues PROVE Holds(p, 0, last[p])' \/ LastLeft(p)'
    <3>1. CASE Holds(p, 0, last[p])
      BY <1>2, <1>3, <3>1 DEF Holds
    <3>2. CASE LastLeft(p)
      <4>1. last[p] \in Chunks /\ last[p] # c
        BY <1>0, <1>3, <3>2 DEF TypeOK, LastLeft, Leaving
      <4>2. QED
        BY <1>1, <1>3, <1>5, <3>2, <4>1 DEF LastLeft
    <3>3. QED
      BY <1>0, <3>1, <3>2 DEF Linking
  <2>2. QED
    BY <2>1 DEF Linking
<1>14. QED
  BY <1>6, <1>7, <1>8, <1>10, <1>11, <1>12, <1>13

-----------------------------------------------------------------------------
(* A consumer takes a message.                                             *)

LEMMA TakePlaces ==
  ASSUME IInv, NEW q \in Queues, Take(q), UNCHANGED <<current, chunk>>
  PROVE  /\ 1 \in Places(q) /\ At(q, 0).kind = "None" /\ last'[q] = At(q, 1).chunk
         /\ \A k \in Places(q)' : k \in Nat /\ k + 1 \in Places(q) /\ At(q, k)' = At(q, k + 1)
         /\ \A k \in Places(q) : k # 0 => k - 1 \in Places(q)'
         /\ \A k \in Places(q)' : \A b : Leaves(q, k, b)' <=> Leaves(q, k + 1, b)
         /\ \A k \in Places(q)' : \A b : Holds(q, k + 1, b) => Holds(q, k, b)'
         /\ \A p \in Queues : p # q =>
              unread'[p] = unread[p] /\ executing'[p] = executing[p] /\ last'[p] = last[p]
         /\ unread' \in [Queues -> Seq(MessageType)] /\ executing' \in [Queues -> MessageType]
         /\ last' \in [Queues -> Chunks]
         /\ Len(unread'[q]) = Len(unread[q]) - 1
<1>0. TypeOK /\ Shapes /\ Lying
  BY DEF IInv
<1>n. PICK n : n = Len(unread[q])
  OBVIOUS
<1>1. /\ unread[q] \in Seq(MessageType) /\ unread[q] # <<>> /\ n \in Nat /\ n >= 1
      /\ executing[q] = NoMessage
  BY <1>0, <1>n DEF Take, TypeOK
<1>2. /\ unread'[q] = Tail(unread[q]) /\ executing'[q] = unread[q][1]
      /\ last'[q] = unread[q][1].chunk
  BY <1>0, <1>1 DEF Take, TypeOK
<1>3. /\ Tail(unread[q]) \in Seq(MessageType) /\ Len(Tail(unread[q])) = n - 1
      /\ \A k \in 1..(n - 1) : Tail(unread[q])[k] = unread[q][k + 1]
      /\ unread[q][1] \in MessageType
  BY <1>n, <1>1
<1>4. Places(q) = 0..n /\ Places(q)' = 0..(n - 1) /\ 1 \in Places(q)
  BY <1>n, <1>1, <1>2, <1>3 DEF Places
<1>5. ASSUME NEW k \in Places(q)'
      PROVE  k \in Nat /\ k + 1 \in Places(q) /\ At(q, k)' = At(q, k + 1)
  <2>1. k \in Nat /\ k + 1 \in Places(q) /\ k + 1 # 0
    BY <1>1, <1>4
  <2>2. CASE k = 0
    <3>1. At(q, 0)' = unread[q][1]
      BY <1>2 DEF At
    <3>2. At(q, 1) = unread[q][1]
      BY DEF At
    <3>3. k + 1 = 1
      BY <2>2
    <3>4. QED
      BY <2>1, <2>2, <3>1, <3>2, <3>3
  <2>3. CASE k # 0
    BY <1>2, <1>3, <1>4, <2>1, <2>3 DEF At
  <2>4. QED
    BY <2>1, <2>2, <2>3
<1>6. \A k \in Places(q) : k # 0 => k - 1 \in Places(q)' /\ (k - 1) + 1 = k
  BY <1>1, <1>4
<1>7. ASSUME NEW k \in Places(q)', NEW b PROVE Leaves(q, k, b)' <=> Leaves(q, k + 1, b)
  BY <1>5 DEF Leaves
<1>8. ASSUME NEW k \in Places(q)', NEW b, Holds(q, k + 1, b) PROVE Holds(q, k, b)'
  <2>1. CASE b = current[q]
    BY <2>1 DEF Holds
  <2>2. ASSUME NEW j \in Places(q), k + 1 <= j, Leaves(q, j, b) PROVE Holds(q, k, b)'
    <3>1. j # 0 /\ k <= j - 1
      BY <1>1, <1>4, <1>5, <2>2
    <3>2. j - 1 \in Places(q)' /\ Leaves(q, j - 1, b)'
      BY <1>6, <1>7, <2>2, <3>1
    <3>3. QED
      BY <3>1, <3>2 DEF Holds
  <2>3. QED
    BY <1>8, <2>1, <2>2 DEF Holds
<1>9. At(q, 1).chunk \in Chunks
  <2>1. Shape(q, 1) /\ (At(q, 1).kind # "None" => Holds(q, 1, At(q, 1).chunk))
    BY <1>0, <1>4 DEF Shapes, Lying
  <2>2. At(q, 1).kind # "None" /\ Holds(q, 1, At(q, 1).chunk)
    BY <2>1 DEF Shape
  <2>3. ASSUME NEW j \in Places(q), Leaves(q, j, At(q, 1).chunk)
        PROVE  At(q, 1).chunk \in Chunks
    BY <1>0, <2>3 DEF Shapes, Shape, Leaves
  <2>4. QED
    BY <1>0, <2>2, <2>3 DEF Holds, TypeOK
<1>10. last'[q] = At(q, 1).chunk /\ At(q, 0).kind = "None"
  BY <1>1, <1>2, NoMessageFacts DEF At
<1>11. /\ \A p \in Queues : p # q =>
            unread'[p] = unread[p] /\ executing'[p] = executing[p] /\ last'[p] = last[p]
       /\ unread' \in [Queues -> Seq(MessageType)] /\ executing' \in [Queues -> MessageType]
  BY <1>0, <1>1, <1>2, <1>3 DEF Take, TypeOK
<1>12. last' \in [Queues -> Chunks]
  BY <1>0, <1>2, <1>9, <1>10 DEF Take, TypeOK
<1>13. QED
  BY <1>n, <1>2, <1>3, <1>4, <1>5, <1>6, <1>7, <1>8, <1>10, <1>11, <1>12

LEMMA TakeKeeps ==
  ASSUME IInv, NEW q \in Queues, Take(q), Running(q), q = main => dPc = "main",
         UNCHANGED <<current, chunk, dPc, todo, begun>>
  PROVE  /\ WritersApart' /\ Device' /\ Shapes' /\ Leaving' /\ Lying' /\ Pointing' /\ Linking'
<1>0. /\ TypeOK /\ WritersApart /\ Device /\ Shapes /\ Leaving /\ Lying /\ Pointing /\ Linking
  BY DEF IInv
<1>1. /\ 1 \in Places(q) /\ At(q, 0).kind = "None" /\ last'[q] = At(q, 1).chunk
      /\ \A k \in Places(q)' : k \in Nat /\ k + 1 \in Places(q) /\ At(q, k)' = At(q, k + 1)
      /\ \A k \in Places(q) : k # 0 => k - 1 \in Places(q)'
      /\ \A k \in Places(q)' : \A b : Leaves(q, k, b)' <=> Leaves(q, k + 1, b)
      /\ \A k \in Places(q)' : \A b : Holds(q, k + 1, b) => Holds(q, k, b)'
      /\ \A p \in Queues : p # q =>
           unread'[p] = unread[p] /\ executing'[p] = executing[p] /\ last'[p] = last[p]
  BY TakePlaces
<1>2. \A p \in Queues : p # q =>
        /\ Places(p)' = Places(p) /\ \A k : At(p, k)' = At(p, k)
        /\ \A k, b : (Leaves(p, k, b)' <=> Leaves(p, k, b)) /\ (Holds(p, k, b)' <=> Holds(p, k, b))
  BY <1>1, SameQueue
<1>3. \A p \in Queues : Running(p)' <=> Running(p)
  <2>1. CASE q = main
    BY <2>1 DEF Running
  <2>2. CASE q # main
    <3>1. executing'[main] = executing[main]
      BY <1>1, <2>2 DEF Queues
    <3>2. QED
      BY <3>1 DEF Running
  <2>3. QED
    BY <2>1, <2>2
<1>4. WritersApart'
  BY <1>0 DEF WritersApart
<1>5. Device'
  <2>1. ASSUME NEW p \in CmdBuffs, executing'[p].kind # "None" PROVE Running(p)'
    <3>1. p \in Queues
      BY DEF Queues
    <3>2. CASE p = q
      BY <1>3, <3>1, <3>2
    <3>3. CASE p # q
      BY <1>0, <1>1, <1>3, <2>1, <3>1, <3>3 DEF Device
    <3>4. QED
      BY <3>2, <3>3
  <2>2. dPc = "flush" => executing'[main] = executing[main]
    BY <1>1 DEF Queues
  <2>3. QED
    BY <1>0, <2>1, <2>2 DEF Device
<1>6. Shapes'
  <2>1. ASSUME NEW k \in Places(q)' PROVE Shape(q, k)'
    <3>1. Shape(q, k + 1) /\ At(q, k)' = At(q, k + 1) /\ k \in Nat /\ k + 1 # 0
      BY <1>0, <1>1 DEF Shapes
    <3>2. At(q, k)'.kind # "None"
      BY <3>1 DEF Shape
    <3>3. ASSUME At(q, k)'.kind = "Switch"
          PROVE  k + 1 \in Places(q)' /\ At(q, k + 1)'.kind = "Dummy"
      <4>1. (k + 1) + 1 \in Places(q) /\ At(q, (k + 1) + 1).kind = "Dummy"
        BY <3>1, <3>3 DEF Shape
      <4>2. (k + 1) + 1 # 0 /\ ((k + 1) + 1) - 1 = k + 1
        BY <3>1
      <4>3. k + 1 \in Places(q)'
        BY <1>1, <4>1, <4>2
      <4>4. QED
        BY <1>1, <4>1, <4>3
    <3>4. QED
      BY <3>1, <3>2, <3>3 DEF Shape
  <2>2. ASSUME NEW p \in Queues, p # q, NEW k \in Places(p)' PROVE Shape(p, k)'
    BY <1>0, <1>2, <2>2 DEF Shapes, Shape
  <2>3. QED
    BY <2>1, <2>2 DEF Shapes
<1>7. Leaving'
  <2>1. ASSUME NEW p \in Queues, NEW b, NEW k \in Places(p)', Leaves(p, k, b)'
        PROVE  IF p = q THEN k + 1 \in Places(p) /\ Leaves(p, k + 1, b)
                        ELSE k \in Places(p) /\ Leaves(p, k, b)
    BY <1>1, <1>2, <2>1
  <2>2. ASSUME NEW p \in Queues, NEW b \in Chunks, NEW k \in Places(p)', Leaves(p, k, b)'
        PROVE  /\ chunk[b] = "used" /\ \A r \in Queues : current[r] # b
               /\ \A r \in Queues : \A l \in Places(r)' : Leaves(r, l, b)' => r = p /\ l = k
    <3>1. PICK x \in Places(p) : Leaves(p, x, b) /\ x = (IF p = q THEN k + 1 ELSE k)
      BY <2>1, <2>2
    <3>2. /\ chunk[b] = "used" /\ \A r \in Queues : current[r] # b
          /\ \A r \in Queues : \A l \in Places(r) : Leaves(r, l, b) => r = p /\ l = x
      BY <1>0, <3>1 DEF Leaving
    <3>3. ASSUME NEW r \in Queues, NEW l \in Places(r)', Leaves(r, l, b)'
          PROVE  r = p /\ l = k
      <4>1. PICK y \in Places(r) : Leaves(r, y, b) /\ y = (IF r = q THEN l + 1 ELSE l)
        BY <2>1, <3>3
      <4>2. r = p /\ y = x
        BY <3>2, <4>1
      <4>3. r = q => l \in Nat /\ k \in Nat
        BY <1>1, <4>2
      <4>4. QED
        BY <3>1, <4>1, <4>2, <4>3
    <3>4. QED
      BY <3>2, <3>3
  <2>3. QED
    BY <1>0, <2>2 DEF Leaving
<1>8. Lying'
  <2>1. ASSUME NEW k \in Places(q)' PROVE Holds(q, k, At(q, k).chunk)'
    <3>1. At(q, k)' = At(q, k + 1) /\ k + 1 \in Places(q) /\ k + 1 # 0
      BY <1>1
    <3>2. Shape(q, k + 1)
      BY <1>0, <3>1 DEF Shapes
    <3>3. PICK b : b = At(q, k + 1).chunk
      OBVIOUS
    <3>4. Holds(q, k + 1, b)
      BY <1>0, <3>1, <3>2, <3>3 DEF Shape, Lying
    <3>5. Holds(q, k, b)' /\ At(q, k)'.chunk = b
      BY <1>1, <3>1, <3>3, <3>4
    <3>6. QED
      BY <3>5 DEF Holds, Leaves
  <2>2. ASSUME NEW p \in Queues, p # q, NEW k \in Places(p)', At(p, k)'.kind # "None"
        PROVE  Holds(p, k, At(p, k).chunk)'
    <3>1. Holds(p, k, At(p, k).chunk) /\ At(p, k)' = At(p, k)
      BY <1>0, <1>2, <2>2 DEF Lying
    <3>2. QED
      BY <1>2, <2>2, <3>1 DEF Holds
  <2>3. QED
    BY <2>1, <2>2 DEF Lying
<1>9. Pointing'
  <2>1. ASSUME NEW k \in Places(q)', Points(q, k)'
        PROVE  Holds(q, k, At(q, k).block)' \/ JustLeft(q, k, At(q, k).block)'
    <3>1. At(q, k)' = At(q, k + 1) /\ k + 1 \in Places(q) /\ k \in Nat
      BY <1>1
    <3>2. PICK b : b = At(q, k + 1).block
      OBVIOUS
    <3>3. Points(q, k + 1)
      BY <2>1, <3>1 DEF Points
    <3>4. Holds(q, k + 1, b) \/ JustLeft(q, k + 1, b)
      BY <1>0, <3>1, <3>2, <3>3 DEF Pointing
    <3>5. ASSUME JustLeft(q, k + 1, b) PROVE JustLeft(q, k, b)'
      <4>1. CASE k + 1 >= 2 /\ At(q, (k + 1) - 1).kind = "Dummy" /\ Leaves(q, (k + 1) - 2, b)
        <5>1. (k + 1) - 1 = k /\ (k + 1) - 2 = k - 1 /\ k >= 1
          BY <3>1, <4>1
        <5>2. k # 1
          BY <1>1, <4>1, <5>1 DEF Leaves
        <5>3. /\ k - 1 \in Places(q)' /\ k - 2 \in Places(q)' /\ k >= 2
              /\ (k - 1) + 1 = k /\ (k - 2) + 1 = k - 1
          <6>1. k - 1 # 0 /\ k # 0 /\ (k - 1) - 1 = k - 2 /\ (k - 1) + 1 = k /\ (k - 2) + 1 = k - 1
            BY <3>1, <5>1, <5>2
          <6>2. k \in Places(q) /\ k - 1 \in Places(q)
            BY <1>0, <3>1, <5>1, PlaceFacts DEF Places
          <6>3. QED
            BY <1>1, <3>1, <5>1, <5>2, <6>1, <6>2
        <5>4. At(q, k - 1)'.kind = "Dummy" /\ Leaves(q, k - 2, b)'
          BY <1>1, <4>1, <5>1, <5>3
        <5>5. QED
          BY <5>3, <5>4 DEF JustLeft
      <4>2. CASE /\ chunk[b] = "stashed" /\ Running(q)
                 /\ k + 1 \in 0..2
                 /\ k + 1 = 2 => At(q, 1).kind = "Dummy"
        <5>1. k \in 0..2 /\ k # 2 /\ (k >= 1 => k + 1 = 2)
          BY <3>1, <4>2
        <5>2. 0 \in Places(q)' /\ At(q, 0)' = At(q, 1)
          BY <1>0, <1>1, PlaceFacts
        <5>3. k >= 1 => At(q, 0)'.kind \in {"None", "Dummy"}
          BY <4>2, <5>1, <5>2
        <5>4. QED
          BY <1>3, <4>2, <5>1, <5>3 DEF JustLeft
      <4>3. QED
        BY <3>5, <4>1, <4>2 DEF JustLeft
    <3>6. Holds(q, k, b)' \/ JustLeft(q, k, b)'
      BY <1>1, <3>4, <3>5
    <3>7. QED
      BY <3>1, <3>2, <3>6 DEF Holds, JustLeft, Leaves
  <2>2. ASSUME NEW p \in Queues, p # q, NEW k \in Places(p)', Points(p, k)'
        PROVE  Holds(p, k, At(p, k).block)' \/ JustLeft(p, k, At(p, k).block)'
    <3>1. Points(p, k) /\ At(p, k)' = At(p, k) /\ k \in Places(p)
      BY <1>2, <2>2 DEF Points
    <3>2. PICK b : b = At(p, k).block
      OBVIOUS
    <3>3. Holds(p, k, b) \/ JustLeft(p, k, b)
      BY <1>0, <3>1, <3>2 DEF Pointing
    <3>4. Holds(p, k, b)' \/ JustLeft(p, k, b)'
      BY <1>2, <1>3, <2>2, <3>3 DEF JustLeft
    <3>5. QED
      BY <3>1, <3>2, <3>4 DEF Holds, JustLeft, Leaves
  <2>3. QED
    BY <2>1, <2>2 DEF Pointing
<1>10. Linking'
  <2>1. Holds(q, 0, last[q])'
    <3>1. 0 \in Places(q)' /\ At(q, 0)' = At(q, 1)
      BY <1>0, <1>1, PlaceFacts
    <3>2. Shape(q, 1)
      BY <1>0, <1>1 DEF Shapes
    <3>3. PICK b : b = At(q, 1).chunk
      OBVIOUS
    <3>4. Holds(q, 0 + 1, b)
      BY <1>0, <1>1, <3>2, <3>3 DEF Shape, Lying
    <3>5. Holds(q, 0, b)' /\ last'[q] = b
      BY <1>1, <3>1, <3>3, <3>4
    <3>6. QED
      BY <3>5 DEF Holds, Leaves
  <2>2. ASSUME NEW p \in Queues, p # q PROVE Holds(p, 0, last[p])' \/ LastLeft(p)'
    <3>1. last'[p] = last[p]
      BY <1>1, <2>2
    <3>2. QED
      BY <1>0, <1>2, <1>3, <2>2, <3>1 DEF Linking, LastLeft, Holds
  <2>3. QED
    BY <2>1, <2>2 DEF Linking
<1>11. QED
  BY <1>4, <1>5, <1>6, <1>7, <1>8, <1>9, <1>10

-----------------------------------------------------------------------------
(* A consumer executes a message other than a flush.                       *)

LEMMA ExecuteEffects ==
  ASSUME IInv, NEW q \in Queues, Execute(q), UNCHANGED <<unread, current>>
  PROVE  /\ executing[q].kind \notin {"None", "Flush"}
         /\ executing'[q] = NoMessage /\ \A p \in Queues : p # q => executing'[p] = executing[p]
         /\ executing' \in [Queues -> MessageType]
         /\ chunk' \in [Chunks -> {"free", "used", "stashed"}]
         /\ \A b \in Chunks : chunk[b] = "used" /\ ~Leaves(q, 0, b) => chunk'[b] = "used"
         /\ \A b \in Chunks : Leaves(q, 0, b) => chunk'[b] = "stashed"
         /\ executing[q].kind # "Free" => \A b \in Chunks : chunk[b] = "stashed" => chunk'[b] = "stashed"
<1>0. TypeOK /\ Shapes
  BY DEF IInv
<1>1. executing[q].kind \in Kinds \ {"None", "Flush"} /\ Effect(executing[q])
  BY DEF Execute
<1>2. 0 \in Places(q) /\ At(q, 0) = executing[q]
  BY <1>0, PlaceFacts
<1>3. /\ executing'[q] = NoMessage /\ \A p \in Queues : p # q => executing'[p] = executing[p]
      /\ executing' \in [Queues -> MessageType]
  BY <1>0, NoMessageFacts DEF Execute, TypeOK
<1>4. CASE executing[q].kind = "Switch"
  <2>1. executing[q].block \in Chunks /\ chunk' = [chunk EXCEPT ![executing[q].block] = "stashed"]
    BY <1>0, <1>1, <1>2, <1>4 DEF Shapes, Shape, Effect, Recycled
  <2>2. \A b : Leaves(q, 0, b) <=> b = executing[q].block
    BY <1>2, <1>4 DEF Leaves
  <2>3. QED
    BY <1>0, <1>1, <1>3, <1>4, <2>1, <2>2 DEF TypeOK
<1>5. CASE executing[q].kind = "Free"
  <2>1. chunk' = [c \in Chunks |-> IF chunk[c] = "stashed" THEN "free" ELSE chunk[c]]
    BY <1>1, <1>5 DEF Effect, Freed
  <2>2. \A b : ~Leaves(q, 0, b)
    BY <1>2, <1>5 DEF Leaves
  <2>3. QED
    BY <1>0, <1>1, <1>3, <1>5, <2>1, <2>2 DEF TypeOK
<1>6. CASE executing[q].kind \notin {"Switch", "Free"}
  <2>1. chunk' = chunk
    BY <1>1, <1>6 DEF Effect
  <2>2. \A b : ~Leaves(q, 0, b)
    BY <1>2, <1>6 DEF Leaves
  <2>3. QED
    BY <1>0, <1>1, <1>3, <2>1, <2>2 DEF TypeOK
<1>7. QED
  BY <1>4, <1>5, <1>6

LEMMA ExecuteKeeps ==
  ASSUME IInv, NEW q \in Queues, Execute(q), Running(q),
         q = main => dPc = "main" /\ todo' = todo,
         q # main => todo' = IF executing[q].kind = "Finish" THEN todo \ {1} ELSE todo,
         UNCHANGED <<unread, current, last, dPc, begun>>
  PROVE  /\ WritersApart' /\ Device' /\ Shapes' /\ Leaving' /\ Lying' /\ Pointing' /\ Linking'
<1>0. /\ TypeOK /\ WritersApart /\ Device /\ Shapes /\ Leaving /\ Lying /\ Pointing /\ Linking
  BY DEF IInv
<1>1. /\ executing[q].kind \notin {"None", "Flush"}
      /\ executing'[q] = NoMessage /\ \A p \in Queues : p # q => executing'[p] = executing[p]
      /\ \A b \in Chunks : chunk[b] = "used" /\ ~Leaves(q, 0, b) => chunk'[b] = "used"
      /\ \A b \in Chunks : Leaves(q, 0, b) => chunk'[b] = "stashed"
      /\ executing[q].kind # "Free" => \A b \in Chunks : chunk[b] = "stashed" => chunk'[b] = "stashed"
  BY ExecuteEffects
<1>2. /\ \A p \in Queues : 0 \in Places(p) /\ Places(p) \subseteq Nat /\ At(p, 0) = executing[p]
      /\ NoMessage.kind = "None" /\ NoMessage \in MessageType
  BY <1>0, PlaceFacts, NoMessageFacts
<1>3. /\ \A p \in Queues : Places(p)' = Places(p)
      /\ \A p \in Queues : \A k : p # q \/ k # 0 => At(p, k)' = At(p, k)
      /\ At(q, 0)' = NoMessage
  BY <1>1 DEF Places, At
<1>4. \A p \in Queues : \A k, b : Leaves(p, k, b)' <=> Leaves(p, k, b) /\ ~(p = q /\ k = 0)
  BY <1>2, <1>3 DEF Leaves
<1>5. ASSUME NEW p \in Queues, NEW k \in Places(p), NEW b, Holds(p, k, b)
      PROVE  Holds(p, k, b)' \/ (p = q /\ k = 0 /\ Leaves(q, 0, b))
  <2>1. CASE b = current[p]
    BY <2>1 DEF Holds
  <2>2. ASSUME NEW j \in Places(p), k <= j, Leaves(p, j, b)
        PROVE  Holds(p, k, b)' \/ (p = q /\ k = 0 /\ Leaves(q, 0, b))
    <3>1. CASE p = q /\ j = 0
      <4>1. k = 0
        BY <1>2, <2>2, <3>1
      <4>2. QED
        BY <2>2, <3>1, <4>1
    <3>2. CASE ~(p = q /\ j = 0)
      BY <1>3, <1>4, <2>2, <3>2 DEF Holds
    <3>3. QED
      BY <3>1, <3>2
  <2>3. QED
    BY <1>5, <2>1, <2>2 DEF Holds
<1>6. \A p \in Queues : Running(p) <=> p = q
  BY <1>0, OneRuns
<1>7. executing[q].kind # "Finish" => Running(q)'
  <2>1. CASE q = main
    BY <2>1 DEF Running
  <2>2. CASE q # main
    <3>1. executing'[main] = executing[main]
      BY <1>1, <2>2 DEF Queues
    <3>2. QED
      BY <2>2, <3>1 DEF Running
  <2>3. QED
    BY <2>1, <2>2
<1>8. WritersApart'
  BY <1>0 DEF WritersApart
<1>9. Device'
  <2>1. ASSUME NEW p \in CmdBuffs PROVE executing'[p].kind = "None"
    <3>1. p \in Queues
      BY DEF Queues
    <3>2. CASE p = q
      BY <1>1, <1>2, <3>2
    <3>3. CASE p # q
      BY <1>0, <1>1, <1>6, <3>1, <3>3 DEF Device
    <3>4. QED
      BY <3>2, <3>3
  <2>2. dPc = "flush" => q # main /\ executing'[main] = executing[main]
    BY <1>1 DEF Queues
  <2>3. todo' \subseteq todo
    BY <1>0
  <2>4. QED
    BY <1>0, <2>1, <2>2, <2>3 DEF Device
<1>10. Shapes'
  <2>1. ASSUME NEW p \in Queues, NEW k \in Places(p)', p # q \/ k # 0 PROVE Shape(p, k)'
    <3>1. Shape(p, k) /\ At(p, k)' = At(p, k) /\ Places(p)' = Places(p)
      BY <1>0, <1>3, <2>1 DEF Shapes
    <3>2. k \in Nat
      BY <1>2, <1>3
    <3>3. At(p, k + 1)' = At(p, k + 1)
      BY <1>3, <3>2
    <3>4. QED
      BY <3>1, <3>3 DEF Shape
  <2>2. Shape(q, 0)'
    BY <1>2, <1>3 DEF Shape
  <2>3. QED
    BY <2>1, <2>2 DEF Shapes
<1>11. Leaving'
  <2>1. ASSUME NEW p \in Queues PROVE chunk'[current'[p]] = "used"
    <3>1. current[p] \in Chunks /\ chunk[current[p]] = "used"
      BY <1>0 DEF TypeOK, Leaving
    <3>2. ~Leaves(q, 0, current[p])
      BY <1>0, <1>2, <3>1 DEF Leaving
    <3>3. QED
      BY <1>1, <3>1, <3>2
  <2>2. ASSUME NEW p \in Queues, NEW b \in Chunks, NEW k \in Places(p)', Leaves(p, k, b)'
        PROVE  /\ chunk'[b] = "used" /\ \A r \in Queues : current'[r] # b
               /\ \A r \in Queues : \A l \in Places(r)' : Leaves(r, l, b)' => r = p /\ l = k
    <3>1. Leaves(p, k, b) /\ ~(p = q /\ k = 0) /\ k \in Places(p)
      BY <1>3, <1>4, <2>2
    <3>2. /\ chunk[b] = "used" /\ \A r \in Queues : current[r] # b
          /\ \A r \in Queues : \A l \in Places(r) : Leaves(r, l, b) => r = p /\ l = k
      BY <1>0, <3>1 DEF Leaving
    <3>3. ~Leaves(q, 0, b)
      BY <1>2, <3>1, <3>2
    <3>4. QED
      BY <1>1, <1>3, <1>4, <3>2, <3>3
  <2>3. QED
    BY <2>1, <2>2 DEF Leaving
<1>12. Lying'
  <2>1. ASSUME NEW p \in Queues, NEW k \in Places(p)', At(p, k)'.kind # "None"
        PROVE  Holds(p, k, At(p, k).chunk)'
    <3>1. p # q \/ k # 0
      BY <1>2, <1>3, <2>1
    <3>2. At(p, k)' = At(p, k) /\ k \in Places(p)
      BY <1>3, <3>1
    <3>3. PICK b : b = At(p, k).chunk
      OBVIOUS
    <3>4. Holds(p, k, b)' /\ At(p, k)'.chunk = b
      BY <1>0, <1>5, <2>1, <3>1, <3>2, <3>3 DEF Lying
    <3>5. QED
      BY <3>4 DEF Holds, Leaves
  <2>2. QED
    BY <2>1 DEF Lying
<1>13. Pointing'
  <2>1. ASSUME NEW p \in Queues, NEW k \in Places(p)', Points(p, k)'
        PROVE  Holds(p, k, At(p, k).block)' \/ JustLeft(p, k, At(p, k).block)'
    <3>1. p # q \/ k # 0
      BY <1>2, <1>3, <2>1 DEF Points
    <3>2. At(p, k)' = At(p, k) /\ k \in Places(p) /\ k \in Nat
      BY <1>2, <1>3, <3>1
    <3>3. Points(p, k)
      <4>1. q # main => 1 \notin todo' \ begun'
        BY <1>0 DEF Running
      <4>2. QED
        BY <2>1, <3>2, <4>1 DEF Points
    <3>4. PICK b : b = At(p, k).block
      OBVIOUS
    <3>5. Holds(p, k, b) \/ JustLeft(p, k, b)
      BY <1>0, <3>2, <3>3, <3>4 DEF Pointing
    <3>6. b \in Chunks
      BY <1>0, <3>2, <3>3, <3>4 DEF Shapes, Shape, Points
    <3>7. ASSUME Holds(p, k, b) PROVE Holds(p, k, b)'
      BY <1>5, <3>1, <3>2, <3>7
    <3>8. ASSUME k >= 2, At(p, k - 1).kind = "Dummy", Leaves(p, k - 2, b)
          PROVE  JustLeft(p, k, b)'
      <4>1. At(p, k - 1)'.kind = "Dummy"
        <5>1. k - 1 # 0
          BY <3>2, <3>8
        <5>2. QED
          BY <1>3, <3>8, <5>1
      <4>2. CASE ~(p = q /\ k - 2 = 0)
        BY <1>4, <3>8, <4>1, <4>2 DEF JustLeft
      <4>3. CASE p = q /\ k - 2 = 0
        <5>1. k = 2 /\ k - 1 = 1 /\ Leaves(q, 0, b)
          BY <3>2, <3>8, <4>3
        <5>2. executing[q].kind = "Switch" /\ chunk'[b] = "stashed"
          BY <1>1, <1>2, <3>6, <5>1 DEF Leaves
        <5>3. Running(p)' /\ At(p, 0)'.kind = "None" /\ At(p, 1)'.kind = "Dummy"
          BY <1>2, <1>3, <1>7, <4>1, <4>3, <5>1, <5>2
        <5>4. QED
          BY <5>1, <5>2, <5>3 DEF JustLeft
      <4>4. QED
        BY <4>2, <4>3
    <3>9. ASSUME chunk[b] = "stashed", Running(p), k \in 0..2,
                 k = 2 => At(p, 1).kind = "Dummy",
                 k >= 1 => At(p, 0).kind \in {"None", "Dummy"}
          PROVE  JustLeft(p, k, b)'
      <4>1. p = q /\ k >= 1 /\ executing[q].kind = "Dummy"
        BY <1>1, <1>2, <1>6, <3>1, <3>2, <3>9
      <4>2. chunk'[b] = "stashed" /\ Running(p)' /\ At(p, 0)'.kind = "None"
        BY <1>1, <1>2, <1>3, <1>7, <3>6, <3>9, <4>1
      <4>3. k = 2 => At(p, 1)'.kind = "Dummy"
        BY <1>3, <3>9
      <4>4. QED
        BY <3>9, <4>2, <4>3 DEF JustLeft
    <3>10. Holds(p, k, b)' \/ JustLeft(p, k, b)'
      BY <3>5, <3>7, <3>8, <3>9 DEF JustLeft
    <3>11. QED
      BY <3>2, <3>4, <3>10 DEF Holds, JustLeft, Leaves
  <2>2. QED
    BY <2>1 DEF Pointing
<1>14. Linking'
  <2>1. ASSUME NEW p \in Queues PROVE Holds(p, 0, last[p])' \/ LastLeft(p)'
    <3>1. last[p] \in Chunks
      BY <1>0 DEF TypeOK
    <3>2. CASE Holds(p, 0, last[p])
      <4>1. CASE p = q /\ Leaves(q, 0, last[q])
        <5>1. executing[q].kind = "Switch" /\ chunk'[last[q]] = "stashed"
          BY <1>1, <1>2, <3>1, <4>1 DEF Leaves
        <5>2. Shape(q, 0) /\ At(q, 0).kind = "Switch"
          BY <1>0, <1>2, <5>1 DEF Shapes
        <5>3. 0 + 1 \in Places(q) /\ At(q, 0 + 1).kind = "Dummy"
          BY <5>2 DEF Shape
        <5>4. 1 \in Places(q)' /\ At(q, 1)'.kind = "Dummy" /\ At(q, 0)'.kind = "None"
          BY <1>2, <1>3, <5>3
        <5>5. QED
          BY <1>7, <4>1, <5>1, <5>4 DEF LastLeft
      <4>2. QED
        BY <1>2, <1>5, <3>2, <4>1 DEF Holds
    <3>3. CASE LastLeft(p)
      BY <1>1, <1>2, <1>6, <3>3 DEF LastLeft
    <3>4. QED
      BY <1>0, <3>2, <3>3 DEF Linking
  <2>2. QED
    BY <2>1 DEF Linking
<1>15. QED
  BY <1>8, <1>9, <1>10, <1>11, <1>12, <1>13, <1>14

-----------------------------------------------------------------------------
(* The flush begins, reads its array, and ends: no queue is touched.       *)

LEMMA CalmKeeps ==
  ASSUME IInv, UNCHANGED <<unread, current, last, chunk>>,
         executing[main].kind = "Flush", executing'[main] \in {executing[main], NoMessage},
         executing'[main] = executing[main] => Running(main),
         \A p \in CmdBuffs : ~Running(p) /\ executing'[p] = executing[p]
  PROVE  WritersApart' /\ Shapes' /\ Leaving' /\ Lying' /\ Pointing' /\ Linking'
<1>0. /\ TypeOK /\ WritersApart /\ Shapes /\ Leaving /\ Lying /\ Pointing /\ Linking
  BY DEF IInv
<1>1. /\ \A p \in Queues : 0 \in Places(p) /\ Places(p) \subseteq Nat /\ At(p, 0) = executing[p]
      /\ NoMessage.kind = "None" /\ NoMessage \in MessageType
  BY <1>0, PlaceFacts, NoMessageFacts
<1>2. /\ main \in Queues /\ \A p \in Queues : p # main => p \in CmdBuffs
      /\ \A p \in Queues : p # main => executing'[p] = executing[p]
  BY DEF Queues
<1>3. /\ \A p \in Queues : Places(p)' = Places(p)
      /\ \A p \in Queues : \A k : p # main \/ k # 0 => At(p, k)' = At(p, k)
      /\ At(main, 0)' \in {At(main, 0), NoMessage} /\ At(main, 0).kind = "Flush"
  <2>1. ASSUME NEW p \in Queues PROVE Places(p)' = Places(p)
    BY DEF Places
  <2>2. ASSUME NEW p \in Queues, NEW k, p # main \/ k # 0 PROVE At(p, k)' = At(p, k)
    BY <1>2, <2>2 DEF At
  <2>3. At(main, 0)' \in {At(main, 0), NoMessage} /\ At(main, 0).kind = "Flush"
    BY DEF At
  <2>4. QED
    BY <2>1, <2>2, <2>3
<1>4. \A p \in Queues : \A k, b : Leaves(p, k, b)' <=> Leaves(p, k, b)
  BY <1>1, <1>3 DEF Leaves
<1>5. \A p \in Queues : \A k, b : Holds(p, k, b)' <=> Holds(p, k, b)
  BY <1>3, <1>4 DEF Holds
<1>6. WritersApart'
  BY <1>0 DEF WritersApart
<1>7. Shapes'
  <2>1. ASSUME NEW p \in Queues, NEW k \in Places(p)' PROVE Shape(p, k)'
    <3>1. Shape(p, k) /\ k \in Nat /\ Places(p)' = Places(p)
      BY <1>0, <1>1, <1>3 DEF Shapes
    <3>2. At(p, k + 1)' = At(p, k + 1)
      BY <1>3, <3>1
    <3>3. CASE At(p, k)' = At(p, k)
      BY <3>1, <3>2, <3>3 DEF Shape
    <3>4. CASE k = 0 /\ At(p, k)' = NoMessage
      BY <1>1, <3>4 DEF Shape
    <3>5. QED
      BY <1>3, <3>3, <3>4
  <2>2. QED
    BY <2>1 DEF Shapes
<1>8. Leaving'
  <2>1. \A p \in Queues : chunk'[current'[p]] = "used"
    BY <1>0 DEF Leaving
  <2>2. ASSUME NEW p \in Queues, NEW b \in Chunks, NEW k \in Places(p)', Leaves(p, k, b)'
        PROVE  /\ chunk'[b] = "used" /\ \A r \in Queues : current'[r] # b
               /\ \A r \in Queues : \A l \in Places(r)' : Leaves(r, l, b)' => r = p /\ l = k
    BY <1>0, <1>3, <1>4, <2>2 DEF Leaving
  <2>3. QED
    BY <2>1, <2>2 DEF Leaving
<1>9. Lying'
  <2>1. ASSUME NEW p \in Queues, NEW k \in Places(p)', At(p, k)'.kind # "None"
        PROVE  Holds(p, k, At(p, k).chunk)'
    <3>1. At(p, k)' = At(p, k) /\ k \in Places(p)
      BY <1>1, <1>3, <2>1
    <3>2. PICK b : b = At(p, k).chunk
      OBVIOUS
    <3>3. Holds(p, k, b)' /\ At(p, k)'.chunk = b
      BY <1>0, <1>5, <2>1, <3>1, <3>2 DEF Lying
    <3>4. QED
      BY <3>3 DEF Holds, Leaves
  <2>2. QED
    BY <2>1 DEF Lying
<1>10. Pointing'
  <2>1. ASSUME NEW p \in Queues, NEW k \in Places(p)', Points(p, k)'
        PROVE  Holds(p, k, At(p, k).block)' \/ JustLeft(p, k, At(p, k).block)'
    <3>1. At(p, k)' = At(p, k) /\ k \in Places(p) /\ k \in Nat
      BY <1>1, <1>3, <2>1 DEF Points
    <3>2. ASSUME p = main, k = 0 PROVE Running(main) /\ Running(main)'
      <4>1. executing'[main] = executing[main]
        BY <3>1, <3>2 DEF At
      <4>2. At(p, k)'.kind = "Flush"
        BY <1>3, <3>1, <3>2
      <4>3. dPc' = "main" \/ 1 \in todo' \ begun'
        BY <2>1, <3>2, <4>2 DEF Points
      <4>4. QED
        BY <4>1, <4>3 DEF Running
    <3>3. Points(p, k)
      <4>1. CASE p = main /\ k = 0
        BY <1>3, <3>2, <4>1 DEF Points, Running
      <4>2. CASE k # 0
        BY <2>1, <3>1, <4>2 DEF Points
      <4>3. CASE p # main /\ k = 0
        <5>1. At(p, k).kind = "Plain" \/ At(p, k).kind = "Flush"
          BY <2>1, <3>1 DEF Points
        <5>2. Shape(p, k)
          BY <1>0, <3>1 DEF Shapes
        <5>3. QED
          BY <4>3, <5>1, <5>2 DEF Points, Shape
      <4>4. QED
        BY <4>1, <4>2, <4>3
    <3>4. PICK b : b = At(p, k).block
      OBVIOUS
    <3>5. Holds(p, k, b) \/ JustLeft(p, k, b)
      BY <1>0, <3>1, <3>3, <3>4 DEF Pointing
    <3>6. ASSUME k >= 2, At(p, k - 1).kind = "Dummy", Leaves(p, k - 2, b)
          PROVE  JustLeft(p, k, b)'
      <4>1. At(p, k - 1)' = At(p, k - 1)
        BY <1>3, <3>1, <3>6
      <4>2. QED
        BY <1>4, <3>6, <4>1 DEF JustLeft
    <3>7. ASSUME chunk[b] = "stashed", Running(p), k \in 0..2,
                 k = 2 => At(p, 1).kind = "Dummy",
                 k >= 1 => At(p, 0).kind \in {"None", "Dummy"}
          PROVE  JustLeft(p, k, b)'
      <4>1. p = main /\ k = 0
        BY <1>2, <1>3, <3>1, <3>7
      <4>2. QED
        BY <3>2, <3>7, <4>1 DEF JustLeft
    <3>8. Holds(p, k, b)' \/ JustLeft(p, k, b)'
      BY <1>5, <3>5, <3>6, <3>7 DEF JustLeft
    <3>9. QED
      BY <3>1, <3>4, <3>8 DEF Holds, JustLeft, Leaves
  <2>2. QED
    BY <2>1 DEF Pointing
<1>11. Linking'
  <2>1. ASSUME NEW p \in Queues PROVE Holds(p, 0, last[p])'
    <3>1. Holds(p, 0, last[p])
      BY <1>0, <1>2, <1>3 DEF Linking, LastLeft
    <3>2. QED
      BY <1>5, <3>1 DEF Holds, Leaves
  <2>2. QED
    BY <2>1 DEF Linking
<1>12. QED
  BY <1>6, <1>7, <1>8, <1>9, <1>10, <1>11

-----------------------------------------------------------------------------
(* Every step keeps the invariant.                                         *)

LEMMA PlaceKeeps ==
  ASSUME IInv, NEW q \in Queues, NEW c \in Room(q), NEW ms \in Seq(MessageType),
         Enter(q, c, ms), Fresh(q, c, ms), UNCHANGED <<last, executing, dPc, todo, begun>>,
         visible' \in {visible, Len(unread'[main])}, gPc' \in {"record", "flush"},
         gTodo' \in Seq(CmdBuffs), gCall' \in MessageType, Game'
  PROVE  IInv'
<1>1. TypeOK
  BY DEF IInv
<1>2. TypeOK'
  <2>1. /\ unread' \in [Queues -> Seq(MessageType)] /\ current' \in [Queues -> Chunks]
        /\ chunk' \in [Chunks -> {"free", "used", "stashed"}]
    BY <1>1, EnterEffects
  <2>2. Len(unread[main]) \in Nat /\ Len(unread'[main]) \in Nat /\ main \in Queues
    BY <1>1, <2>1 DEF TypeOK, Queues
  <2>3. Len(unread[main]) <= Len(unread'[main])
    <3>1. CASE q = main
      <4>1. Len(unread'[q]) = Len(unread[q]) + Added(q, c) + Len(ms)
        BY <1>1, EnterEffects
      <4>2. Added(q, c) \in Nat /\ Len(ms) \in Nat
        BY DEF Added
      <4>3. QED
        BY <2>2, <3>1, <4>1, <4>2
    <3>2. CASE q # main
      <4>1. unread'[main] = unread[main]
        BY <1>1, <2>2, <3>2, EnterEffects
      <4>2. QED
        BY <2>2, <4>1
    <3>3. QED
      BY <3>1, <3>2
  <2>4. visible' \in 0..Len(unread'[main])
    BY <1>1, <2>2, <2>3 DEF TypeOK
  <2>5. QED
    BY <1>1, <2>1, <2>4 DEF TypeOK
<1>3. QED
  BY <1>2, EnterKeeps DEF IInv

LEMMA EnqueueKeeps == ASSUME IInv, NEW q \in Queues, Enqueue(q) PROVE IInv'
<1>1. TypeOK
  BY DEF IInv
<1>2. PICK c \in Room(q) : Enter(q, c, <<Message("Plain", c, current[q], <<>>)>>)
  BY DEF Enqueue
<1> DEFINE m == Message("Plain", c, current[q], <<>>)
<1>3. /\ m \in MessageType /\ m.kind = "Plain" /\ m.chunk = c /\ m.block = current[q]
  <2>1. c \in Chunks /\ current[q] \in Chunks
    BY <1>1 DEF Room, TypeOK
  <2>2. QED
    BY <2>1, MessageTypes DEF Kinds
<1>4. Enter(q, c, <<m>>)
  BY <1>2
<1> HIDE DEF m
<1>5. <<m>> \in Seq(MessageType) /\ Fresh(q, c, <<m>>)
  <2>1. <<m>> \in Seq(MessageType) /\ Len(<<m>>) = 1 /\ <<m>>[1] = m
    BY <1>3
  <2>2. QED
    BY <1>3, <2>1 DEF Fresh
<1>6. Game'
  BY DEF Enqueue, gameVars, Game
<1>7. /\ UNCHANGED <<last, executing, dPc, todo, begun>> /\ visible' = visible
      /\ gPc' \in {"record", "flush"} /\ gTodo' \in Seq(CmdBuffs) /\ gCall' \in MessageType
  BY <1>1 DEF Enqueue, gameVars, TypeOK
<1>8. QED
  BY <1>4, <1>5, <1>6, <1>7, PlaceKeeps

LEMMA FlushCommandsKeeps == ASSUME IInv, NEW cs \in FlushLists, FlushCommands(cs) PROVE IInv'
<1>1. TypeOK /\ main \in Queues /\ cs \in Seq(CmdBuffs)
  BY QueueAssumption, ChunkAssumption DEF IInv, Queues
<1>2. PICK c \in Room(main) :
        Enter(main, c, <<>>) /\ gCall' = Message("Flush", NoChunk, c, cs)
  BY DEF FlushCommands
<1>3. c \in Chunks /\ current'[main] = c
  BY <1>1, <1>2 DEF Enter, Room, TypeOK
<1>4. /\ gCall' \in MessageType /\ gCall'.kind = "Flush" /\ gCall'.block = c
      /\ gCall'.cmdBuffs = cs
  BY <1>2, <1>3, MessageTypes DEF Kinds
<1>5. <<>> \in Seq(MessageType) /\ Fresh(main, c, <<>>)
  BY DEF Fresh
<1>6. Game'
  BY <1>3, <1>4 DEF Game
<1>7. /\ UNCHANGED <<last, executing, dPc, todo, begun>> /\ visible' = visible
      /\ gPc' \in {"record", "flush"} /\ gTodo' \in Seq(CmdBuffs)
  BY <1>1 DEF FlushCommands
<1>8. QED
  BY <1>1, <1>2, <1>4, <1>5, <1>6, <1>7, PlaceKeeps

(* A free and a finish message are placed together.                        *)
LEMMA FinishFresh ==
  ASSUME TypeOK, NEW q \in Queues, NEW c \in Room(q), NEW ms,
         ms = <<Message("Free", c, NoChunk, <<>>), Message("Finish", c, NoChunk, <<>>)>>
  PROVE  ms \in Seq(MessageType) /\ Fresh(q, c, ms)
<1> DEFINE f == Message("Free", c, NoChunk, <<>>)
           g == Message("Finish", c, NoChunk, <<>>)
<1>1. c \in Chunks
  BY DEF Room, TypeOK
<1>2. /\ f \in MessageType /\ f.kind = "Free" /\ f.chunk = c
      /\ g \in MessageType /\ g.kind = "Finish" /\ g.chunk = c
  BY <1>1, MessageTypes DEF Kinds
<1>3. ms = <<f, g>>
  OBVIOUS
<1> HIDE DEF f, g
<1>4. ms \in Seq(MessageType) /\ Len(ms) = 2 /\ ms[1] = f /\ ms[2] = g
  BY <1>2, <1>3
<1>5. \A i \in 1..Len(ms) : i = 1 \/ i = 2
  BY <1>4
<1>6. QED
  BY <1>2, <1>4, <1>5 DEF Fresh

LEMMA FinishWritingKeeps == ASSUME IInv, FinishWriting PROVE IInv'
<1>1. TypeOK /\ Game /\ main \notin CmdBuffs /\ main \in Queues
  BY QueueAssumption, ChunkAssumption DEF IInv, Queues
<1>2. PICK q : q = Head(gTodo)
  OBVIOUS
<1>3. q \in CmdBuffs /\ q \in Queues /\ Tail(gTodo) \in Seq(CmdBuffs)
  BY <1>1, <1>2 DEF FinishWriting, TypeOK, Queues
<1>4. PICK c \in Room(q) : Enter(q, c, <<Message("Free", c, NoChunk, <<>>),
                                         Message("Finish", c, NoChunk, <<>>)>>)
  BY <1>2 DEF FinishWriting
<1> DEFINE ms == <<Message("Free", c, NoChunk, <<>>), Message("Finish", c, NoChunk, <<>>)>>
<1>5. Enter(q, c, ms) /\ ms \in Seq(MessageType) /\ Fresh(q, c, ms)
  BY <1>1, <1>3, <1>4, FinishFresh
<1> HIDE DEF ms
<1>6. current'[main] = current[main]
  BY <1>1, <1>3, <1>5 DEF Enter, TypeOK
<1>7. /\ UNCHANGED <<last, executing, dPc, todo, begun>> /\ visible' = visible
      /\ gPc' = gPc /\ gCall' = gCall /\ gTodo' \in Seq(CmdBuffs)
  BY <1>2, <1>3 DEF FinishWriting
<1>8. Game' /\ gPc' \in {"record", "flush"} /\ gCall' \in MessageType
  BY <1>1, <1>6, <1>7 DEF Game, TypeOK
<1>9. QED
  BY <1>3, <1>5, <1>7, <1>8, PlaceKeeps

LEMMA EnqueueFlushKeeps == ASSUME IInv, EnqueueFlush PROVE IInv'
<1>1. TypeOK /\ Game /\ main \in Queues
  BY DEF IInv, Queues
<1>2. PICK c \in Room(main) : Enter(main, c, <<[gCall EXCEPT !.chunk = c]>>)
  BY DEF EnqueueFlush
<1>m. PICK m : m = [gCall EXCEPT !.chunk = c]
  OBVIOUS
<1>3. /\ gCall \in MessageType /\ gCall.kind = "Flush" /\ gCall.block = current[main]
      /\ gCall.cmdBuffs \in FlushLists /\ c \in Chunks
  BY <1>1 DEF Game, TypeOK, EnqueueFlush, Room
<1>4. /\ m \in MessageType /\ m.kind = "Flush" /\ m.chunk = c /\ m.block = current[main]
      /\ m.cmdBuffs \in FlushLists
  BY <1>m, <1>3 DEF MessageType
<1>5. Enter(main, c, <<m>>) /\ <<m>> \in Seq(MessageType) /\ Fresh(main, c, <<m>>)
  <2>1. Enter(main, c, <<m>>)
    BY <1>2, <1>m
  <2>2. <<m>> \in Seq(MessageType) /\ Len(<<m>>) = 1 /\ <<m>>[1] = m
    BY <1>4
  <2>3. Fresh(main, c, <<m>>)
    BY <1>4, <2>2 DEF Fresh
  <2>4. QED
    BY <2>1, <2>2, <2>3
<1>6. /\ UNCHANGED <<last, executing, dPc, todo, begun>> /\ visible' = visible
      /\ gPc' = "record" /\ gTodo' \in Seq(CmdBuffs) /\ gCall' \in MessageType
  BY <1>1 DEF EnqueueFlush, TypeOK
<1>7. Game'
  BY <1>6 DEF Game
<1>8. QED
  BY <1>1, <1>5, <1>6, <1>7, PlaceKeeps

LEMMA PresentKeeps == ASSUME IInv, Present PROVE IInv'
<1>1. TypeOK /\ main \in Queues
  BY DEF IInv, Queues
<1>2. PICK c \in Room(main) : Enter(main, c, <<Message("Free", c, NoChunk, <<>>),
                                            Message("Finish", c, NoChunk, <<>>)>>)
  BY DEF Present
<1> DEFINE ms == <<Message("Free", c, NoChunk, <<>>), Message("Finish", c, NoChunk, <<>>)>>
<1>3. Enter(main, c, ms) /\ ms \in Seq(MessageType) /\ Fresh(main, c, ms)
  BY <1>1, <1>2, FinishFresh
<1> HIDE DEF ms
<1>4. /\ UNCHANGED <<last, executing, dPc, todo, begun>> /\ visible' = Len(unread'[main])
      /\ gPc' = "record" /\ gTodo' \in Seq(CmdBuffs) /\ gCall' \in MessageType
  BY <1>1 DEF Present, gameVars, TypeOK
<1>5. Game'
  BY <1>4 DEF Game
<1>6. QED
  BY <1>1, <1>3, <1>4, <1>5, PlaceKeeps

(* A flush in execution names one queue, that of a command buffer.         *)
LEMMA Flushed ==
  ASSUME IInv, Single, executing[main].kind = "Flush"
  PROVE  /\ DOMAIN executing[main].cmdBuffs = {1} /\ executing[main].cmdBuffs[1] \in CmdBuffs
         /\ executing[main].cmdBuffs[1] \in Queues /\ main \in Queues /\ main \notin CmdBuffs
<1>1. main \in Queues /\ TypeOK /\ Shapes
  BY DEF IInv, Queues
<1>2. Shape(main, 0) /\ At(main, 0) = executing[main]
  BY <1>1, PlaceFacts DEF Shapes
<1>3. executing[main].cmdBuffs \in FlushLists
  BY <1>2 DEF Shape
<1>4. executing[main].cmdBuffs \in Seq(CmdBuffs) /\ Len(executing[main].cmdBuffs) = 1
  BY <1>3, QueueAssumption, ChunkAssumption DEF Single
<1>5. DOMAIN executing[main].cmdBuffs = {1} /\ executing[main].cmdBuffs[1] \in CmdBuffs
  BY <1>4
<1>6. QED
  BY <1>1, <1>5, QueueAssumption, ChunkAssumption DEF Queues

LEMMA TakeMainKeeps == ASSUME IInv, TakeMain PROVE IInv'
<1>1. /\ TypeOK /\ Game /\ main \in Queues /\ dPc = "main" /\ Take(main)
      /\ UNCHANGED <<current, chunk, dPc, todo, begun>> /\ Running(main)
  BY DEF IInv, TakeMain, Queues, Running
<1>2. /\ unread' \in [Queues -> Seq(MessageType)] /\ executing' \in [Queues -> MessageType]
      /\ last' \in [Queues -> Chunks] /\ Len(unread'[main]) = Len(unread[main]) - 1
  BY <1>1, TakePlaces
<1>3. visible' \in 0..Len(unread'[main])
  <2>1. visible \in Nat /\ visible > 0 /\ visible <= Len(unread[main]) /\ visible' = visible - 1
        /\ Len(unread[main]) \in Nat
    BY <1>1 DEF TypeOK, TakeMain
  <2>2. QED
    BY <1>2, <2>1
<1>4. TypeOK' /\ Game'
  BY <1>1, <1>2, <1>3 DEF TakeMain, gameVars, TypeOK, Game
<1>5. QED
  BY <1>1, <1>4, TakeKeeps DEF IInv

LEMMA FlushTakeKeeps == ASSUME IInv, Single, NEW i \in todo, FlushTake(i) PROVE IInv'
<1>1. TypeOK /\ Game /\ Device /\ dPc = "flush"
  BY DEF IInv, FlushTake
<1>2. i = 1 /\ 1 \in todo \cap begun
  BY <1>1 DEF Device, FlushTake
<1>3. PICK q : q = executing[main].cmdBuffs[1]
  OBVIOUS
<1>4. /\ q \in Queues /\ q # main /\ main \in Queues /\ Take(q) /\ Running(q)
      /\ UNCHANGED <<current, chunk, dPc, todo, begun>>
  BY <1>1, <1>2, <1>3, Flushed DEF Device, FlushTake, Running
<1>5. /\ unread' \in [Queues -> Seq(MessageType)] /\ executing' \in [Queues -> MessageType]
      /\ last' \in [Queues -> Chunks] /\ unread'[main] = unread[main]
  BY <1>4, TakePlaces
<1>6. TypeOK' /\ Game'
  BY <1>1, <1>4, <1>5 DEF FlushTake, gameVars, TypeOK, Game
<1>7. QED
  BY <1>4, <1>6, TakeKeeps DEF IInv

LEMMA ExecMainKeeps == ASSUME IInv, ExecMain PROVE IInv'
<1>1. /\ TypeOK /\ Game /\ Device /\ main \in Queues /\ Execute(main)
      /\ UNCHANGED <<unread, visible, current, last, gPc, gTodo, gCall, dPc, todo, begun>>
  BY DEF IInv, ExecMain, gameVars, Queues
<1>2. dPc = "main" /\ Running(main)
  BY <1>1 DEF Execute, Device, TypeOK, Running
<1>3. executing' \in [Queues -> MessageType] /\ chunk' \in [Chunks -> {"free", "used", "stashed"}]
  BY <1>1, ExecuteEffects
<1>4. TypeOK' /\ Game'
  BY <1>1, <1>3 DEF TypeOK, Game
<1>5. QED
  BY <1>1, <1>2, <1>4, ExecuteKeeps DEF IInv

LEMMA FlushExecKeeps == ASSUME IInv, Single, NEW i \in todo, FlushExec(i) PROVE IInv'
<1>1. TypeOK /\ Game /\ Device /\ dPc = "flush"
  BY DEF IInv, FlushExec
<1>2. i = 1 /\ 1 \in todo \cap begun
  BY <1>1 DEF Device, FlushExec
<1>3. PICK q : q = executing[main].cmdBuffs[1]
  OBVIOUS
<1>4. /\ q \in Queues /\ q # main /\ main \in Queues /\ Execute(q) /\ Running(q)
      /\ UNCHANGED <<unread, visible, current, last, gPc, gTodo, gCall, dPc, begun>>
      /\ todo' = IF executing[q].kind = "Finish" THEN todo \ {1} ELSE todo
  BY <1>1, <1>2, <1>3, Flushed DEF Device, FlushExec, gameVars, Running
<1>5. executing' \in [Queues -> MessageType] /\ chunk' \in [Chunks -> {"free", "used", "stashed"}]
  BY <1>4, ExecuteEffects
<1>6. TypeOK' /\ Game'
  BY <1>1, <1>4, <1>5 DEF TypeOK, Game
<1>7. QED
  BY <1>4, <1>6, ExecuteKeeps DEF IInv

LEMMA FlushBeginKeeps == ASSUME IInv, Single, FlushBegin PROVE IInv'
<1>1. /\ TypeOK /\ Game /\ Device /\ main \notin CmdBuffs
      /\ dPc = "main" /\ dPc' = "flush" /\ executing[main].kind = "Flush" /\ begun' = {}
      /\ UNCHANGED <<unread, visible, current, last, chunk, gPc, gTodo, gCall, executing>>
      /\ Running(main)
  BY QueueAssumption, ChunkAssumption DEF IInv, FlushBegin, gameVars, Running
<1>2. todo' = {1}
  BY <1>1, Flushed DEF FlushBegin
<1>3. \A p \in CmdBuffs : ~Running(p) /\ p # main
  BY <1>1 DEF Running
<1>4. Device'
  BY <1>1, <1>2, <1>3 DEF Device
<1>5. TypeOK' /\ Game'
  BY <1>1, <1>2 DEF TypeOK, Game
<1>6. WritersApart' /\ Shapes' /\ Leaving' /\ Lying' /\ Pointing' /\ Linking'
  BY <1>1, <1>3, CalmKeeps
<1>7. QED
  BY <1>4, <1>5, <1>6 DEF IInv

LEMMA FlushReadKeeps == ASSUME IInv, NEW i \in todo, FlushRead(i) PROVE IInv'
<1>1. /\ TypeOK /\ Game /\ Device /\ main \notin CmdBuffs
      /\ dPc = "flush" /\ executing[main].kind = "Flush" /\ begun' = begun \cup {i}
      /\ UNCHANGED <<unread, visible, current, last, chunk, gPc, gTodo, gCall, dPc, todo, executing>>
  BY QueueAssumption, ChunkAssumption DEF IInv, FlushRead, gameVars, Device
<1>2. i = 1 /\ 1 \in todo \ begun /\ Running(main)
  BY <1>1 DEF Device, FlushRead, Running
<1>3. \A p \in CmdBuffs : ~Running(p) /\ p # main
  BY <1>1, <1>2 DEF Running
<1>4. Device'
  BY <1>1, <1>2, <1>3 DEF Device
<1>5. TypeOK' /\ Game'
  BY <1>1, <1>2 DEF TypeOK, Game
<1>6. WritersApart' /\ Shapes' /\ Leaving' /\ Lying' /\ Pointing' /\ Linking'
  BY <1>1, <1>2, <1>3, CalmKeeps
<1>7. QED
  BY <1>4, <1>5, <1>6 DEF IInv

LEMMA FlushEndKeeps == ASSUME IInv, FlushEnd PROVE IInv'
<1>1. /\ TypeOK /\ Game /\ Device /\ main \in Queues /\ main \notin CmdBuffs
      /\ dPc = "flush" /\ todo = {} /\ dPc' = "main" /\ begun' = {}
      /\ executing[main].kind = "Flush" /\ executing' = [executing EXCEPT ![main] = NoMessage]
      /\ UNCHANGED <<unread, visible, current, last, chunk, gPc, gTodo, gCall, todo>>
  BY QueueAssumption, ChunkAssumption DEF IInv, FlushEnd, gameVars, Device, Queues
<1>2. /\ executing'[main] = NoMessage /\ executing'[main] # executing[main]
      /\ executing' \in [Queues -> MessageType]
      /\ \A p \in CmdBuffs : executing'[p] = executing[p]
  BY <1>1, NoMessageFacts DEF TypeOK, Queues
<1>3. \A p \in CmdBuffs : ~Running(p) /\ p # main
  BY <1>1 DEF Running
<1>4. Device'
  BY <1>1, <1>2, <1>3 DEF Device
<1>5. TypeOK' /\ Game'
  BY <1>1, <1>2 DEF TypeOK, Game
<1>6. WritersApart' /\ Shapes' /\ Leaving' /\ Lying' /\ Pointing' /\ Linking'
  BY <1>1, <1>2, <1>3, CalmKeeps
<1>7. QED
  BY <1>4, <1>5, <1>6 DEF IInv

LEMMA InitHolds == Init => IInv
<1> SUFFICES ASSUME Init PROVE IInv
  OBVIOUS
<1>1. TypeOK
  <2>1. unread \in [Queues -> Seq(MessageType)] /\ Len(unread[main]) = 0
    BY DEF Init, Queues
  <2>2. /\ executing \in [Queues -> MessageType] /\ gCall \in MessageType
        /\ last \in [Queues -> Chunks] /\ current \in [Queues -> Chunks]
    BY NoMessageFacts DEF Init
  <2>3. chunk \in [Chunks -> {"free", "used", "stashed"}] /\ visible = 0
    BY DEF Init
  <2>4. gTodo \in Seq(CmdBuffs)
    BY DEF Init
  <2>5. QED
    BY <2>1, <2>2, <2>3, <2>4 DEF Init, TypeOK
<1>2. \A q \in Queues : Places(q) = {0} /\ At(q, 0) = NoMessage
  BY DEF Init, Places, At
<1>3. \A q \in Queues : \A k, b : ~Leaves(q, k, b)
  BY <1>2, NoMessageFacts DEF Leaves
<1>4. WritersApart /\ Game
  BY DEF Init, WritersApart, Game
<1>5. Device
  BY NoMessageFacts DEF Init, Device, Queues
<1>6. Shapes
  BY <1>2, NoMessageFacts DEF Shapes, Shape
<1>7. Leaving
  BY <1>1, <1>3 DEF Init, Leaving, TypeOK
<1>8. Lying /\ Pointing
  BY <1>2, NoMessageFacts DEF Lying, Pointing, Points
<1>9. Linking
  BY DEF Init, Linking, Holds
<1>10. QED
  BY <1>1, <1>4, <1>5, <1>6, <1>7, <1>8, <1>9 DEF IInv

LEMMA StepKeeps == ASSUME Single PROVE IInv /\ [Next]_vars => IInv'
<1> SUFFICES ASSUME IInv, [Next]_vars PROVE IInv'
  OBVIOUS
<1>1. CASE \E q \in Queues : Enqueue(q)
  BY <1>1, EnqueueKeeps
<1>2. CASE \E cs \in FlushLists : FlushCommands(cs)
  BY <1>2, FlushCommandsKeeps
<1>3. CASE FinishWriting
  BY <1>3, FinishWritingKeeps
<1>4. CASE EnqueueFlush
  BY <1>4, EnqueueFlushKeeps
<1>5. CASE Present
  BY <1>5, PresentKeeps
<1>6. CASE TakeMain
  BY <1>6, TakeMainKeeps
<1>7. CASE ExecMain
  BY <1>7, ExecMainKeeps
<1>8. CASE FlushBegin
  BY <1>8, FlushBeginKeeps
<1>9. CASE FlushEnd
  BY <1>9, FlushEndKeeps
<1>10. CASE \E i \in todo : FlushRead(i) \/ FlushTake(i) \/ FlushExec(i)
  BY <1>10, FlushReadKeeps, FlushTakeKeeps, FlushExecKeeps
<1>11. CASE UNCHANGED vars
  <2>1. UNCHANGED <<unread, visible, current, last, chunk, gPc, gTodo, gCall, dPc, todo, begun, executing>>
    BY <1>11 DEF vars, gameVars
  <2>2. QED
    BY <2>1 DEF IInv, TypeOK, WritersApart, Device, Game, Shapes, Shape, Leaving, Lying, Pointing,
             Points, JustLeft, Linking, LastLeft, Holds, Leaves, Places, At, Running
<1>12. QED
  BY <1>1, <1>2, <1>3, <1>4, <1>5, <1>6, <1>7, <1>8, <1>9, <1>10, <1>11 DEF Next

LEMMA IInvCorrect == ASSUME Single PROVE Spec => []IInv
<1>1. Init => IInv
  BY InitHolds
<1>2. IInv /\ [Next]_vars => IInv'
  BY StepKeeps
<1>3. QED
  BY <1>1, <1>2, PTL DEF Spec

-----------------------------------------------------------------------------
(* What a queue holds was not freed.                                       *)
LEMMA HeldKept ==
  ASSUME IInv, NEW q \in Queues, NEW k \in Places(q), NEW b \in Chunks, Holds(q, k, b)
  PROVE  Kept(b)
BY DEF IInv, Leaving, Holds, Kept

(* As long as flushCommands is called with one command buffer at a time,   *)
(* no consumer ever reads a chunk that the stash gave back to the heap: not*)
(* through the link of its last message, not in the message it executes,   *)
(* not in that message's argument block (recycleMemoryChunk,               *)
(* freeChunksInFreeQueue, DeviceAgent::flushCommands), for any number of   *)
(* queues and chunks and any depth of the queues.                          *)
THEOREM ReadsLiveCorrect == ASSUME Single PROVE Spec => []ReadsLive
<1>1. IInv => ReadsLive
  <2> SUFFICES ASSUME IInv, NEW q \in Queues
        PROVE  /\ unread[q] # <<>> => Kept(last[q])
               /\ Kept(executing[q].chunk)
               /\ BlockRead(executing[q]) => Kept(executing[q].block)
    BY DEF ReadsLive
  <2>1. /\ TypeOK /\ Device /\ Shapes /\ Lying /\ Pointing /\ Linking
        /\ 0 \in Places(q) /\ At(q, 0) = executing[q] /\ last[q] \in Chunks
    BY PlaceFacts DEF IInv, TypeOK
  <2>2. Shape(q, 0)
    BY <2>1 DEF Shapes
  <2>3. unread[q] # <<>> => Kept(last[q])
    BY <2>1, HeldKept DEF Linking, LastLeft, Kept
  <2>4. Kept(executing[q].chunk)
    <3>1. CASE executing[q].kind = "None"
      BY <2>1, <2>2, <3>1, NoMessageFacts DEF Shape, Kept
    <3>2. CASE executing[q].kind # "None"
      <4>1. Holds(q, 0, executing[q].chunk) /\ executing[q].chunk \in Chunks \cup {NoChunk}
        BY <2>1, <3>2 DEF Lying, TypeOK, MessageType
      <4>2. QED
        BY <2>1, <4>1, HeldKept DEF Kept
    <3>3. QED
      BY <3>1, <3>2
  <2>5. ASSUME BlockRead(executing[q]) PROVE Kept(executing[q].block)
    <3>1. Points(q, 0) /\ executing[q].block \in Chunks
      <4>1. dPc = "flush" => todo \subseteq {1}
        BY <2>1 DEF Device
      <4>2. executing[q].kind = "Flush" => dPc = "main" \/ 1 \in todo \ begun
        BY <2>1, <2>5, <4>1 DEF BlockRead, TypeOK
      <4>3. QED
        BY <2>1, <2>2, <2>5, <4>2 DEF BlockRead, Points, Shape
    <3>2. Holds(q, 0, executing[q].block) \/ chunk[executing[q].block] = "stashed"
      BY <2>1, <3>1 DEF Pointing, JustLeft
    <3>3. QED
      BY <2>1, <3>1, <3>2, HeldKept DEF Kept
  <2>6. QED
    BY <2>3, <2>4, <2>5
<1>2. QED
  BY <1>1, IInvCorrect, PTL

(* Under the same condition a chunk is handed on only when nobody needs it *)
(* any more: no two queues ever write into one chunk, and every message    *)
(* still to be taken lies in a chunk that was not freed (allocateImpl,     *)
(* recycleMemoryChunk, freeChunksInFreeQueue).                             *)
THEOREM ChunksApartCorrect == ASSUME Single PROVE Spec => []ChunksApart
<1>1. IInv => ChunksApart
  <2> SUFFICES ASSUME IInv, NEW q \in Queues, NEW i \in DOMAIN unread[q]
        PROVE  Kept(unread[q][i].chunk)
    BY DEF IInv, ChunksApart, UnreadLive
  <2>1. /\ TypeOK /\ Lying /\ Shapes /\ i \in Places(q) /\ At(q, i) = unread[q][i]
        /\ i # 0 /\ unread[q][i] \in MessageType
    <3>1. TypeOK /\ Lying /\ Shapes
      BY DEF IInv
    <3>2. /\ unread[q] \in Seq(MessageType) /\ DOMAIN unread[q] = 1..Len(unread[q])
          /\ Len(unread[q]) \in Nat
      BY <3>1, PlaceFacts
    <3>3. QED
      BY <3>1, <3>2 DEF Places, At
  <2>2. At(q, i).kind # "None"
    BY <2>1 DEF Shapes, Shape
  <2>3. Holds(q, i, unread[q][i].chunk) /\ unread[q][i].chunk \in Chunks \cup {NoChunk}
    BY <2>1, <2>2 DEF Lying, MessageType
  <2>4. QED
    BY <2>1, <2>3, HeldKept DEF Kept
<1>2. QED
  BY <1>1, IInvCorrect, PTL
=============================================================================
