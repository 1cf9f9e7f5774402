CONSTANTS
  Threads = {t1, t2, t3}
  Chunks = {k1, k2, k3, k4, k5}
  NoChunk = NoChunk
  MEMORY_CHUNK_POOL_CAPACITY = 2
  W = 16
SPECIFICATION PoolSpec
SYMMETRY Symmetry
INVARIANTS OneOwner CountAgrees PoolBounded
