CONSTANTS
  main = main
  c1 = c1
  c2 = c2
  CmdBuffs = {c1, c2}
  Chunks = {k1, k2, k3, k4, k5}
  NoChunk = NoChunk
  FlushLists <- SeveralFlushes
  JobThreads = 1
  MaxPlaced = 4
SPECIFICATION Spec
CHECK_DEADLOCK FALSE
SYMMETRY ChunkSymmetry
INVARIANTS ReadsLive
