CONSTANTS
  main = main
  c1 = c1
  c2 = c2
  c3 = c3
  CmdBuffs = {c1,c2,c3}
  primary = c1
  Buffers = {b1}
  MAX_CPU_FRAME_AHEAD = 1
  JobThreads = 3
  FlushLists <- MixedFlushes
  MaxFrames = 3
  MaxResizes = 1
  MaxCalls = 2
  MaxRecorded = 2
CHECK_DEADLOCK FALSE
SPECIFICATION FairSpec
INVARIANTS FramesApart FlushExact LifeInStep
PROPERTIES CallReturns
