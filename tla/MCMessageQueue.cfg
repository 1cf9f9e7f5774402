CONSTANTS
  Chunks = {c1, c2, c3}
  NoChunk = NoChunk
  ChunkSlots = 6
  SwitchSlots = 3
  DummySlots = 1
  MessageSlots = {1}
  DataSlots = {2}
  W = 5
  MaxMessages = 7
SPECIFICATION FairSpec
CHECK_DEADLOCK FALSE
INVARIANTS Fifo CountersAgree MemoryLive NoLinkRace NoChunkLost WaitDrains
PROPERTIES NoWakeUpLost ImplementsChannel
