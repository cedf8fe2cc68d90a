SPECIFICATION SweepFairSpec

CONSTANTS
  p1 = p1
  p2 = p2
  None = None
  Parent <- OneParent
  ChunkCount <- TwoChunks
  Worker = {w1}
  Caller = {s}
  Sweeper = s
  QueueCap = 3
  MaxFaults = 0
  Alone = TRUE
  SweepLimit = 1000
  MaxCrashes = 1

PROPERTY SweepTerminates

CHECK_DEADLOCK FALSE
