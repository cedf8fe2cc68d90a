SPECIFICATION SweepFairSpec

CONSTANTS
  p1 = p1
  p2 = p2
  None = None
  Parent <- MCParent
  ChunkCount <- MCChunkCount
  Worker = {w1}
  Caller = {s}
  Sweeper = s
  QueueCap = 3
  MaxFaults = 1
  Alone = TRUE
  SweepLimit = 3
  MaxCrashes = 2

INVARIANTS
  SweepTypeOK

PROPERTIES
  SweepRecovers
  PublishedWorkKept

CHECK_DEADLOCK FALSE
