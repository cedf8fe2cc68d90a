SPECIFICATION FairSpec

CONSTANTS
  p1 = p1
  p2 = p2
  None = None
  Parent <- MCParent
  ChunkCount <- MCChunkCount
  Worker = {w1, w2}
  Caller = {}
  QueueCap = 1
  MaxFaults = 0

INVARIANT PoolNeverJams

CHECK_DEADLOCK FALSE
