SPECIFICATION FairSpec

CONSTANTS
  p1 = p1
  p2 = p2
  None = None
  Parent <- MCParent
  ChunkCount <- MCChunkCount
  Worker = {w1, w2}
  Caller = {}
  QueueCap = 3
  MaxFaults = 0

PROPERTY InputCatchesUp

CHECK_DEADLOCK FALSE
