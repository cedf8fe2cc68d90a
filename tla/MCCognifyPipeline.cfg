SPECIFICATION FairSpec

CONSTANTS
  p1 = p1
  p2 = p2
  None = None
  Parent <- MCParent
  ChunkCount <- MCChunkCount
  Worker = {w1, w2}
  Caller = {c1}
  QueueCap = 2
  MaxFaults = 2

INVARIANTS
  TypeOK
  SingleCustody
  NothingLost
  CompletedMeansDone
  ProcessedIsEarned
  PoolNeverJams

PROPERTIES
  WaitMeansDone
  HandedIsProcessed
  ImplementsContract

CHECK_DEADLOCK FALSE
