SPECIFICATION Spec
CONSTANTS
  Client = {"c1", "c2"}
  NoClient = "none"
  Files = {"f", "g"}
  Texts = {"t"}
  MaxVersion = 2
  NumWorkers = 1
  QueueSize = 1
  RetryAttempts = 2
  MaxGenerations = 3
  Plans <- MCPlans
  NoPlan <- MCNoPlan
  Documents <- MCDocuments
INVARIANTS ParsingTypeOK OwnAndFresh NoTaskLost ChunksLoseLittle
PROPERTIES CallsReturn
