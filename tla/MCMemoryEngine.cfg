SPECIFICATION Spec
CONSTANTS
  Inputs = 2
  Offers <- MCOffers
  NameSeq <- MCNameSeq
  Session <- MCSession
  Stacks <- MCStacks
  Requests <- MCRequests
  Told = 3
  Related = 4
  NoSource <- MCNoSource
  MaxCalls = 2
  MaxFaults = 1
INVARIANTS MemoryTypeOK DeletedStaysDeleted NoOrphans SearchFinds
PROPERTIES WipeIsThorough DeletionsStayInSession
CHECK_DEADLOCK FALSE
