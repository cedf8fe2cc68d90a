SPECIFICATION FairSpec
CONSTANTS
  Client = {mon, c1}
  mon = mon
  c1 = c1
  Monitor = mon
  MaxConnections = 1
  MinIdle = 1
  Created = 3
  MaxRetries = 1
INVARIANTS TypeOK OneOwner SlotsCovered ClosedLeavesNothing MonitorOutOfClose
PROPERTY CloseReturns
CHECK_DEADLOCK FALSE
