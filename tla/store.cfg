SPECIFICATION FairSpec
CONSTANTS
  c1 = c1
  c2 = c2
  Caller = {c1, c2}
  Calls = 2
  Total = 3
  Writes <- MCWrites
  Capacity = 1
  MaxTime = 2
  MaxFaults = 1
  Idle = Idle
INVARIANTS TypeOK RowsEndedByOwner NothingAcceptedIsLost
PROPERTIES KeepsPromise CacheForward CallsReturn
CHECK_DEADLOCK FALSE
