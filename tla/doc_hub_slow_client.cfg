SPECIFICATION FairSpec
CONSTANTS
  c2 = c2
  c1 = c1
  Client = {c1, c2}
  Limit = 2
  Buffer = 1
  Stops = FALSE
  MaxBroadcasts = 2
  MaxPings = 0
PROPERTIES SlowClientIsClosed
CHECK_DEADLOCK FALSE
