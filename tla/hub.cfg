SPECIFICATION FairSpec
CONSTANTS
  c2 = c2
  c1 = c1
  Client = {c1,c2}
  Limit = 1
  Buffer = 2
  Stops = TRUE
  MaxBroadcasts = 2
  MaxPings = 1
INVARIANTS TypeOK ClosedOnce StoppedIsEmpty WithinLimit OnlyStopOrPingPanics
PROPERTIES GoneIsForgotten
CHECK_DEADLOCK FALSE
