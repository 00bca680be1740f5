SPECIFICATION FairSpec
CONSTANTS
  Issue = {1}
  Handler = {"h1"}
  Syncer = {"s1"}
  Targets = {"stage:done", "stage:blocked"}
  None = None
  MaxChanges = 1
  MaxEdits = 1
  MaxClock = 1
  MaxFaults = 1
  MaxCrashes = 1
INVARIANTS ShownStays OneStage
PROPERTIES CacheSettles ClosedBecomesDone
CHECK_DEADLOCK FALSE
