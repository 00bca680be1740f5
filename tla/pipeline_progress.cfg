SPECIFICATION FairSpec
CONSTANTS
  Issue = {1}
  None = None
  MaxRetries = 2
  AutoStart = TRUE
  UserOps = {"approveMerge", "decline", "yolo", "block"}
  MaxOps = 1
  MaxCrashes = 1
  MaxFaults = 1
  LoggedMayFail = FALSE
INVARIANTS CICheckedOrDeclined
PROPERTIES WorkerFreed MergedBecomesDone InterruptedIsResumed
