SPECIFICATION Spec
CONSTANTS
  Issue = {1}
  None = None
  MaxRetries = 2
  AutoStart = TRUE
  UserOps = {"approveMerge", "decline"}
  MaxOps = 2
  MaxCrashes = 0
  MaxFaults = 0
  LoggedMayFail = FALSE
INVARIANTS MergedWasGreen
