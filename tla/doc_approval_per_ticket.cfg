SPECIFICATION Spec
CONSTANTS
  Issue = {1, 2}
  None = None
  MaxRetries = 2
  AutoStart = TRUE
  UserOps = {"approveMerge"}
  MaxOps = 2
  MaxCrashes = 0
  MaxFaults = 0
  LoggedMayFail = FALSE
INVARIANTS MergedIsApproved
