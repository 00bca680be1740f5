SPECIFICATION FairSpec
CONSTANTS
  Issue = {1, 2}
  None = None
  MaxRetries = 1
  AutoStart = TRUE
  UserOps = {"approveMerge", "decline"}
  MaxOps = 2
  MaxCrashes = 0
  MaxFaults = 0
  LoggedMayFail = FALSE
INVARIANTS TypeOK ApprovalSpent
PROPERTIES SprintDrains
