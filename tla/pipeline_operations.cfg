SPECIFICATION Spec
CONSTANTS
  Issue = {1}
  None = None
  MaxRetries = 1
  AutoStart = TRUE
  UserOps = {"approve", "reject", "retry", "restartStage", "restartFull", "block", "unblock",
             "process", "decline", "approveMerge", "toggle", "yolo", "close", "reopen",
             "shutdown"}
  MaxOps = 2
  MaxCrashes = 0
  MaxFaults = 1
  LoggedMayFail = TRUE
INVARIANTS ReviewedBeforePR SettledStartsOver AlreadyDoneHasNoWork DoneIsEarned
PROPERTIES BlockedIsLeftAlone
