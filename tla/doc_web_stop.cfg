SPECIFICATION FairSpec
CONSTANTS
    MaxRestarts = 2
    MaxStarts = 4
    MaxFailures = 3
PROPERTIES StopReturns
CHECK_DEADLOCK FALSE
