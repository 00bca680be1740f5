SPECIFICATION Spec
CONSTANTS
    Component = {"web", "log", "settings", "wizard", "close", "cleanup"}
    MaxRestarts = 2
    MaxStarts = 4
    MaxFailures = 3
    Ticket = {1, 2}
    MaxFiles = 1
    MaxPieces = 3
    MaxTickets = 2
    Handler = {"r1"}
    Deliveries = 2
    MaxWrites = 2
    Refresher = {"r1"}
    Limit = 4
    MaxUses = 2
    Request = {"r1", "r2"}
    MaxSessions = 1
    MaxIds = 2
    MaxRefines = 2
    MaxFaults = 1
    Closer = {"c1", "c2"}
    Bump = {"patch"}
    MaxSprints = 4
    MaxCloses = 2
    MaxCallFaults = 1
    MaxStops = 1
    Merged = {"t1", "t2"}
    MaxCommits = 2
    MaxGitFaults = 1
    MaxCleanups = 1
INVARIANTS NoneLeftBehind TextOnce OneIssue 
    ASprintIsOpen ReleasedSprintHasTag SeenWorkSurvives
PROPERTIES StopIsFinal
CHECK_DEADLOCK FALSE
