SPECIFICATION Spec
CONSTANTS
    p1 = p1
    p2 = p2
    p3 = p3
    None = None
    External = External
    Procs <- MCProcs
    MaxAttempts = 2
    ForeignRun = FALSE
    PromptExit = TRUE
    MaxRequests = 3
INVARIANTS
    TypeOK
    LinkFacts
    ProcessesAccounted
    StopIsShared
PROPERTIES
    SavedBeforeKill
    LatestWins
    ShutdownReleases
    TransitionsEnd
CHECK_DEADLOCK FALSE
