SPECIFICATION Spec
CONSTANTS
    p1 = p1
    p2 = p2
    p3 = p3
    None = None
    External = External
    Procs <- MCProcs
    MaxAttempts = 2
    ForeignRun = FALSE
    PromptExit = FALSE
    MaxRequests = 3
SYMMETRY Symmetry
PROPERTIES
    ShutdownReleases
CHECK_DEADLOCK FALSE
