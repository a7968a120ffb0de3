SPECIFICATION Spec
CONSTANTS
    r1 = r1
    r2 = r2
    r3 = r3
    None = None
    Dialers = {"d1", "d2"}
    Requests <- MCRequests
    PriorityOf <- MCPriorityOf
    FrameBytes <- MCFrameBytes
    Scoped <- MCScoped
    MaxQueued = 2
    MaxQueuedBytes = 3
    MaxFrameBytes = 3
    MaxEpoch = 3
INVARIANTS
    TypeOK
    RequestsAreHeld
    QueueAccounting
    RepliesAreOwn
PROPERTIES
    UrgentFirst
    StaleScopeIsSilent
    EverythingEnds
    ImplementsPromise
CHECK_DEADLOCK FALSE
