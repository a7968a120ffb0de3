SPECIFICATION Spec
CONSTANTS
    NoAnswer = NoAnswer
    Kinds = {"continue", "pause", "step", "restart", "reload", "detach"}
    Logpoints = TRUE
    MaxTasks = 3
    MaxRequests = 2
    MaxStops = 1
    MaxRefusals = 1
CHECK_DEADLOCK FALSE
INVARIANTS
    NonOverlapping
PROPERTIES
    HandledOnce
