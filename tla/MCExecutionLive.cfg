SPECIFICATION Spec
CONSTANTS
    NoAnswer = NoAnswer
    Kinds = {"continue", "pause", "next", "reset", "detach"}
    Logpoints = TRUE
    MaxTasks = 3
    MaxRequests = 2
    MaxStops = 1
    MaxRefusals = 0
CHECK_DEADLOCK FALSE
PROPERTIES
    PollingEnds
    StopsAreFound
