SPECIFICATION Spec
CONSTANTS
    NoAnswer = NoAnswer
    Kinds = {"pause"}
    Logpoints = TRUE
    MaxTasks = 3
    MaxRequests = 1
    MaxStops = 1
    MaxRefusals = 0
CHECK_DEADLOCK FALSE
PROPERTIES
    PauseHolds
