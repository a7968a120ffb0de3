SPECIFICATION Spec
CONSTANTS
    None = None
    Views = {"scripts", "watchpoints", "edits", "performance"}
    Shared = {"scripts", "watchpoints", "edits", "performance"}
    Ids = {1, 2}
    Texts = {"a", "b"}
    MaxEvents = 3
    MaxQueue = 2
INVARIANTS
    MirrorIsHonest
PROPERTIES
    AskedHere
    SwitchKeepsText
    PollingGoesOn
    Converges
CHECK_DEADLOCK FALSE
