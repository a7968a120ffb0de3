SPECIFICATION Spec
CONSTANTS
    a1 = a1
    a2 = a2
    s1 = s1
    s2 = s2
    Addresses <- MCAddresses
    Sources <- MCSources
    Configs <- MCConfigs
    Logpoints <- MCLogpoints
    BackendOf <- MCBackendOf
    None = "none"
    Temp = "temp"
    Foreign = "foreign"
    Modes <- MCModes
    MaxRefs = 2
    MaxOperations = 3
SYMMETRY Symmetric
CHECK_DEADLOCK FALSE
INVARIANTS
    BooksAreKept
    ConsistentBetweenOperations
PROPERTIES
    OthersAreUndisturbed
