SPECIFICATION Spec
CONSTANTS
    Names = {n1, n2}
    Clients = {c1, c2}
    NoSnapshot = NoSnapshot
    WholeFileRewrite = TRUE
    MaxWrites = 2
    MaxWriteFailures = 1
    MaxLoadFailures = 0
    MaxCrashes = 1
INVARIANTS
    CleanIsSaved
    StopSaves
PROPERTIES
    AtomicStore
CHECK_DEADLOCK FALSE
