SPECIFICATION Spec
CONSTANTS
    Names = {n1, n2}
    Clients = {c1, c2}
    NoSnapshot = NoSnapshot
    WholeFileRewrite = FALSE
    MaxWrites = 2
    MaxWriteFailures = 1
    MaxLoadFailures = 1
    MaxCrashes = 0
INVARIANTS
    ReadsSeeWrites
CHECK_DEADLOCK FALSE
