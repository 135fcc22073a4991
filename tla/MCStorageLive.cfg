SPECIFICATION FairSpec
CONSTANTS
    Names = {n1}
    Clients = {c1, c2}
    NoSnapshot = NoSnapshot
    WholeFileRewrite = TRUE
    MaxWrites = 2
    MaxWriteFailures = 1
    MaxLoadFailures = 1
    MaxCrashes = 0
PROPERTIES
    WrittenBack
    Answered
CHECK_DEADLOCK FALSE
