SPECIFICATION SaverSpec
CONSTANTS
    MaxChanges = 2
    MaxFailures = 0
INVARIANTS
    FlushStoresAll
CHECK_DEADLOCK FALSE
