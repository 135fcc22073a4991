SPECIFICATION Spec
CONSTANTS
    Requests = {r1}
    Keys = {k1}
    Models = {m1}
    MaxShards = 2
    RecordsPerShard = 1
    MaxEvents = 1
SYMMETRY Symmetry
INVARIANT OutcomesCountedOnce
CHECK_DEADLOCK FALSE
