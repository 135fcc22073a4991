SPECIFICATION Spec
CONSTANTS
    Requests = {r1, r2}
    Keys = {k1, k2}
    Models = {m1, m2}
    MaxShards = 2
    RecordsPerShard = 1
    MaxEvents = 2
SYMMETRY Symmetry
INVARIANTS CountedOnce FiltersAddUp
CHECK_DEADLOCK FALSE
