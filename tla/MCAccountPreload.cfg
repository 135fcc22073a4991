SPECIFICATION Spec
CONSTANTS
    Accounts = {a1, a2, a3}
    overview = overview
    cost = cost
    Kinds <- MCKinds
    Strict = {overview}
    NoAccount = NoAccount
    NoCall = NoCall
    MaxQueueSize = 2
    MaxAccounts = 1
    MaxTasks = 4
    MaxPriority = 2
INVARIANTS
    CacheTracked
PROPERTIES
    TasksKept
    StaysLoggedOut
CHECK_DEADLOCK FALSE
SYMMETRY Symmetry
