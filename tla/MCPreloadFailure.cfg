SPECIFICATION Spec
CONSTANTS
    Accounts = {a1, a2}
    overview = overview
    cost = cost
    Kinds <- MCKinds
    Strict = {overview}
    NoAccount = NoAccount
    NoCall = NoCall
    MaxQueueSize = 1
    MaxAccounts = 1
    MaxTasks = 4
    MaxPriority = 2
INVARIANTS
    FailureIsNotCached
CHECK_DEADLOCK FALSE
