SPECIFICATION Spec
CONSTANTS
    Keys = {k1}
    m1 = m1
    m2 = m2
    Models = {m1}
    Requests = {r1, r2}
    NoKey = NoKey
    NoModel = NoModel
    MaxRetries = 0
    RetryEnabled = TRUE
    PendingTTL = 1
    MaxHold = 2
    DayLength = 9
    MaxTime = 2
    DefaultTotal = 1
    TotalLimits = {}
    ModelLimits <- NoModelLimits
INVARIANTS
    NeverOverCounted
