SPECIFICATION FairSpec
CONSTANTS
    Keys = {k1, k2}
    m1 = m1
    m2 = m2
    Models = {m1, m2}
    Requests = {r1, r2}
    NoKey = NoKey
    NoModel = NoModel
    MaxRetries = 1
    RetryEnabled = TRUE
    PendingTTL = 1
    MaxHold = 2
    DayLength = 2
    MaxTime = 2
    DefaultTotal = 1
    TotalLimits = {}
    ModelLimits <- NoModelLimits
INVARIANTS
    NoLeakedReservation
    HoldersCovered
PROPERTIES
    CommitmentsWithinLimit
    LedgerSpec
    RequestsAnswered
