SPECIFICATION Spec
CONSTANTS
    m1 = m1
    m2 = m2
    Requests = {r1, r2}
    Tokens = {t1}
    Models <- MCModels
    Lists <- MCLists
    Asks <- MCAsks
    Quotas = {1, 2}
    MaxEdits = 3
SYMMETRY MCSymmetry
INVARIANTS
    QuotaKept
    ChargedOnce
    NoBypass
    GoneIsRefused
CHECK_DEADLOCK FALSE
