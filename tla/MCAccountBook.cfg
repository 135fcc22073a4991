SPECIFICATION Spec
CONSTANTS
    Accounts = {a1, a2}
    Clients = {c1}
    Keeper = Keeper
    Nobody = Nobody
    Pages = {"usage"}
    MaxFailures = 2
    MaxEvents = 3
    BusyCost = 1
INVARIANTS AlwaysAgrees
CHECK_DEADLOCK FALSE
