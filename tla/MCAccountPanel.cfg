SPECIFICATION Spec
CONSTANTS
    Accounts = {a1, a2}
    Clients = {c1}
    Keeper = Keeper
    Nobody = Nobody
    Pages = {"billing"}
    MaxFailures = 2
    MaxEvents = 4
    BusyCost = 2
INVARIANT CachesAreSeparate
CHECK_DEADLOCK FALSE
