SPECIFICATION FairSpec
CONSTANTS
    Accounts = {a1, a2}
    Clients = {c1}
    Keeper = Keeper
    Nobody = Nobody
    Pages = {"usage"}
    MaxFailures = 2
    MaxEvents = 4
    BusyCost = 2
INVARIANTS BookAgrees MarkNotStored RenewsOnce
PROPERTIES ClearsItsOwn RequestsEnd KeptAlive
CHECK_DEADLOCK FALSE
