SPECIFICATION FairSpec
CONSTANTS
    MaxChanges = 4
    MaxFailures = 2
INVARIANTS
    ChangesTracked
    FlushStores
PROPERTIES
    StoredForward
    ChangesStored
CHECK_DEADLOCK FALSE
