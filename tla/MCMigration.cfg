CONSTANTS
    Devices = {d1, d2}
    Models <- MCModels
    Keys = {"k", "l"}
    OldRows <- MCOldRows
    MaxIds = 3
    MaxCalls = 2
    MaxEdits = 4
    MaxCrashes = 2
SPECIFICATION FairSpec
CHECK_DEADLOCK FALSE
INVARIANTS
    TypeOK
    RowsKept
    OrderKept
    NothingHidden
PROPERTY
    EventuallyServes
