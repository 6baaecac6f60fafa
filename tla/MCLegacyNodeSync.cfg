CONSTANTS
    Handlers = {h1, h2}
    Profiles = {"p1", "p2"}
    Models = {"m1", "m2"}
    BindingLists <- MCBindingLists
    Bound <- MCBound
    None = None
    MaxSeconds = 1
    MaxEdits = 1
    MaxFaults = 1
SPECIFICATION FairSpec
CHECK_DEADLOCK FALSE
INVARIANTS
    TypeOK
    VersionHistory
    EtagNamesFile
PROPERTIES
    FileForward
    Settles
