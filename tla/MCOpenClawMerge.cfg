SPECIFICATION FairSpec
CONSTANTS
    Providers = {"p1", "p2"}
    Models = {"m1", "m2"}
    BindingLists <- MCBindingLists
    KeepConfigs <- MCKeepConfigs
    LocalKeys <- MCLocalKeys
    MaxEdits = 2
    MaxLocalEdits = 1
    MaxDeaths = 1
CHECK_DEADLOCK FALSE
INVARIANTS
    TypeOK
    DefaultsResolve
PROPERTIES
    PreservedStay
    Settles
