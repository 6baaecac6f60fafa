SPECIFICATION Spec
CONSTANTS
    Providers = {"p1", "p2"}
    Models = {"m1", "m2"}
    BindingLists <- MCBindingLists
    KeepConfigs <- MCKeepConfigs
    LocalKeys <- MCLocalKeys
    MaxEdits = 1
    MaxLocalEdits = 0
    MaxDeaths = 0
CHECK_DEADLOCK FALSE
INVARIANTS
    NoDangling
