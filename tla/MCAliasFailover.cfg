CONSTANTS
    a1 = a1
    a2 = a2
    m1 = m1
    m2 = m2
    m3 = m3
    None = None
    Accounts <- TwoAccounts
    Models <- ThreeModels
    AccountOf <- Owner
    TargetLists <- Lists
    MaxEdits = 2
    MaxOutages = 1
SPECIFICATION FairSpec
CHECK_DEADLOCK FALSE
INVARIANTS
    TypeOK
    AnswerFollowsCalls
PROPERTY
    CooldownProtects
    Recovers
