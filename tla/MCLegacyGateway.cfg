CONSTANTS
    p1 = p1
    p2 = p2
    p3 = p3
    Providers <- ThreeProviders
    Rank <- ByName
    Tables <- ThreeTables
    Chats = {r1}
    Checks = {c1}
    MaxRetries = 1
    MaxChanges = 1
SPECIFICATION FairGateway
CHECK_DEADLOCK FALSE
INVARIANTS
    GatewayTypeOK
    TakesTurns
PROPERTIES
    AllTried
    HealthTracks
