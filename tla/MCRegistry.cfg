CONSTANTS
    Requests = {r1, r2}
    Answers <- MCAnswers
    Listings <- MCListings
    Lists <- MCLists
    Models <- MCModels
    FreeNamed <- MCFreeNamed
    TopN = 2
    MaxIds = 5
    MaxStarts = 3
    MaxEdits = 1
SPECIFICATION Spec
SYMMETRY Symmetry
CHECK_DEADLOCK FALSE
INVARIANTS
    TypeOK
    LastListerWins
    AloneSyncIsExact
    TwinsOnlyFromRaces
    ImportOfOneSave
