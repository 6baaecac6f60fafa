CONSTANTS
    Handlers = {h1, h2}
    NParts = 2
    Values = {a, b}
    NoHandler = NoHandler
    Corrupt = Corrupt
    MaxEdits = 1
    MaxDeaths = 1
    MaxCrashes = 1
SPECIFICATION FairSpec
CHECK_DEADLOCK FALSE
INVARIANTS
    TypeOK
    InstalledPublished
    RecordedInstalled
    ReportedRunning
PROPERTIES
    NeverGoesBack
    ImplementsHistory
    Converges
