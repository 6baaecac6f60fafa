CONSTANTS
    Devices = {d1}
    Tokens = {t1, t2}
    Machines = {m1, m2}
    Handlers = {h1, h2}
    None = None
    MaxSyncs = 3
    MaxCrashes = 2
SPECIFICATION Spec
SYMMETRY Symmetry
CHECK_DEADLOCK FALSE
INVARIANTS
    TypeOK
    RegisteredKnown
    NoLateReuse
    SpentForUse
