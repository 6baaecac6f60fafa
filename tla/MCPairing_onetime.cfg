CONSTANTS
    Devices = {d1}
    Tokens = {t1}
    Machines = {m1, m2}
    Handlers = {h1, h2}
    None = None
    MaxSyncs = 2
    MaxCrashes = 0
SPECIFICATION Spec
CHECK_DEADLOCK FALSE
INVARIANT
    OneTime
