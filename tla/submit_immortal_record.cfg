CONSTANTS
    r1 = r1  r2 = r2  r3 = r3  r4 = r4  k1 = k1
    Requests = {r1, r2, r3}
    Keys = {k1}
    KeyOf <- SharedKey
    NoKey = NoKey
    NoTask = NoTask
    Never = Never
    MaxInProgress = 2
    MaxDepth = 1
    CleanupLimit = 1
    Ttl = 1
    MaxClock = 2
    Faults = {}
SPECIFICATION Spec
CHECK_DEADLOCK FALSE
INVARIANTS NoImmortalRecord
