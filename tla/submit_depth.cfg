CONSTANTS
    r1 = r1  r2 = r2  r3 = r3  r4 = r4  k1 = k1
    Requests = {r1, r2, r3, r4}
    Keys = {k1}
    KeyOf <- Unkeyed
    NoKey = NoKey
    NoTask = NoTask
    Never = Never
    MaxInProgress = 2
    MaxDepth = 1
    CleanupLimit = 1
    Ttl = 1
    MaxClock = 0
    Faults = {"crash"}
SPECIFICATION Spec
SYMMETRY RequestSymmetry
CHECK_DEADLOCK FALSE
INVARIANTS DepthBounded
