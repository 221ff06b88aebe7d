CONSTANTS
    t1 = t1  t2 = t2  w1 = w1  w2 = w2
    Tasks = {t1, t2}
    Kind <- MixedKind
    Workers = {w1, w2}
    Role <- MixedRole
    Cancellers = {c1}
    MaxRetries = 1
    MaxIterations = 2
    Faults = {"kill"}
    MaxExtra = 0
    NoTask = NoTask
SPECIFICATION FairSpec
CHECK_DEADLOCK FALSE
INVARIANTS TypeOK VerdictMatchesPayload RenewedOnlyTerminal
PROPERTIES CancelObservedSticks SettledFrozen VerdictStands  EveryTaskSettlesOrIsLost VerdictsRenewed
