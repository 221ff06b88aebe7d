CONSTANTS
    t1 = t1  t2 = t2  w1 = w1  w2 = w2
    Tasks = {t1}
    Kind <- CircuitKind
    Workers = {w1}
    Role <- CircuitRole
    Cancellers = {c1}
    MaxRetries = 1
    MaxIterations = 1
    Faults = {}
    MaxExtra = 0
    NoTask = NoTask
SPECIFICATION Spec
CHECK_DEADLOCK FALSE
PROPERTIES CancelIsFinal
