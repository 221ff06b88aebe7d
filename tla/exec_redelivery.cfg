CONSTANTS
    t1 = t1  t2 = t2  w1 = w1  w2 = w2
    Tasks = {t1}
    Kind <- CodeKind
    Workers = {w1, w2}
    Role <- CodeRole
    Cancellers = {c1}
    MaxRetries = 1
    MaxIterations = 1
    Faults = {"kill", "redeliver"}
    MaxExtra = 2
    NoTask = NoTask
SPECIFICATION Spec
SYMMETRY WorkerSymmetry
CHECK_DEADLOCK FALSE
INVARIANTS AttemptsBounded NoTaskForgotten
