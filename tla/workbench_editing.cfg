SPECIFICATION Spec
CONSTANTS
    Sessions <- AllSessions
    HistoryLimit = 2
    MinQubits = 1
    MaxQubits = 3
INVARIANTS
    TypeOK
    HistoryWellFormed
    TextAgrees
    OwnTextIsRead
    ReloadRestores
    SubmittedAccepted
PROPERTY
    ImplementsTimeline
CHECK_DEADLOCK FALSE
