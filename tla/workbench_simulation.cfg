SPECIFICATION Spec
CONSTANTS
    Sessions <- AllSessions
    MaxSimulated = 10
INVARIANTS
    TypeOK
    RunningIsAwaited
    ShownIsCurrent
    
    TextMeansCircuit
    
PROPERTY
    SimulationSettles
CHECK_DEADLOCK FALSE
