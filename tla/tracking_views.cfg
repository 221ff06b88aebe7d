CONSTANTS
    Tasks = {t1, t2}
    NoTask = NoTask
    Strategies = {"stream-first", "polling-only"}
    Calls = {c1, c2}
    Outcomes = {"SUCCESS", "FAILURE"}
    MaxSubmits = 2
    MaxBuffer = 2
    Faults = {"streamEnds", "callFails"}
SPECIFICATION FairSpec
CHECK_DEADLOCK FALSE
INVARIANTS TypeOK SourcesAgree
PROPERTIES TrackingEnds 
