CONSTANTS
    Tasks = {t1, t2}
    NoTask = NoTask
    Strategies = {"polling-only"}
    Calls = {c1, c2}
    Outcomes = {"SUCCESS", "FAILURE"}
    MaxSubmits = 2
    MaxBuffer = 2
    Faults = {}
SPECIFICATION FairSpec
CHECK_DEADLOCK FALSE
PROPERTIES EndIsShown
