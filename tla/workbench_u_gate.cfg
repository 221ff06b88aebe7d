SPECIFICATION Spec
CONSTANTS
    Sessions <- UGate
    MaxSimulated = 10
INVARIANT
    SubmittedAsDefined
CHECK_DEADLOCK FALSE
