SPECIFICATION FairSpec
CONSTANTS
    Messages = {1, 2}
    Workers = {w1, w2}
    Batch = 2
    MaxQueued = 1
    MaxFaults = 1
INVARIANTS
    OutcomeIsHonest
    SentOnce
PROPERTIES
    SettledIsFinal
    DueIsSettled
    PlanPromise
CHECK_DEADLOCK FALSE
