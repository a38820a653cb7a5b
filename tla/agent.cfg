SPECIFICATION FairSpec
CONSTANTS
    Messages = {m1}
    Cycles = {c1, c2}
    Users = {u1}
    Suggestions = {"move"}
    Rules = {"spam", "move_spam"}
    Overrides = {TRUE}
    MaxFaults = 1
INVARIANTS
    RiskyIsApproved
    OnePending
PROPERTIES
    ResolvedIsFinal
    HitIsOffered
CHECK_DEADLOCK FALSE
