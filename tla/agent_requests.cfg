SPECIFICATION Spec
CONSTANTS
    Messages = {m1}
    Cycles = {c1}
    Users = {u1, u2}
    Suggestions = {"archive", "move", "reply"}
    Rules = {"archive", "move_spam", "not_spam", "other", "spam"}
    Overrides = {FALSE, TRUE}
    MaxFaults = 2
INVARIANTS
    AppliedIsExecuted
    RejectedIsHonest
    HiddenHasLeft
PROPERTY ApprovalPromise
CHECK_DEADLOCK FALSE
