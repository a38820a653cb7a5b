SPECIFICATION Spec
CONSTANTS
    Messages = {m1}
    Cycles = {c1}
    Users = {u1}
    Suggestions = {"archive", "move"}
    Rules = {}
    Overrides = {FALSE}
    MaxFaults = 0
INVARIANT PendingIsExecutable
CHECK_DEADLOCK FALSE
