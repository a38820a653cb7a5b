SPECIFICATION ClientSpec
CONSTANTS
    Requests = {r1}
    Kinds = {"reply"}
    SharedMedia = TRUE
    MaxCrashes = 0
    MaxDrops = 0
INVARIANT BarIsCurrent
CHECK_DEADLOCK FALSE
