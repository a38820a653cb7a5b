SPECIFICATION Spec
CONSTANTS
    Requests = {r1}
    Kinds = {"send", "direct", "reply", "attach", "attachDirect"}
    SharedMedia = FALSE
    MaxCrashes = 1
INVARIANT AttachmentsDelivered
CHECK_DEADLOCK FALSE
