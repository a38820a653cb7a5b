SPECIFICATION FairSpec
CONSTANTS
    Requests = {r1}
    Kinds = {"send", "direct", "reply", "attach", "attachDirect"}
    SharedMedia = TRUE
    MaxCrashes = 1
INVARIANTS
    TypeOK
    SentIsDelivered
    DeliveredOnce
    FailedIsHonest
    AttachmentsDelivered
    ToldIsRecorded
    FilesReclaimed
PROPERTIES
    PendingIsSettled
    LogPromise
CHECK_DEADLOCK FALSE
