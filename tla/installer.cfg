SPECIFICATION FairSpec
CONSTANTS
    Requests = {1, 2}
    Procs = {1, 2}
    NoOne = none
    MaxFaults = 1
INVARIANTS
    LateComersAreRefused
    CompletedMeansInstalled
    TrustedCaIsServed
    BootStateTellsTheJob
PROPERTIES
    EarlyReaderIsAnswered
CHECK_DEADLOCK FALSE
