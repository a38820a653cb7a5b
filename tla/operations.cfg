SPECIFICATION Spec
CONSTANTS
    Requests = {r1, r2}
    First = first
    NoDump = nodump
    Nobody = nobody
    MaxFaults = 1
    Asked <- MCAsked
SYMMETRY Symmetry
INVARIANTS
    TypeOK
    BackupsAreTrue
    AlertsAreTrue
    TlsIsServed
CHECK_DEADLOCK FALSE
