SPECIFICATION Spec
CONSTANTS
    Requests = {r1, r2}
    Keys = {k1, k2, k3}
    NoKey = none
    Txt = txt
    Spf = spf
    Ids = {1, 2, 3, 4}
    Hosted = {2, 3, 4}
    Boss = boss
    n2 = n2
    n3 = n3
    Names = {boss, n2, n3}
    MaxAccounts = 2
    Asked <- MCAsked
    FirstAccounts <- MCFirstAccounts
SYMMETRY Symmetry
INVARIANTS
    KeyFitsRecord
    ZoneIsKept
    AdminRemains
    VmailFollows
PROPERTIES
    CountsHold
CHECK_DEADLOCK FALSE
