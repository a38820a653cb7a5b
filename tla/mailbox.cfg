SPECIFICATION AssistantSpec
CONSTANTS
    Messages = {m1, m2}
    Folders = {"INBOX", "Drafts", "Trash", "INBOX.own"}
    Custom = {"INBOX.own"}
    Flags = {"seen", "flagged"}
    Limits = {1, 2}
    Jobs = {j1, j2}
    MaxUid = 2
    MaxFaults = 1
SYMMETRY Symmetry
INVARIANTS
    ListTellsPlace
    FlagsAgree
    TaskActsOnce
PROPERTIES
    CommandsMoveFound
CHECK_DEADLOCK FALSE
