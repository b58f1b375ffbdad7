SPECIFICATION Spec
CONSTANTS
    Clients = {k1, k2}
    Workers = {w1, w2}
    Fds = {f1, f2}
    MaxSend = 2
    RefDepth = 1
    Settings <- SafetySettings
    Bad = Bad
    None = None
SYMMETRY Symmetry
INVARIANTS
    TypeOK
    EventOnOwnSocket
    RefCountsHolders
    TeardownOnce
    HangsUpOnlyOnClosed
    OwnAnswers
    SurvivesClosing
CHECK_DEADLOCK FALSE
