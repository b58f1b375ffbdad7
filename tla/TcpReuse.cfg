SPECIFICATION Spec
CONSTANTS
    Clients = {k1, k2}
    Workers = {w1}
    Fds = {f1}
    MaxSend = 1
    RefDepth = 1
    Settings <- ReuseSettings
    Bad = Bad
    None = None
INVARIANTS
    AnswerToAsker
CHECK_DEADLOCK FALSE
