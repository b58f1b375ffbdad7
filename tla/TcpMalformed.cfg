SPECIFICATION Spec
CONSTANTS
    Clients = {k1}
    Workers = {w1}
    Fds = {f1}
    MaxSend = 1
    RefDepth = 1
    Settings <- MalformedSettings
    Bad = Bad
    None = None
INVARIANTS
    SurvivesProcessError
CHECK_DEADLOCK FALSE
