SPECIFICATION Spec
CONSTANTS
    Clients = {k1, k2}
    Workers = {w1}
    MaxSend = 1
    MaxCopies = 1
    MaxBatch = 1
    Settings <- AddressSettings
    Bad = Bad
    None = None
INVARIANTS
    AnswerToAsker
CHECK_DEADLOCK FALSE
