SPECIFICATION FairSpec
CONSTANTS
    Clients = {k1, k2}
    Workers = {w1, w2}
    MaxSend = 2
    MaxCopies = 2
    MaxBatch = 2
    Settings <- AllSettings
    Bad = Bad
    None = None
INVARIANTS
    InlineAnswersAsker
    AnsweredOnce
PROPERTIES
    ReceivedIsAnswered
CHECK_DEADLOCK FALSE
