SPECIFICATION FairSpec
CONSTANTS
    RequestLens <- MCRequestLens
    AnswerLens <- MCAnswerLens
    FirstSize = 2
    MaxAllocs = 1
    Misread = 1
    Workers <- MCWorkers
    Settings <- MCSettings
INVARIANTS
    ExactFraming
    ClosesOnlyAtEnd
    OwnWholeAnswer
PROPERTIES
    EveryRequestParsed
    QueryReturns
CHECK_DEADLOCK FALSE
