SPECIFICATION FairSpec
CONSTANTS
    Clients = {k1, k2}
    Workers = {w1}
    Fds = {f1}
    MaxSend = 2
    RefDepth = 1
    Settings <- LiveSettings
    Bad = Bad
    None = None
PROPERTIES
    EveryRequestAnswered
    
    AnsweredOrClosed
    DescriptorReleased
CHECK_DEADLOCK FALSE
