SPECIFICATION FairSpec
CONSTANTS
    Jobs = {j1, j2}
    Repeating = {j2}
    Interval = 2
    MaxTime = 3
    Never = Never
    ConfFiles <- MCConfFiles
    GarbagePorts <- MCGarbagePorts
    GarbageThreads <- MCGarbageThreads
    Taken <- MCTaken
    LowestFds = {0, 3}
    MaxFailures = 2
    DefaultThreads = 4
    DefaultLength = 1
    IntSize = 1
INVARIANTS
    ServersReachable
    DescriptorsAccounted
PROPERTIES
    EveryTimerFires
CHECK_DEADLOCK FALSE
