SPECIFICATION FairSpec
CONSTANTS
    Loops = {l1}
    ThreadNum = 2
    Objs = {o1}
    Args = {a1, a2}
    MaxFree = 2
    Waiters = {x1, x2}
    NoObj = NoObj
    NoArg = NoArg
INVARIANTS
    WaitCoversEarlierJobs
PROPERTIES
    AcceptedIsRun
    WaitReturns
