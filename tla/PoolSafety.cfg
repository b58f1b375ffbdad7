SPECIFICATION Spec
CONSTANTS
    Loops = {l1, l2}
    ThreadNum = 1
    Objs = {o1, o2, o3}
    Args = {a1, a2, a3, a4}
    MaxFree = 2
    Waiters = {}
    NoObj = NoObj
    NoArg = NoArg
SYMMETRY Symmetry
INVARIANTS
    TypeOK
    NoSharedObject
    PoolAccounting
    FreeListBounded
    HeadIsRunning
    PendingIsLength
    NoLostWakeup
PROPERTIES
    ImplementsQueues
