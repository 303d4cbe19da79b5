SPECIFICATION Spec
CONSTANTS
    t1 = t1
    t2 = t2
    t3 = t3
    outer = outer
    inner = inner
    cond = cond
    none = none
    Thread <- MCThread
    Mutex <- MCMutex
    Cond <- MCCond
    CondMutex <- MCCondMutex
    Rank <- MCRank
    Unspecified <- none
INVARIANTS
    TypeOK
    MutualExclusion
    NoPanic
    CountAccounts
    OneQueuePerThread
    NoLockDeadlock
PROPERTIES
    ServesInOrder
CHECK_DEADLOCK FALSE
