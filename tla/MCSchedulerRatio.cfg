SPECIFICATION FairSpec
CONSTANTS
    t1 = t1
    t2 = t2
    t3 = t3
    idle = idle
    nobody = nobody
    Thread <- MCTwoThreads
    First <- t1
    Idle <- idle
    Nobody <- nobody
    NullLate = TRUE
    MaxSleep = 2
    Calls = {"yield"}
PROPERTIES
    P1GetsATurn
