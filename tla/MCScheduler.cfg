SPECIFICATION Spec
CONSTANTS
    t1 = t1
    t2 = t2
    t3 = t3
    idle = idle
    nobody = nobody
    Thread <- MCThread
    First <- t1
    Idle <- idle
    Nobody <- nobody
    NullLate = TRUE
    MaxSleep = 2
    Calls = {"yield", "sleep", "deschedule", "block", "exit"}
INVARIANTS
    TypeOK
    QueuesMatchStates
    CurrentRunnable
    SleepersInOrder
    NoLostWakeup
PROPERTIES
    WorkConserving
