SPECIFICATION Spec
CONSTANTS
    t1 = t1
    t2 = t2
    keyboard = keyboard
    readline = readline
    assigned = assigned
    Thread <- MCThread
    Device <- MCDevice
    Server <- MCServer
    Assigned <- MCAssigned
    Size = 3
    MaxSent = 4
    Nothing = null
INVARIANTS
    TypeOK
    NoMissedInterrupt
    WokenFindsEntry
    OwnershipAgrees
PROPERTIES
    RingImplementsQueue
SYMMETRY MCSymmetry
CHECK_DEADLOCK FALSE
