SPECIFICATION Spec
CONSTANTS
    i1 = i1
    p1 = p1
    p2 = p2
    c1 = c1
    d1 = d1
    init = init
    proc = proc
    childC = childC
    childD = childD
    none = none
    Thread <- MCThread
    Process <- MCProcess
    Home <- MCHome
    InitProc <- init
    FirstThread <- i1
    None <- none
INVARIANT InformsAllChildren
CHECK_DEADLOCK FALSE
SYMMETRY MCSymmetry
