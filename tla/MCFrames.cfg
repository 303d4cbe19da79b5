SPECIFICATION Spec
CONSTANTS
    d1 = d1
    d2 = d2
    d3 = d3
    image = image
    heap = heap
    Ppd <- MCPpd
    Region <- MCRegion
    First <- MCFirst
    Last <- MCLast
    EndsOnPage <- MCEndsOnPage
    None = None
    NPages = 3
    Total = 3
    MaxUnreserved = 4
INVARIANTS
    TypeOK
    EveryFrameOnce
    UserSeesOwnFrames
    AvailableAccounts
    PromisesKept
SYMMETRY MCSymmetry
