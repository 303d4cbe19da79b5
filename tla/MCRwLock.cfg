SPECIFICATION Spec
CONSTANTS
    t1 = t1
    t2 = t2
    t3 = t3
    Thread <- MCThread
    Nobody = Nobody
INVARIANTS
    WriterAlone
SYMMETRY MCSymmetry
CHECK_DEADLOCK FALSE
