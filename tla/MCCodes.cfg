SPECIFICATION Spec
CONSTANTS
    Threads = {t1, t2}
    Minute = 4
    Twins = FALSE
    MaxFaults = 1
SYMMETRY Symmetry
INVARIANTS
    CodesTypeOK
    BurstBound
    FloodBound
    AloneNeverBlocked
    BlockEnds
