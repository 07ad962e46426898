CONSTANTS
    t1 = t1
    t2 = t2
    None = None
    Tasks <- Pair
    Strategies <- OneCall
    MaxBatches = 1
    MaxStops = 1
    MaxLost = 1
SPECIFICATION Spec
SYMMETRY Symmetry
VIEW Contention
INVARIANTS OverlapNeedsBreach LockOutlivesOnlyFaults
PROPERTY LockIsLease
CHECK_DEADLOCK FALSE
