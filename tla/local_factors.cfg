CONSTANTS
    r1 = r1
    r2 = r2
    Runs <- TwoRuns
    Files = 1
    Parts = 2
    MaxVersions = 2
    Revised <- FirstBlock
    Adj = TRUE
SPECIFICATION Spec
INVARIANTS
    MarkedMeansWritten
SYMMETRY Symmetry
VIEW MarkView
CHECK_DEADLOCK FALSE
