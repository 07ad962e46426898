CONSTANTS
    r1 = r1
    r2 = r2
    Runs <- TwoRuns
    Files = 1
    Parts = 2
    MaxVersions = 1
    Revised <- FirstBlock
    Adj = FALSE
SPECIFICATION Spec
INVARIANTS
    TypeOK
    OverlapNeedsSilence
    StopObeyed
SYMMETRY Symmetry
CHECK_DEADLOCK FALSE
