CONSTANTS
    LastDay = 6
    Configs <- Registry
    MaxRows = 3
    RowCounts = {0, 1, 3}
    MaxDepth = 2
    Threshold = 2
    MaxFailures = 1
SPECIFICATION Spec
INVARIANTS
    TypeOK
    PlanCoversRange
    WrittenOnce
    NothingSilentlyLost
CHECK_DEADLOCK FALSE
