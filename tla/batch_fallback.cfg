CONSTANTS
    LastDay = 4
    Configs <- FallbackLoop
    MaxRows = 3
    RowCounts = {0, 2}
    MaxDepth = 1
    Threshold = 2
    MaxFailures = 0
SPECIFICATION Spec
INVARIANT NothingSilentlyLost
CHECK_DEADLOCK FALSE
