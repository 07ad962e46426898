CONSTANTS
    r1 = r1
    r2 = r2
    kline = kline
    money_flow = money_flow
    NoRecord = NoRecord
    Starts <- TwoStarts
    Types <- TwoTypes
    Items = 1
    MaxTasks = 2
    MaxStops = 1
    MaxFaults = 0
SPECIFICATION Spec
INVARIANTS
    TypeOK
    ProgressNotAhead
    RunningHasRunner
SYMMETRY Symmetry
CHECK_DEADLOCK FALSE
