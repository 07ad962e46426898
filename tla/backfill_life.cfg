CONSTANTS
    r1 = r1
    r2 = r2
    kline = kline
    money_flow = money_flow
    NoRecord = NoRecord
    Starts <- OneStart
    Types <- OneType
    Items = 2
    MaxTasks = 1
    MaxStops = 2
    MaxFaults = 1
SPECIFICATION FairSpec
INVARIANTS
    SignalHonoured
PROPERTIES
    RunningSettles
    StoppingSettles
CHECK_DEADLOCK FALSE
