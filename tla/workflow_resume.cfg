CONSTANTS
    w1 = w1
    w2 = w2
    None = None
    Rival = Rival
    Workflows <- OneWorkflow
    NumSteps = 1
    Optional <- NoStep
    Contended <- NoStep
    MaxCalls = 3
    MaxRuns = 2
    MaxLost = 0
    MaxDrops = 1
SPECIFICATION Spec
ACTION_CONSTRAINT KeyExpires
INVARIANTS
    LiveRunHoldsKey
PROPERTY RunningKeyIsLease
CHECK_DEADLOCK FALSE
