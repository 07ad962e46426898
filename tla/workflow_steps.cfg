CONSTANTS
    w1 = w1
    w2 = w2
    None = None
    Rival = Rival
    Workflows <- OneWorkflow
    NumSteps = 2
    Optional <- FirstStep
    Contended <- FirstStep
    MaxCalls = 2
    MaxRuns = 1
    MaxLost = 1
    MaxDrops = 1
SPECIFICATION Spec
CONSTRAINT LossIsBounded
INVARIANTS
    TypeOK
    CompletedMeansImported
    ImportHoldsLock
    AtMostOneStepAfterFlag
CHECK_DEADLOCK FALSE
