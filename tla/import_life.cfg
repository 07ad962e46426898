CONSTANTS
    t1 = t1
    t2 = t2
    None = None
    Tasks <- Alone
    Strategies <- Both
    MaxBatches = 2
    MaxStops = 1
    MaxLost = 1
SPECIFICATION FairSpec
INVARIANTS
    TypeOK
    AtMostOneBatchAfterStop
    CompletedMeansSwept
    StopClosesLog
    OutcomesAgree
PROPERTIES SentTaskSettles StopSettles
CHECK_DEADLOCK FALSE
