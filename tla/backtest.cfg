CONSTANTS
    x1 = x1
    x2 = x2
    y1 = y1
    NoBar = NoBar
    NoPosition = NoPosition
    Symbols <- Stocks
    Sector <- Sectors
    LimitPct <- Limits
    Modes <- Both
    Scores <- TwoScores
    Markets <- Histories
    StartDate = 1
    LastDate = 5
    InitialCash = 2500000
    MaxHoldings = 2
    MaxPositionPct = 60
    MaxSectorPct = 40
    StopLossPct = 8
    TrendMa = 3
    TrailingPct = 9
    MaxHoldingDays = 1
    CommissionBuyPct = 1
    CommissionSellPct = 2
    SlippagePct = 1
SPECIFICATION Spec
INVARIANTS
    TypeOK
    EquityMatchesLedger
    SoldAfterBought
    FundsFollowDates
    StopHonoured
PROPERTY AccountKept
CHECK_DEADLOCK FALSE
