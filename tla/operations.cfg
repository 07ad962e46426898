CONSTANTS
    p1 = p1
    p2 = p2
    s1 = s1
    e1 = e1
    e2 = e2
    NoRow = NoRow
    Plans <- TwoPlans
    MaxPlans = 1
    Positions <- OnePosition
    Evaluators <- TwoEvaluators
    MaxEvaluations = 2
    Cost = 100
    Prices <- PriceSteps
    Averages <- NoneOrAverage
    SalePrices <- OneSale
    HandStages <- OneStage
    StopPrices <- HandStops
    FixedPct = 8
    TrailingTrigger = 5
    TrailingPct = 5
    TightTrigger = 10
    TightPct = 3
    LongDays = 2
SPECIFICATION Spec
CONSTRAINT OneScreened
INVARIANTS
    TypeOK
    PlansWithinLimit
    HeldAboveStop
PROPERTIES SaleKept
SYMMETRY Symmetry
CHECK_DEADLOCK FALSE
