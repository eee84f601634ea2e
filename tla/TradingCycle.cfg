SPECIFICATION Spec
CONSTANTS
    Tickers = {1, 2}
    Universe = {1, 2}
    Scale = 100
    EdgeThreshold = 2
    MinP10 <- MCMinP10
    MaxPositionWeight = 50
    MaxGrossExposure = 100
    RebalanceBand = 15
    MaxOrdersPerDay = 2
    MaxDailyLoss = 30
    MaxDrawdown = 20
    MinPrice = 5
    MaxPriceAge = 1
    MaxEquityMismatch = 10
    SlippageBuffer = 10
    Runs = {r1, r2}
    Serial = TRUE
    ForecastFiles <- RotatingFiles
    OpeningPrices <- MCOpeningPrices
    StartCash = 20
    StartHeld <- MCStartHeld
    StartPrice = 10
    KillSwitchUsed = FALSE
    GlitchEquities = {80}
    MaxEquity = 100
    MaxDay = 2
    MaxCrashes = 1
SYMMETRY RunSymmetry
INVARIANTS
    TypeOK
    WriteAhead
    AttemptedOnce
    PositionsWithinPlan
    DailyOrderLimit
    DrawdownHeld
    GlitchNeverRecorded
    OutcomesRecorded
    BreachStopsCycle
PROPERTIES
    ImplementsLifecycle
    CallsRunOut
CHECK_DEADLOCK FALSE
