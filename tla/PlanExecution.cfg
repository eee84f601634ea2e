SPECIFICATION Spec
CONSTANTS
    Tickers = {1, 2, 3}
    Universe = {1, 2}
    Scale = 100
    EdgeThreshold = 2
    MinP10 <- MCMinP10
    MaxPositionWeight = 50
    MaxGrossExposure = 100
    RebalanceBand = 15
    MaxOrdersPerDay = 2
    MaxDailyLoss = 20
    MaxDrawdown = 30
    MinPrice = 5
    MaxPriceAge = 5
    MaxEquityMismatch = 10
    SlippageBuffer = 10
    ForecastKinds <- MCForecastKinds
    Prices = {4, 7, 10}
    MaxHeld <- MCMaxHeld
    StartCash = {0, 3, 20, 61}
    LastEquities = {40}
INVARIANTS
    NoRejection
    LandsOnTarget
    ReplanIsEmpty
    FromCashNeedsNoMargin
CHECK_DEADLOCK FALSE
