SPECIFICATION FairSpec
CONSTANTS
    Tickers = {1}
    Universe = {1}
    Scale = 100
    EdgeThreshold = 2
    MinP10 <- MCMinP10
    MaxPositionWeight = 50
    MaxGrossExposure = 100
    RebalanceBand = 15
    MaxOrdersPerDay = 2
    MaxDailyLoss = 30
    MaxDrawdown = 20
    MinPrice = 5
    MaxPriceAge = 1
    MaxEquityMismatch = 10
    SlippageBuffer = 10
    Runs = {r1, r2}
    Serial = FALSE
    ForecastFiles <- RotatingFiles
    OpeningPrices <- MCOpeningPrices
    StartCash = 20
    StartHeld <- MCNoneHeld
    StartPrice = 10
    KillSwitchUsed = TRUE
    GlitchEquities = {}
    MaxEquity = 100
    MaxDay = 1
    MaxCrashes = 1
PROPERTY RunsEnd
CHECK_DEADLOCK FALSE
