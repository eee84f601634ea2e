SPECIFICATION Spec
CONSTANTS
    A = A
    B = B
    C = C
    D = D
    NaN = NaN
    NoSource = NoSource
    MomShort = 1
    MomLong = 2
    VolWindow = 2
    TrendsWindow = 2
    SectorWindow = 2
    InsiderSpan = 3
    Universe <- MCUniverse
    Kinds = {"dev", "holdout", "live", "backtest"}
    Worlds <- MCWorlds
    Today = 22
    PoolStart = 3
    DevEnd = 14
    HoldoutStart = 15
    Lookback = 6
    Week = 6
    TrendsLag = 6
    MaxVixStale = 1
    MaxTrendsStale = 3
    Steps = 2
    MinObs = 2
    TrainDates = 3
    RefitEvery = 4
    BaselineWindow = 3
    MinHistory = 2
    MinPredictions = 3
    MinPassing = 2
    PValues = {5, 9, 60}
    MaxFdr = 10
    LowerLoss = 50
    Coverages = {50, 65, 80}
    CoverageBand <- MCBand
    TickerBand <- MCTickerBand
    Scores <- MCScores
    TieTolerance = 1
    Materiality <- MCMateriality
INVARIANTS
    TypeOK
    NoLookAhead
    ScoredAlike
    OneSnapshot
    GateJudges
CHECK_DEADLOCK FALSE
