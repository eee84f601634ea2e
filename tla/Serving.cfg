SPECIFICATION FairSpec
CONSTANTS
    r1 = r1
    r2 = r2
    NaN = NaN
    NoSource = NoSource
    None = None
    NoFile = NoFile
    Torn = Torn
    MomShort = 1
    MomLong = 2
    VolWindow = 2
    TrendsWindow = 3
    SectorWindow = 3
    InsiderSpan = 3
    Requests = {r1, r2}
    Asked <- MCAsked
    Answers <- MCAnswers
    Filings <- MCFilings
    FilingLimit = 2
    Lookback = 2
    Now = 6
    FullHistory = 3
    ShortHistory = 2
    PriceAttempts = 2
    SafeAttempts = 2
    Gpu = TRUE
    MaxRows = 6
    MaxTrains = 1
    MaxStarts = 2
INVARIANTS
    TypeOK
    AnswersWhatItCan
PROPERTIES
    FailsForCause
    EveryRequestEnds
CHECK_DEADLOCK FALSE
