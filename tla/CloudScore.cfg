SPECIFICATION Spec
CONSTANTS
    Tickers = {"A", "B"}
    Archive <- MCArchive
    Scored <- MCScored
    MaxHours = 1
    MaxAttempts = 2
    Zones = 2
    UnreadableLimit = 2
    HourTicks = 4
    MaxFaults = 1
INVARIANTS
    TypeOK
    LeavesNothing
    RunTimeBounded
PROPERTY ImplementsStore
CHECK_DEADLOCK FALSE
