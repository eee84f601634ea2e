SPECIFICATION Spec
CONSTANTS
    Tickers = {"B"}
    Archive <- MCArchive
    Scored <- MCScored
    MaxHours = 1
    MaxAttempts = 2
    Zones = 1
    UnreadableLimit = 2
    HourTicks = 4
    MaxFaults = 0
INVARIANT HardCap
CHECK_DEADLOCK FALSE
