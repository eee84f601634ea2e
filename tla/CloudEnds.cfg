SPECIFICATION FairSpec
CONSTANTS
    Tickers = {"B"}
    Archive <- MCArchive
    Scored <- MCScored
    MaxHours = 1
    MaxAttempts = 2
    Zones = 2
    UnreadableLimit = 2
    HourTicks = 4
    MaxFaults = 0
PROPERTY EverythingStops
CHECK_DEADLOCK FALSE
