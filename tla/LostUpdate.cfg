SPECIFICATION Spec
CONSTANTS
    A = A
    a1 = a1
    a2 = a2
    Tickers = {A}
    Articles = {a1, a2}
    TaggedWith <- MCTaggedWith
    DayOf <- MCDayOf
    Incoming <- MCIncomingSame
    BatchSize = 1
    FlushTexts = 1
    Procs = {p1, p2}
    WritersApart = FALSE
    MaxInterrupts = 0
    MaxCrashes = 0
PROPERTY ScoresKept
CHECK_DEADLOCK FALSE
