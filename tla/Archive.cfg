SPECIFICATION Spec
CONSTANTS
    A = A
    a1 = a1
    a2 = a2
    Tickers = {A, B}
    Articles = {a1, a2}
    TaggedWith <- MCTaggedWith
    DayOf <- MCDayOf
    Incoming <- MCIncoming
    BatchSize = 1
    FlushTexts = 2
    Procs = {p1, p2, p3}
    WritersApart = TRUE
    MaxInterrupts = 1
    MaxCrashes = 1
SYMMETRY ProcSymmetry
INVARIANTS
    TypeOK
    CachesWhole
PROPERTIES
    RawWrittenOnce
    ImplementsStore
CHECK_DEADLOCK FALSE
