SPECIFICATION Spec
CONSTANTS
    Codes = {c1, c2}
    Clearing = {c1}
    OutDirs = {out}
    Procs = {p1, p2, p3}
    OperatorWaits = TRUE
    MaxCommits = 4
    MaxDeletions = 1
    MaxCrashes = 1
SYMMETRY ProcSymmetry
INVARIANTS
    TypeOK
    OneShot
    EvaluatedAsFrozen
    CompletedIsReported
    FrozenByItsCode
PROPERTY ImplementsOneShot
CHECK_DEADLOCK FALSE
