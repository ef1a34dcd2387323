CONSTANTS
    Procs = {p1, p2, p3}
    Runs = {r1, r2, r3}
    NoProc = NoProc
    MaxRapidFailures = 3
SYMMETRY Symmetry
SPECIFICATION Spec
INVARIANTS
    TypeOK
    NoOrphan
    RestartKept
CHECK_DEADLOCK FALSE
