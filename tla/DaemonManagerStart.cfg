CONSTANTS
    Procs = {p1, p2}
    Runs = {r1, r2}
    NoProc = NoProc
    MaxRapidFailures = 3
SPECIFICATION Spec
INVARIANT StartEnds
CHECK_DEADLOCK FALSE
