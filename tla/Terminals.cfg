CONSTANTS
    Sessions = {s1, s2}
    MaxSessions = 1
    Fds = {1}
    Leased = {s1}
    Talking = {s2}
SPECIFICATION FairSpec
INVARIANTS
    TypeOK
    ClosesOwn
    NothingLeaks
    ExitLast
PROPERTIES
    ExitReported
    ExpiredReaped
CHECK_DEADLOCK FALSE
