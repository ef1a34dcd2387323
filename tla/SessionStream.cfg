CONSTANTS
    Messages = {m1, m2}
    Window = 1
    PageLimit = 2
    OutboxMax = 2
    MaxTime = 3
    MaxFaults = 1
SPECIFICATION FairSpec
INVARIANTS
    TypeOK
    CallbackOnce
    NoSilentGap
PROPERTY HealsInWindow
CHECK_DEADLOCK FALSE
