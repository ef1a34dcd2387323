CONSTANTS
    LastRow = 3
    Window = 1
    FetchLimit = 2
    PageSize = 2
    UserRows = {3}
    Clocks = {3}
    MaxWire = 1
    Sends <- MCSends
    MaxFaults = 1
    MaxLeaves = 1
    MaxFetches = 2
SPECIFICATION Spec
INVARIANTS
    TypeOK
    NeverStuck
    NoGap
PROPERTIES
    StoreSound
CHECK_DEADLOCK FALSE
