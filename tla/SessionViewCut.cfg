CONSTANTS
    LastRow = 3
    Window = 0
    FetchLimit = 2
    PageSize = 2
    UserRows = {}
    Sends = {}
    Clocks = {}
    MaxWire = 2
    MaxFaults = 2
    MaxLeaves = 0
    MaxFetches = 2
SPECIFICATION Spec
INVARIANTS
    CutHeals
CHECK_DEADLOCK FALSE
