CONSTANTS
    Screens = {s1, s2}
    Calls = {c1, c2}
    NoCall = NoCall
    Auth = "supabase"
    MaxAwaiting = 2
    MaxTrouble = 2
SPECIFICATION FairSpec
INVARIANTS
    TypeOK
    NeverStranded
    RetainedOrIdle
    CallsOnTheirLink
    RelayAgrees
PROPERTIES
    Reconnects
CHECK_DEADLOCK FALSE
