CONSTANT Messages = {m1, m2}
SPECIFICATION FairSpec
INVARIANTS
    TypeOK
    AtMostOnce
    PendingMirrorsInbox
    ConsumedIsTaken
PROPERTIES
    CancelledIsDropped
    ImplementsPromise
    InboxDrains
CHECK_DEADLOCK FALSE
