CONSTANTS
    Calls <- MCCalls
    Ordered <- MCOrdered
    Conns <- MCConns
    Workers = 2
    OutboxMax = 1
SPECIFICATION FairSpec
INVARIANTS
    TypeOK
    ReconnectKeepsHandler
    OutcomeIsTrue
    RunsAsSent
PROPERTIES
    EndsSoon
CHECK_DEADLOCK FALSE
