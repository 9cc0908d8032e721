SPECIFICATION FairSpec
CONSTANTS
    e1 = e1
    w1 = w1
    w2 = w2
    k1 = k1
    k2 = k2
    Emails = {e1}
    Workers = {w1, w2}
    Closers = {k1, k2}
    QueueSize = 2
    Fallbacks = 2
    ContinueOnError = TRUE
    MaxActions = 3
CHECK_DEADLOCK FALSE
INVARIANTS
    TypeOK
    LastAcceptedWins
PROPERTIES
    ImplementsExecutor
    CloseReturns
    AcceptedEnds
