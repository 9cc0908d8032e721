CONSTANTS
    e1 = e1
    w1 = w1
    w2 = w2
    a1 = a1
    r1 = r1
    listener = listener
    Emails <- OneEmail
    Workers <- TwoWorkers
    Admins <- Nobody
    Requests <- OneRequest
    Listener = listener
    LockDuration = 1
    RetryTtl = 1
    PenaltyEnabled = TRUE
    PenaltySteps <- TwoSteps
    PenaltyTtl = 2
    Rechecks <- NeverExceeding
    Prompt = TRUE
    MaxTasks = 2
    MaxFaults = 0
    MaxRestarts = 0
SPECIFICATION FairSpec
INVARIANTS
    OneLocker
    NeverDueEarly
    PenaltyWillExpire
PROPERTIES
    UnlockedUnlessRaced
