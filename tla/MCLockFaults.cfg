CONSTANTS
    e1 = e1
    w1 = w1
    w2 = w2
    a1 = a1
    r1 = r1
    listener = listener
    Emails <- OneEmail
    Workers <- TwoWorkers
    Admins <- Nobody
    Requests <- OneRequest
    Listener = listener
    LockDuration = 1
    RetryTtl = 1
    PenaltyEnabled = FALSE
    PenaltySteps <- ShortSteps
    PenaltyTtl = 2
    Rechecks <- MayExceed
    Prompt = TRUE
    MaxTasks = 1
    MaxFaults = 1
    MaxRestarts = 1
SPECIFICATION Spec
INVARIANTS
    StrandedOnlyByLapse
SYMMETRY WorkerSymmetry
