CONSTANTS
    c1 = c1
    c2 = c2
    c3 = c3
    Callers <- MCCallers
    FailureThreshold = 2
    SuccessThreshold = 2
    RecoveryTimeout = 2
    MaxFailures = 3
    MaxErrors = 1
SPECIFICATION FairSpec
INVARIANTS
    TypeOK
    TripsOnTime
    LateFailuresBounded
PROPERTIES
    TripEarned
    RecoveryEarned
    Recovers
