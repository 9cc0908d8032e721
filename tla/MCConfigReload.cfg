SPECIFICATION FairSpec
CONSTANTS
    r1 = r1
    r2 = r2
    h1 = h1
    stopper = stopper
    d1 = d1
    d2 = d2
    Requests = {r1, r2}
    Hangups = {h1}
    Stopper = stopper
    Domains = {d1, d2}
    Contents <- MCContents
    MaxReloads = 2
    MaxFaults = 1
CHECK_DEADLOCK FALSE
INVARIANTS
    TypeOK
    ManagersAccounted
    ListenerRuns
    DomainsComplete
    Settled
PROPERTIES
    NobodyWaits
