SPECIFICATION FairSpec
CONSTANTS
    s1 = s1
    s2 = s2
    r1 = r1
    c1 = c1
    Ids = {s1, s2}
    Refreshers = {r1}
    Callers = {c1}
    MaxCondition = 1
    MaxChanges = 2
    MaxFaults = 1
    MaxRequests = 1
CHECK_DEADLOCK FALSE
INVARIANTS
    TypeOK
    FileFollows
    FullReport
PROPERTIES
    NeverBack
    CacheCatchesUp
