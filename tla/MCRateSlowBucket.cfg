SPECIFICATION Spec
CONSTANTS
    c1 = c1
    c2 = c2
    Clients = {c1, c2}
    Policies <- SlowPolicies
    TicksPerSecond = 1
    Unit = 4
    Slack = 1
    Epoch = 4
    MaxClock = 12
    MaxFaults = 0
    MaxResets = 0
SYMMETRY ClientSymmetry
INVARIANTS
    TokenBucketBound
