SPECIFICATION Spec
CONSTANTS
    c1 = c1
    c2 = c2
    Clients = {c1, c2}
    Policies <- MCPolicies
    TicksPerSecond = 1
    Unit = 4
    Slack = 1
    Epoch = 4
    MaxClock = 9
    MaxFaults = 1
    MaxResets = 1
SYMMETRY ClientSymmetry
INVARIANTS
    TypeOK
    QuotaBound
    ExpiryHarmless
    QuietSenderAllowed
    UsageAgrees
