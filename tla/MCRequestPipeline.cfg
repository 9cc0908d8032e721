SPECIFICATION FairSpec
CONSTANTS
    c1 = c1
    c2 = c2
    c3 = c3
    w1 = w1
    w2 = w2
    s1 = s1
    Connections = {c1, c2, c3}
    Workers = {w1, w2}
    Senders = {s1}
    Capacity = 2
    MaxRequests = 2
    MaxFaults = 1
INVARIANTS
    TypeOK
    Accounted
    NoDenialForgotten
    OnePerWorker
PROPERTIES
    WaitingServed
    DenialNotified
