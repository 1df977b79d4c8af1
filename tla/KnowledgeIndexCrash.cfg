SPECIFICATION Spec
CONSTANTS
    v1 = v1
    v2 = v2
    c1 = c1
    c2 = c2
    w1 = w1
    w2 = w2
    None = None
    Versions <- MCVersions
    Empty = {}
    Clients <- MCClients
    Workers <- MCWorkers
    MaxPublishes = 1
    FaultModes <- OnlyRestart

INVARIANTS OnlyPublishedIndexed
CHECK_DEADLOCK FALSE
