SPECIFICATION Spec
CONSTANTS
    c1 = c1
    c2 = c2
    k1 = k1
    k2 = k2
    NoKey = NoKey
    Clients <- MCClients
    Keys <- MCKeys
    Pages <- MCPages
    Scopes <- MCScopes
    MaxPages = 1
    MaxAttempts = 2
    MaxRuns = 3
    MaxKilled = 0
INVARIANTS SkippedIsStored
CHECK_DEADLOCK FALSE
