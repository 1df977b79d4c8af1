SPECIFICATION Spec
CONSTANTS
    p1 = p1
    p2 = p2
    s1 = s1
    s2 = s2
    c1 = c1
    c2 = c2
    None = None
    Requests <- MCRequests
    Suggestions <- MCSuggestions
    Clients <- MCClients
    SkuOf <- MCSkuOf
    SuggestedQty = 1
    MaxQty = 1
    MaxVersion = 4
    MaxRequestVersion = 3
    Apart <- Unguarded

INVARIANTS WithdrawnIsRequestable
CHECK_DEADLOCK FALSE
