SPECIFICATION Spec
CONSTANTS
    o1 = o1
    o2 = o2
    c1 = c1
    c2 = c2
    c3 = c3
    None = None
    Orders = {o1, o2}
    Skus <- TwoSkus
    Clients = {c1, c2, c3}
    LinesOf <- TwoOrderLines
    Requested <- FromRequest
    Payloads <- FewPayloads
SYMMETRY ClientSymmetry
INVARIANTS PostedWhole PostedWithinRequest StockIsPosted
PROPERTIES LedgerAppendOnly ImplementsLedger
