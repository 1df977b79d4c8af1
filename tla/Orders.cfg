SPECIFICATION OrdersSpec
CONSTANTS
    o1 = o1
    o2 = o2
    s1 = s1
    s2 = s2
    c1 = c1
    c2 = c2
    None = None
    Orders = {o1, o2}
    LineIds = {1, 2}
    ESkus = {s1, s2}
    Skus = {1}
    Events <- MCEvents
    Prices <- MCPrices
    Clients = {c1, c2}
    MaxBatch = 2
    Racing <- MCRacing
    Refs = {"A", "B"}
    Blank = "-"
    MaxRows = 4
    OrderNos = {"o1", "o2"}
    RowIds = {0, 1}
    Strict = {"x", "y"}
    Amounts = {0, 1, 2}
    Stated = {"p"}
    Unstated = "-"
    MaxReport = 3
    LineNos = {1, 2}
    OrderIds = {1, 2}
    Currencies = {"X", "Y"}
    Goods = {"g", "h"}
    NoSku = "none"
    Trades <- MCTrades
    UnitCost <- MCUnitCost
    FeeRate = 500
    ShortFees <- MCShortFees
    Pages <- MCPages
    StoredRows <- MCStored
    Declared <- MCDeclared
    MaxPages = 2
    MaxRetries = 1
    Keys = {1, 2}
    Hashes = {1, 2}
    Receivers = {c1, c2}
    MaxEvents = 2
    Histories <- MCHistories
    Rebuilds <- MCRebuilds
    CoverageDays = {7, 14, 30}
    DaysLow = 14
    Safety = 1
    OnHand = {0, 18}
    Windows <- MCWindows
    Digits = 4
    Overshot <- MCOvershot
    Undershot <- MCUndershot
    MaxEvaluations = 2
SYMMETRY Swap
INVARIANTS PartsTypeOK OrdersAreTheLatest SalesEqualLines ArrivalsAreTakenWhole SummaryIsSumOfDetails VerdictIsEarned SuggestedAndJudged
PROPERTIES AnchorsAreFinal
CHECK_DEADLOCK FALSE
