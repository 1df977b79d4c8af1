SPECIFICATION DesksSpec
CONSTANTS
    e1 = e1
    e2 = e2
    f1 = f1
    f2 = f2
    x1 = x1
    u1 = u1
    u2 = u2
    b1 = b1
    l1 = l1
    kk = kk
    ff = ff
    Revs = {1}
    Exports = {x1}
    ContentRuns = {e1, e2}
    Reviewers = {f1, f2}
    MaxTries = 2
    MaxMade = 2
    MaxLapses = 1
    MaxReviewed = 2
    NoRun = NoRun
    Users = {u1, u2}
    FirstAdmin = u1
    Roles = {"admin", "warehouse"}
    Sessions = {e1, e2}
    Admins = {b1}
    Logins = {l1}
    MaxPassword = 1
    NoUser = NoUser
    TicketNos = {1}
    Assignees = {f1, f2}
    Clerks = {e1, e2}
    MaxVersion = 4
    Nobody = Nobody
    MaxStock = 1
    Refreshers = {e1, e2}
    Bundles = {1, 2, 3}
    Parts = {"orders", "inventory"}
    RetryKeys = {kk}
    Contents = {ff}
    Syncers = {e1, e2}
    MaxFirst = 1
    NoKeyGiven = NoKeyGiven
    FileNames = {"f", "g"}
    Uploads = {1, 2, 3}
    Pieces <- MCPieces
    Unparseable = {2}
    Repetitive = {3}
    Senders = {e1, e2}
    Attempts = {f1, f2}
    MaxImportTries = 1
    MaxVersions = 2
    MaxMishaps = 1
    PageNos = {1, 2, 3}
    Listings <- MCListings
    MaxPages = 2
    MaxProducts = 3
    LastPage = LastPage
    ProductIds = {"p", "q"}
    ListPrices = {1, 2}
    Importers = {e1, e2}
    MaxRecords = 2
    MaxTrail = 1
SYMMETRY DeskSymmetry
INVARIANTS DesksTypeOK RevisionsHold AccountsHold TicketsAgree RefreshedAlertsAgree RetriesHold DocumentsHold CollectedIsWhole TrailEndsAtPrice
PROPERTIES ApprovedContentStands
CHECK_DEADLOCK FALSE
