SPECIFICATION FairSpec
CONSTANTS
    r1 = r1
    r2 = r2
    None = None
    Jobs <- OneJob
    Runs = {r1, r2}
    MaxRetries = 2
    ScanLimit = 1
    MaxAttempt = 1
    MaxCrashes = 2
    Cancellable <- OneJob
    LeaseMayLapse = FALSE
    PermanentErrors = FALSE
INVARIANTS OneRunAtATime
PROPERTIES JobsSettle ImplementsLifecycle
