SPECIFICATION Spec
CONSTANTS
    r1 = r1
    r2 = r2
    None = None
    Jobs <- OneJob
    Runs = {r1, r2}
    MaxRetries = 2
    ScanLimit = 2
    MaxAttempt = 2
    MaxCrashes = 0
    Cancellable <- OneJob
    LeaseMayLapse = TRUE
    PermanentErrors = TRUE
SYMMETRY RunSymmetry
INVARIANTS RunningIsRecoverable
PROPERTIES SucceededByLatestAttempt CancelStopsAttempts
