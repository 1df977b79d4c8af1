SPECIFICATION ReplSpec
CONSTANTS
    Histories <- MCHistories
    Rebuilds <- MCRebuilds
    CoverageDays = {7, 14, 30}
    DaysLow = 14
    Safety = 1
    OnHand = {0, 18}
    Windows <- MCWindows
    Digits = 4
    Overshot <- MCOvershot
    Undershot <- MCUndershot
    MaxEvaluations = 2
INVARIANT TargetIsTheFormula
CHECK_DEADLOCK FALSE
