CONSTANTS
    Parallel = 2
    MaxChanges = 1
    MaxAgain = 1
    MaxCrashes = 1
    MayFail = TRUE
SPECIFICATION BillingSpec
INVARIANT CancelStops
CHECK_DEADLOCK FALSE
