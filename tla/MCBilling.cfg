CONSTANTS
    Parallel = 2
    MaxChanges = 1
    MaxAgain = 1
    MaxCrashes = 1
    MayFail = TRUE
SPECIFICATION FairBillingSpec
INVARIANTS
    BillingInv
    Provisioned
    StatusAgrees
PROPERTY GuestGetsQuota
CHECK_DEADLOCK FALSE
