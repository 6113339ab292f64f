CONSTANTS
    p = p
    m = m
    none = none
    ch1 = ch1
    ch2 = ch2
    NoJob = none
    Jobs = {p, m}
    Priority <- MCPriority2
    CreatedAt <- MCCreatedAt2
    Capacity = 1
    MaxRetries = 2
    Channels = {ch1, ch2}
    ChanCap = 1
    Workers = {1, 2}
    ChatJobs = {}
    PlanJobs = {p}
    FwdCap = 1
    SchedulerOn = TRUE
SPECIFICATION FairSpec
INVARIANT RegisteredOpen
PROPERTIES
    JobsEnd
    ShutdownEnds
CHECK_DEADLOCK FALSE
