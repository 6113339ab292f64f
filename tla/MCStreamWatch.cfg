CONSTANTS
    p = p
    m = m
    s1 = s1
    s2 = s2
    none = none
    NoJob = none
    Jobs = {p, m}
    Priority <- MCPriority
    CreatedAt <- MCCreatedAt
    Capacity = 2
    MaxRetries = 1
    Channels = {s1, s2}
    Streams = {s1, s2}
    Kind <- MCMixed
    Asks <- MCWatched
    ChanCap = 1
    Workers = {1}
    ChatJobs = {}
    PlanJobs = {p}
    FwdCap = 1
    SchedulerOn = FALSE
SPECIFICATION FairStreamSpec
INVARIANTS
    ChannelsSound
    ToldTheTruth
PROPERTY EarlyStreamEnds
CHECK_DEADLOCK FALSE
