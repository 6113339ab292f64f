CONSTANTS
    p = p
    m = m
    s1 = s1
    s2 = s2
    none = none
    NoJob = none
    Jobs = {p, m}
    Priority <- MCPriority
    CreatedAt <- MCCreatedAt
    Capacity = 2
    MaxRetries = 1
    Channels = {s1, s2}
    Streams = {s1, s2}
    Kind <- MCChat
    Asks <- MCChatted
    ChanCap = 1
    Workers = {1}
    ChatJobs = {}
    PlanJobs = {p}
    FwdCap = 0
    SchedulerOn = FALSE
SPECIFICATION StreamSpec
SYMMETRY MCAlike
INVARIANT ReconnectsAccounted
PROPERTY RefinesBoard
CHECK_DEADLOCK FALSE
