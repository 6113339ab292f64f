CONSTANTS
    p = p
    m = m
    c = c
    d = d
    none = none
    NoJob = none
    Jobs = {p, m, c, d}
    Priority <- MCPriority
    CreatedAt <- MCCreatedAt
    Capacity = 1
    MaxRetries = 2
    Channels = {}
    ChanCap = 1
    Workers = {1, 2}
    ChatJobs = {c}
    PlanJobs = {}
    FwdCap = 1
    SchedulerOn = FALSE
SPECIFICATION Spec
INVARIANTS
    NoDoubleProcessing
    ShutdownQuiesced
    IInv
PROPERTIES
    FinalStays
    IdleCancelSticks
    MostUrgentFirst
    RefinesLifecycle
CHECK_DEADLOCK FALSE
