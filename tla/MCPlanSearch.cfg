CONSTANTS
    x = x
    y = y
    o = o
    Locations = {x, y}
    Optim = o
    Limit = 1
    MaxSteps = 1
SPECIFICATION FairPlanSpec
INVARIANTS
    PlanInv
    CollectedAll
PROPERTIES
    PlanReturns
    TickersStop
CHECK_DEADLOCK FALSE
