CONSTANTS
    p1 = p1  p2 = p2
    s1 = s1  s2 = s2
    Properties = {p1, p2}
    Streams = {s1, s2}
    Concurrency = 2
    SaveEvery = 2
    Buffer = 1
    MayLose = TRUE
SPECIFICATION FairEnrichSpec
INVARIANTS
    EnrichInv
    FinalBooks
    OnlyLeaversCrash
    ToldFinal
PROPERTIES
    FinalStaysFinal
    SubscribersHear
CHECK_DEADLOCK FALSE
