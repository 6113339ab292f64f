CONSTANTS
    p1 = p1  p2 = p2  p3 = p3  q1 = q1  q2 = q2  q3 = q3
    peoria = peoria  pekin = pekin
    Cities = {peoria, pekin}
    Origin = peoria
    Listing <- MCListing
    Id <- MCId
    Concurrency = 2
    CityBuffer = 1
    Buffer = 2
SPECIFICATION FairSearchSpec
INVARIANTS
    SearchInv
    CompleteIsAll
PROPERTY StreamEnds
CHECK_DEADLOCK FALSE
