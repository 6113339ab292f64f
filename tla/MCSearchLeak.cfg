CONSTANTS
    p1 = p1  p2 = p2  p3 = p3  q1 = q1  q2 = q2  q3 = q3
    peoria = peoria  pekin = pekin
    Cities = {peoria, pekin}
    Origin = peoria
    Listing <- RadiusListing
    Id <- RadiusId
    Concurrency = 1
    CityBuffer = 1
    Buffer = 3
SPECIFICATION FairSearchSpec
PROPERTY CleanedUp
CHECK_DEADLOCK FALSE
