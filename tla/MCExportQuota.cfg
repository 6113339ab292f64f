CONSTANTS
    r1 = r1  r2 = r2  r3 = r3
    e1 = e1  e2 = e2  e3 = e3
    Requests = {r1, r2, r3}
    Evaluations = {e1, e2, e3}
    Tiers = {1, 2}
SPECIFICATION QuotaSpec
INVARIANTS
    QuotaInv
    BoundedOverrun
    RecordsBounded
SYMMETRY QuotaSymmetry
CHECK_DEADLOCK FALSE
