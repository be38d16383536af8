SPECIFICATION FairSpec

CONSTANTS
    r1 = r1
    r2 = r2
    d1 = d1
    d2 = d2
    Rows = {r1, r2}
    Malformed = {r2}
    Drainers = {d1, d2}
    Limit = 2
    MaxAttempts = 2
    Delayed = TRUE
    Bounds <- MCBounds

INVARIANTS
    TypeOK
    ClaimExclusive
    NeverGivenUpEarly

PROPERTIES
    PromiseSpec
    RowEnds

CHECK_DEADLOCK FALSE
