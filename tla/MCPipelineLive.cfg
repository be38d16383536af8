SPECIFICATION FairSpec

CONSTANTS
    c1 = c1
    c2 = c2
    c3 = c3
    c4 = c4
    lucid = lucid
    http = http
    NoStore = NoStore
    NoRequest = NoRequest
    Calls = {c1, c2, c3}
    Stores = {lucid, http}
    Route <- MCRouteUnknown
    Requests <- MCRequestsSingle
    Capacity = 2
    MaxBatch = 2
    MaxAttempts = 2
    Overflows = {"block", "dropNew", "dropOldest"}
    MaxLostAcks = 0
    MaxDlqFailures = 1

INVARIANTS
    MissingBoundedByDropped
PROPERTIES
    
    EventSettles

CHECK_DEADLOCK FALSE
