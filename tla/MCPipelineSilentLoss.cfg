SPECIFICATION Spec

CONSTANTS
    c1 = c1
    c2 = c2
    c3 = c3
    c4 = c4
    lucid = lucid
    http = http
    NoStore = NoStore
    NoRequest = NoRequest
    Calls = {c1, c2, c3, c4}
    Stores = {lucid, http}
    Route <- MCRouteOne
    Requests <- MCRequestsNone
    Capacity = 2
    MaxBatch = 2
    MaxAttempts = 2
    Overflows = {"dropOldest"}
    MaxLostAcks = 0
    MaxDlqFailures = 0

INVARIANTS
    ConsumedIsSettled

CHECK_DEADLOCK FALSE
