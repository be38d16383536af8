SPECIFICATION Spec

CONSTANTS
    c1 = c1
    c2 = c2
    c3 = c3
    c4 = c4
    lucid = lucid
    http = http
    NoStore = NoStore
    NoRequest = NoRequest
    Calls = {c1, c2, c3}
    Stores = {lucid, http}
    Route <- MCRouteOne
    Requests <- MCRequestsNone
    Capacity = 3
    MaxBatch = 1
    MaxAttempts = 2
    Overflows = {"block"}
    MaxLostAcks = 0
    MaxDlqFailures = 0

INVARIANTS
    NoDeadLetterInFlight

CHECK_DEADLOCK FALSE
