SPECIFICATION Spec

CONSTANTS
    c1 = c1
    c2 = c2
    c3 = c3
    c4 = c4
    lucid = lucid
    http = http
    NoStore = NoStore
    NoRequest = NoRequest
    Calls = {c1, c2, c3, c4}
    Stores = {lucid, http}
    Route <- MCRouteTwo
    Requests <- MCRequestsSingle
    Capacity = 2
    MaxBatch = 2
    MaxAttempts = 2
    Overflows = {"block"}
    MaxLostAcks = 1
    MaxDlqFailures = 1

INVARIANTS
    TypeOK
    RingSound
    ConsumedIsSettled
    OrderedDelivery
    CoupledMeansStored
    CopiesBounded
    StatsReconcile
    GracefulDrain

SYMMETRY MCSymTwo

CHECK_DEADLOCK FALSE
