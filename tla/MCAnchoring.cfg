SPECIFICATION Spec

CONSTANTS
    s1 = s1
    s2 = s2
    d1 = d1
    d2 = d2
    Streams = {s1, s2}
    Deliverers = {d1, d2}
    Batches <- MCBatches
    Every = 2
    Modes = {"count", "daily"}
    MaxRows <- MCMaxRows
    MaxFaults = 1
    MaxRestores = 1
    MaxDays = 1

INVARIANTS
    TypeOK
    DeliveredIsAnchored
    AnchorsResolve
    LossIsBounded

SYMMETRY MCSym

CHECK_DEADLOCK FALSE
