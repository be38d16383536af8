SPECIFICATION Spec

CONSTANTS
    a = a
    b = b
    c = c
    x = x
    s1 = s1
    s2 = s2
    Events = {a, b, c, x}
    Streams = {s1, s2}
    StreamOf <- MCStreamOf
    NameOf <- MCNameOf
    Batches <- MCBatches
    Modes = {"throw", "log"}
    Formats = {"ndjson", "json"}
    MaxRetained = 2
    Filters = {"created"}
    Cutoffs <- MCCutoffs
    MaxCalls = 2
    MaxFaults = 1
    MaxCrashes = 1
    MaxPrunes = 1

INVARIANTS
    FanoutOrder
    HeadsAreBacked
    StreamFileSound
    WindowIsChain

CHECK_DEADLOCK FALSE
