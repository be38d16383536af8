SPECIFICATION Spec

CONSTANTS
    a = a
    b = b
    c = c
    x = x
    a2 = a2
    s1 = s1
    s2 = s2
    w1 = w1
    w2 = w2
    p1 = p1
    p2 = p2
    Events = {a, b, c, x}
    Streams = {s1, s2}
    IdOf <- MCIdOf
    StreamOf <- MCStreamOf
    NameOf <- MCNameOf
    Writers = {w1, w2}
    Pruners = {p1, p2}
    Batches <- MCBatches
    Filters = {"created"}
    Dialects = {"postgres", "mysql", "sqlite"}
    Prompt = TRUE
    MaxCalls = 3
    MaxPrunes = 2
    MaxFaults = 1

INVARIANTS
    OneChain
    ReturnedResolves
    ArchivedFirst

PROPERTIES
    LogSpec

SYMMETRY MCSym

CHECK_DEADLOCK FALSE
