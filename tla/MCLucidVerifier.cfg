SPECIFICATION VerifySpec

CONSTANTS
    a = a
    b = b
    c = c
    d = d
    a2 = a2
    s1 = s1
    w1 = w1
    p1 = p1
    Events = {a, b, c, d, a2}
    Streams = {s1}
    IdOf <- MCIdOf
    StreamOf <- MCStreamOf
    NameOf <- MCNameOf
    Writers = {w1}
    Pruners = {p1}
    Batches <- MCBatches
    Filters = {"none"}
    Dialects = {"postgres"}
    Prompt = FALSE
    MaxCalls = 3
    MaxPrunes = 2
    MaxFaults = 1
    Ranges <- MCRanges
    PageSize = 2

INVARIANTS
    VerifyIsExact

CHECK_DEADLOCK FALSE
