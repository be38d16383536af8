SPECIFICATION Spec

CONSTANTS
    r1 = r1
    r2 = r2
    u1 = u1
    NoSubject = NoSubject
    NoKey = NoKey
    Requests = {r1, r2}
    Subjects = {u1}
    Kinds <- MCKinds
    Enabled = {"created", "updated", "deleted"}
    Guarantees = {"best-effort", "request-coupled", "transactional-outbox"}
    Dialects = {"postgres", "mysql"}
    MaxFaults = 1
    MaxForgets = 1
    MaxCrashes = 1

INVARIANTS
    TypeOK
    IntentWithChange
    NothingPhantom
    NothingSilent
    CoupledIsStored
    ReadableUntilForgotten
    ForgottenForGood

SYMMETRY MCSymRequests

CHECK_DEADLOCK FALSE
