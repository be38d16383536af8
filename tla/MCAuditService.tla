--------------------------- MODULE MCAuditService ---------------------------
(* A small instance of AuditService for TLC. *)
EXTENDS AuditService, TLC

CONSTANTS r1, r2, u1

Request(path, trx, op, subject) ==
    [path |-> path, trx |-> trx, op |-> op, strict |-> FALSE, subject |-> subject]

\* Every path with and without a transaction, a restoration, an update of excluded
\* attributes, an event of nobody and a strict model.
MCKinds ==
    {Request("model", TRUE, "restore", u1), Request("model", FALSE, "update", u1),
     Request("model", TRUE, "touch", u1), Request("model", TRUE, "delete", NoSubject),
     Request("log", TRUE, "update", u1), Request("log", FALSE, "update", u1),
     Request("logSync", FALSE, "update", u1),
     [Request("model", TRUE, "create", u1) EXCEPT !.strict = TRUE]}

MCSymRequests == Permutations({r1, r2})

=============================================================================
