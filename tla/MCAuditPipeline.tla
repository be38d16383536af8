-------------------------- MODULE MCAuditPipeline --------------------------
(* Small instances of AuditPipeline: routes and coupled requests for TLC. *)
EXTENDS AuditPipeline, TLC

CONSTANTS c1, c2, c3, c4, lucid, http

\* Every event goes to one store.
MCRouteOne == [c \in Calls |-> lucid]

\* The store of one event is not configured.
MCRouteUnknown == [c \in Calls |-> IF c = c3 THEN NoStore ELSE lucid]

\* Odd and even calls go to different stores.
MCRouteTwo == [c \in Calls |-> IF c \in {c1, c3} THEN lucid ELSE http]

\* One id per request, as the audit service asks.
MCRequestsSingle == {{c1}}

\* No coupled request.
MCRequestsNone == {}

\* Calls with the same route and no request of their own are interchangeable.
MCSymTwo == Permutations({c2, c4})

=============================================================================
