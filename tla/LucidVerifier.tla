--------------------------- MODULE LucidVerifier ---------------------------
(***************************************************************************)
(* verify() of src/stores/lucid_store.ts, as audit:verify consumes it, over *)
(* a LucidStore whose write() and prune() go on meanwhile: every query of  *)
(* verify() sees what is committed when it runs.                           *)
(***************************************************************************)
EXTENDS LucidStore

CONSTANTS
    Ranges,      \* the values of --from-seq and --to-seq; to = 0 is its absence
    PageSize     \* the pageSize of verify(), 500 in the code

ASSUME RangesAssumption ==
    PageSize \in Nat \ {0} /\ \A r \in Ranges : r \in [from : Nat \ {0}, to : Nat]

VARIABLES
    verifier,    \* where verify() stands
    report       \* how it ended, and what was true meanwhile

verifyVars == <<vars, verifier, report>>

IdleVerifier == [phase |-> "idle"]
NoReport == [valid |-> TRUE, stream |-> Free, last |-> 0, due |-> 0, disturbed |-> FALSE]

VerifyInit ==
    /\ Init
    /\ verifier = IdleVerifier
    /\ report = NoReport

\* verify() is called and reads the row before the range.  due is the last row that it
\* has to look at, disturbed whether a prune has committed meanwhile.
Verify(s, range) ==
    /\ verifier.phase = "idle" /\ report = NoReport
    /\ LET before == {n \in DOMAIN audits[s] : n < range.from}
           head == HeadOf(audits[s]).seq
       IN  verifier' = [phase |-> IF before = {} THEN "first" ELSE "paging",
                        stream |-> s, to |-> range.to, first |-> 0,
                        prev |-> HeadOf(Only(audits[s], before)),
                        due |-> IF range.to = 0 \/ head < range.to THEN head ELSE range.to,
                        disturbed |-> FALSE]
    /\ UNCHANGED <<vars, report>>

\* There was no such row: the first live row.
ReadFirst ==
    /\ verifier.phase = "first"
    /\ LET rows == audits[verifier.stream]
       IN  verifier' = IF DOMAIN rows = {} THEN [verifier EXCEPT !.phase = "paging"]
                       ELSE [verifier EXCEPT !.phase = "checkpoint", !.first = First(rows)]
    /\ UNCHANGED <<vars, report>>

\* The last checkpoint before the first live row.
ReadCheckpoint ==
    /\ verifier.phase = "checkpoint"
    /\ LET rows == checkpoints[verifier.stream]
           before == {n \in DOMAIN rows : n < verifier.first}
       IN  verifier' = [verifier EXCEPT !.phase = "paging", !.prev = HeadOf(Only(rows, before))]
    /\ UNCHANGED <<vars, report>>

\* The rows of the next page: the first PageSize after the last row seen.
Page ==
    LET rows == audits[verifier.stream]
        rest == {n \in DOMAIN rows : verifier.prev.seq < n /\ (verifier.to = 0 \/ n <= verifier.to)}
    IN  Only(rows, {n \in rest : Cardinality({m \in rest : m < n}) < PageSize})

\* Every row of a page goes on from the one before it, in seq and in hash.
PageIsValid(page, prev) ==
    \A n \in DOMAIN page :
        LET m == n - 1
            before == IF m \in DOMAIN page THEN page[m].hash ELSE prev.hash
        IN  /\ m \in DOMAIN page \cup {prev.seq}
            /\ page[n].hash = HashAfter(<<page[n].event>>, [seq |-> m, hash |-> before])

Ends(valid, last) ==
    /\ report' = [valid |-> valid, stream |-> verifier.stream, last |-> last,
                  due |-> verifier.due, disturbed |-> verifier.disturbed]
    /\ verifier' = IdleVerifier

\* Fault: a page that is just full is taken for the last one.
ReadPageOnce ==
    /\ verifier.phase = "paging"
    /\ \/ DOMAIN Page = {} /\ Ends(TRUE, verifier.prev.seq)
       \/ DOMAIN Page # {} /\ Ends(PageIsValid(Page, verifier.prev), HeadOf(Page).seq)
    /\ UNCHANGED vars

\* A page is read and checked; audit:verify stops at the first invalid row, verify() at a
\* page that is not full.
ReadPage ==
    /\ verifier.phase = "paging"
    /\ LET last == HeadOf(Page).seq
           full == Cardinality(DOMAIN Page) = PageSize
       IN  \/ DOMAIN Page = {} /\ Ends(TRUE, verifier.prev.seq)
           \/ DOMAIN Page # {} /\ ~PageIsValid(Page, verifier.prev) /\ Ends(FALSE, last)
           \/ DOMAIN Page # {} /\ PageIsValid(Page, verifier.prev) /\ ~full /\ Ends(TRUE, last)
           \/ /\ PageIsValid(Page, verifier.prev) /\ full
              /\ verifier' = [verifier EXCEPT !.prev = HeadOf(Page)]
              /\ UNCHANGED report
    /\ UNCHANGED vars

\* The store goes on; a verification under way is disturbed by a prune that commits.
StoreStep ==
    /\ Next
    /\ verifier' = IF verifier.phase # "idle" /\ checkpoints' # checkpoints
                   THEN [verifier EXCEPT !.disturbed = TRUE] ELSE verifier
    /\ UNCHANGED report

VerifyNext ==
    \/ StoreStep
    \/ \E s \in Streams, range \in Ranges : Verify(s, range)
    \/ ReadFirst \/ ReadCheckpoint \/ ReadPage

VerifySpec == VerifyInit /\ [][VerifyNext]_verifyVars

-----------------------------------------------------------------------------
(* Properties. *)

\* A report is right both ways. A chain is reported broken only when a prune has committed
\* since verify() was called: concurrent writers, earlier prunes, retried ones and
\* checkpoints never look like tampering, whatever the range and the page. And one that
\* is reported whole was looked at in every row that was live and in the range when
\* verify() was called, but for those that were pruned since (lucid_store.ts:251-346).
VerifyIsExact ==
    /\ ~report.valid => report.disturbed
    /\ report.valid /\ report.last < report.due =>
         \A n \in DOMAIN audits[report.stream] : report.due < n

=============================================================================
