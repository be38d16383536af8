----------------------------- MODULE LucidStore -----------------------------
(***************************************************************************)
(* src/stores/lucid_store.ts: write() and prune() of several processes on  *)
(* one database.  write() appends the events of a batch to the hash chain  *)
(* of their streams, in one transaction per stream; prune() archives the   *)
(* expired front of a stream and deletes it in a transaction that leaves a *)
(* checkpoint.  An action is one statement with the code up to the next.   *)
(*                                                                         *)
(* The unique (stream, seq) of the migration makes each table a function   *)
(* per stream.                                                             *)
(***************************************************************************)
EXTENDS HashChain, FiniteSets

CONSTANTS
    Events,      \* events with their payload; two with one id are in conflict
    Streams,
    IdOf, StreamOf, NameOf,    \* the columns id, stream and event
    Writers,     \* processes that call write()
    Pruners,     \* processes that call prune()
    Batches,     \* the batches write() is called with
    Filters,     \* the values of policy.eventFilter; "none" is its absence
    Dialects,    \* the database: "postgres", "mysql" or "sqlite"
    Prompt,      \* nobody writes an event again once its retention has passed
    MaxCalls,    \* bound: calls of write()
    MaxPrunes,   \* bound: calls of prune()
    MaxFaults    \* bound: statements that reject, with or without their effect

ASSUME EventsAssumption ==
    /\ StreamOf \in [Events -> Streams]
    /\ DOMAIN IdOf = Events /\ DOMAIN NameOf = Events
    /\ \A b \in Batches : b \in Seq(Events)
ASSUME DialectsAssumption ==
    Dialects \subseteq {"postgres", "mysql", "sqlite"} /\ Prompt \in BOOLEAN
ASSUME BoundsAssumption == MaxCalls \in Nat /\ MaxPrunes \in Nat /\ MaxFaults \in Nat

VARIABLES
    dialect,
    audits, archive,    \* the two event tables: per stream, the rows by seq
    checkpoints,        \* audit_chain_checkpoints: per stream, the hashes by seq
    lock,               \* the advisory lock of each stream
    writer,             \* per process: where write() stands
    pruner,             \* per process: where prune() stands
    expired,            \* the clock: the events whose retention has passed
    returned,           \* outside: the rows write() returned
    exported,           \* outside: the rows policy.archive() was called for
    calls, prunes, faults    \* how much of the bounds is used

tables == <<audits, archive, checkpoints>>
outside == <<returned, exported>>
bounds == <<calls, prunes, faults>>
vars == <<dialect, tables, lock, writer, pruner, expired, outside, bounds>>

-----------------------------------------------------------------------------
(* Rows. *)

Free == "free"

\* The rows of one stream of a table are a function of seq.
NoRows == [n \in {} |-> n]
First(rows) == CHOOSE n \in DOMAIN rows : \A m \in DOMAIN rows : n <= m
Last(rows) == CHOOSE n \in DOMAIN rows : \A m \in DOMAIN rows : m <= n

\* The row a chain goes on from.
HeadOf(rows) ==
    IF DOMAIN rows = {} THEN NoHead
    ELSE [seq |-> Last(rows), hash |-> rows[Last(rows)].hash]

IdsOf(rows) == {IdOf[rows[n].event] : n \in DOMAIN rows}

\* Fault: the table has no primary key.
RefusesSeqOnly(table, s, rows) == DOMAIN rows \cap DOMAIN table[s] # {}

\* The unique indices of a table refuse rows of stream s.
Refuses(table, s, rows) ==
    \/ DOMAIN rows \cap DOMAIN table[s] # {}
    \/ \E t \in Streams : IdsOf(rows) \cap IdsOf(table[t]) # {}

Insert(table, s, rows) ==
    [table EXCEPT ![s] =
        [n \in DOMAIN rows \cup DOMAIN @ |-> IF n \in DOMAIN rows THEN rows[n] ELSE @[n]]]

Only(rows, S) == [n \in S |-> rows[n]]

-----------------------------------------------------------------------------
IdleWriter == [phase |-> "idle", batch |-> <<>>, todo |-> {}, stream |-> Free,
               head |-> NoHead, rows |-> NoRows, results |-> {}]
IdlePruner == [phase |-> "idle", todo |-> {}, filter |-> "none", cutoff |-> {},
               stream |-> Free, rows |-> NoRows, missing |-> {}]

\* write() has its transaction open.
InTransaction == {"locked", "headed", "inserted", "released"}

Init ==
    /\ dialect \in Dialects
    /\ audits = [s \in Streams |-> NoRows]
    /\ archive = [s \in Streams |-> NoRows]
    /\ checkpoints = [s \in Streams |-> NoRows]
    /\ lock = [s \in Streams |-> Free]
    /\ writer = [w \in Writers |-> IdleWriter]
    /\ pruner = [p \in Pruners |-> IdlePruner]
    /\ expired = {} /\ returned = {} /\ exported = {}
    /\ calls = 0 /\ prunes = 0 /\ faults = 0

Fault == faults < MaxFaults /\ faults' = faults + 1 /\ UNCHANGED <<calls, prunes>>

\* An event passes its retention.  The shortest one is a day: no write() takes as long.
Expire(e) ==
    /\ e \notin expired /\ \A w \in Writers : writer[w].phase = "idle"
    /\ \E s \in Streams : \E n \in DOMAIN audits[s] : audits[s][n].event = e
    /\ expired' = expired \cup {e}
    /\ UNCHANGED <<dialect, tables, lock, writer, pruner, outside, bounds>>

-----------------------------------------------------------------------------
(* write() *)

writeFrame == <<dialect, archive, checkpoints, pruner, expired, exported>>

SameId(d, e) == IdOf[d] = IdOf[e]

Result(s, n, row) == [stream |-> s, seq |-> n, hash |-> row.hash]

\* The rows the select of write() finds for an event.
StoredAs(e) ==
    {r \in UNION {{<<s, n>> : n \in DOMAIN audits[s]} : s \in Streams} :
        SameId(audits[r[1]][r[2]].event, e)}

\* An id with two payloads, in the batch or in the table.
Conflicts(b) ==
    \/ \E i, j \in DOMAIN b : SameId(b[i], b[j]) /\ b[i] # b[j]
    \/ \E i \in DOMAIN b : \E r \in StoredAs(b[i]) : audits[r[1]][r[2]].event # b[i]

\* The positions of a batch that have to be written.
ToWrite(b) ==
    {i \in DOMAIN b : StoredAs(b[i]) = {} /\ \A j \in 1 .. i - 1 : ~SameId(b[j], b[i])}

\* write() is called; it looks for what is stored already, outside of any transaction.
Write(w, b) ==
    /\ writer[w].phase = "idle" /\ calls < MaxCalls
    /\ Prompt => \A i \in DOMAIN b : \A e \in expired : ~SameId(e, b[i])
    /\ calls' = calls + 1
    /\ \/ /\ Conflicts(b)
          /\ UNCHANGED writer
       \/ /\ ~Conflicts(b)
          /\ writer' = [writer EXCEPT ![w] =
                 [IdleWriter EXCEPT !.phase = "open", !.batch = b, !.todo = ToWrite(b),
                     !.results = UNION {{Result(r[1], r[2], audits[r[1]][r[2]]) : r \in StoredAs(b[i])}
                                        : i \in DOMAIN b}]]
    /\ UNCHANGED <<writeFrame, audits, lock, returned, prunes, faults>>

Locked(s) == lock[s] # Free

\* #writeStream opens the transaction of the next stream and waits for its lock.  SQLite
\* has none.
AcquireLock(w) ==
    /\ writer[w].phase = "open"
    /\ \E i \in writer[w].todo :
          LET s == StreamOf[writer[w].batch[i]]
          IN  /\ \A j \in writer[w].todo : i <= j
              /\ dialect # "sqlite" => ~Locked(s)
              /\ lock' = IF dialect = "sqlite" THEN lock ELSE [lock EXCEPT ![s] = w]
              /\ writer' = [writer EXCEPT ![w].phase = "locked", ![w].stream = s]
    /\ UNCHANGED <<writeFrame, audits, returned, bounds>>

\* GET_LOCK of MySQL gives up after five seconds.
LockTimeout(w) ==
    /\ writer[w].phase = "open" /\ dialect = "mysql"
    /\ \E i \in writer[w].todo :
          (\A j \in writer[w].todo : i <= j) /\ Locked(StreamOf[writer[w].batch[i]])
    /\ writer' = [writer EXCEPT ![w] = IdleWriter]
    /\ UNCHANGED <<writeFrame, audits, lock, returned, bounds>>

ReadHead(w) ==
    /\ writer[w].phase = "locked"
    /\ writer' = [writer EXCEPT ![w].phase = "headed", ![w].head = HeadOf(audits[writer[w].stream])]
    /\ UNCHANGED <<writeFrame, audits, lock, returned, bounds>>

\* The lock of a transaction that ends.
Unlocked(w) == [s \in Streams |-> IF lock[s] = w THEN Free ELSE lock[s]]

\* The positions of the stream of this transaction.
Positions(w) == {i \in writer[w].todo : StreamOf[writer[w].batch[i]] = writer[w].stream}

\* Positions in the order of the batch.
InOrder(P) ==
    {f \in [1 .. Cardinality(P) -> P] : \A i, j \in 1 .. Cardinality(P) : i < j => f[i] < f[j]}

\* Another transaction has rows that the unique indices compare with these, or holds the
\* one writer's place of SQLite: the statement waits for its end.
MustWait(w, rows) ==
    \E v \in Writers \ {w} :
        /\ writer[v].phase \in {"inserted", "released"}
        /\ \/ dialect = "sqlite"
           \/ writer[v].stream = writer[w].stream /\ DOMAIN writer[v].rows \cap DOMAIN rows # {}
           \/ IdsOf(writer[v].rows) \cap IdsOf(rows) # {}

\* Fault: a refused insert counts as one that was done before.
InsertRowsOrIgnore(w) ==
    /\ writer[w].phase = "headed"
    /\ \E f \in InOrder(Positions(w)) :
          LET rows == ChainBatch([k \in DOMAIN f |-> writer[w].batch[f[k]]], writer[w].head)
          IN  /\ ~MustWait(w, rows)
              /\ writer' = [writer EXCEPT ![w].phase = "inserted",
                     ![w].rows = IF Refuses(audits, writer[w].stream, rows) THEN NoRows ELSE rows,
                     ![w].results = @ \cup {Result(writer[w].stream, n, rows[n]) : n \in DOMAIN rows}]
    /\ UNCHANGED <<writeFrame, audits, lock, returned, bounds>>

\* chainBatch and multiInsert; the transaction is rolled back when the table refuses.
InsertRows(w) ==
    /\ writer[w].phase = "headed"
    /\ \E f \in InOrder(Positions(w)) :
          LET rows == ChainBatch([k \in DOMAIN f |-> writer[w].batch[f[k]]], writer[w].head)
          IN  /\ ~MustWait(w, rows)
              /\ \/ /\ ~Refuses(audits, writer[w].stream, rows)
                    /\ writer' = [writer EXCEPT ![w].phase = "inserted", ![w].rows = rows]
                    /\ UNCHANGED lock
                 \/ /\ Refuses(audits, writer[w].stream, rows)
                    /\ writer' = [writer EXCEPT ![w] = IdleWriter]
                    /\ lock' = Unlocked(w)
    /\ UNCHANGED <<writeFrame, audits, returned, bounds>>

\* The finally clause releases the lock of MySQL before the transaction commits.
ReleaseLock(w) ==
    /\ writer[w].phase = "inserted" /\ dialect = "mysql"
    /\ writer' = [writer EXCEPT ![w].phase = "released"]
    /\ lock' = Unlocked(w)
    /\ UNCHANGED <<writeFrame, audits, returned, bounds>>

CommitRows(w) ==
    /\ writer[w].phase = IF dialect = "mysql" THEN "released" ELSE "inserted"
    /\ audits' = Insert(audits, writer[w].stream, writer[w].rows)
    /\ lock' = Unlocked(w)

\* The transaction commits; the postgres lock goes with it.
Commit(w) ==
    /\ CommitRows(w)
    /\ writer' = [writer EXCEPT ![w] =
           [writer[w] EXCEPT !.phase = "open", !.todo = @ \ Positions(w), !.stream = Free,
                !.head = NoHead, !.rows = NoRows,
                !.results = @ \cup {Result(writer[w].stream, n, writer[w].rows[n]) :
                                    n \in DOMAIN writer[w].rows}]]
    /\ UNCHANGED <<writeFrame, returned, bounds>>

\* The transaction commits and write() does not hear of it.
CommitUnheard(w) ==
    /\ CommitRows(w) /\ Fault
    /\ writer' = [writer EXCEPT ![w] = IdleWriter]
    /\ UNCHANGED <<writeFrame, returned>>

\* A statement rejects or the process dies: the transaction is rolled back.
WriteFails(w) ==
    /\ writer[w].phase \in InTransaction /\ Fault
    /\ writer' = [writer EXCEPT ![w] = IdleWriter]
    /\ lock' = Unlocked(w)
    /\ UNCHANGED <<writeFrame, audits, returned>>

\* Every stream is written.
Return(w) ==
    /\ writer[w].phase = "open" /\ writer[w].todo = {}
    /\ returned' = returned \cup writer[w].results
    /\ writer' = [writer EXCEPT ![w] = IdleWriter]
    /\ UNCHANGED <<writeFrame, audits, lock, bounds>>

-----------------------------------------------------------------------------
(* prune() *)

pruneFrame == <<dialect, lock, writer, expired, returned>>

\* prune() is called: it takes the time and selects the streams.
Prune(p, filter) ==
    /\ pruner[p].phase = "idle" /\ prunes < MaxPrunes
    /\ prunes' = prunes + 1
    /\ pruner' = [pruner EXCEPT ![p] =
           [IdlePruner EXCEPT !.phase = "selecting", !.filter = filter, !.cutoff = expired,
                              !.todo = {s \in Streams : DOMAIN audits[s] # {}}]]
    /\ UNCHANGED <<pruneFrame, tables, exported, calls, faults>>

\* Fault: the last row is not spared.
CandidatesAll(rows, p) ==
    {n \in DOMAIN rows : \A m \in DOMAIN rows :
        m <= n => NameOf[rows[m].event] = NameOf[rows[First(rows)].event]
                  /\ rows[m].event \in pruner[p].cutoff}

\* The expired rows at the front of a stream that have the name of the first and pass
\* the filter, never the last row.
Candidates(rows, p) ==
    IF DOMAIN rows = {} THEN {}
    ELSE LET name(n) == NameOf[rows[n].event]
         IN  {n \in DOMAIN rows \ {Last(rows)} :
                 /\ pruner[p].filter \in {"none", name(First(rows))}
                 /\ \A m \in DOMAIN rows : m <= n =>
                       name(m) = name(First(rows)) /\ rows[m].event \in pruner[p].cutoff}

\* The select of a stream; one without candidates is passed over.
SelectStream(p) ==
    /\ pruner[p].phase = "selecting"
    /\ \E s \in pruner[p].todo :
          LET S == Candidates(audits[s], p)
          IN  \/ /\ S = {}
                 /\ pruner' = [pruner EXCEPT ![p].todo = @ \ {s}]
              \/ /\ S # {}
                 /\ pruner' = [pruner EXCEPT ![p].phase = "selected", ![p].stream = s,
                                             ![p].rows = Only(audits[s], S)]
    /\ UNCHANGED <<pruneFrame, tables, exported, bounds>>

PruneEnds(p) == pruner' = [pruner EXCEPT ![p] = IdlePruner]

\* The archived rows that have the id of row n of the candidates.
ArchivedAs(p, n) ==
    {r \in UNION {{<<s, m>> : m \in DOMAIN archive[s]} : s \in Streams} :
        SameId(archive[r[1]][r[2]].event, pruner[p].rows[n].event)}

Missing(p) == {n \in DOMAIN pruner[p].rows : ArchivedAs(p, n) = {}}

\* An archived row with the id of a candidate differs from it.
ArchiveConflicts(p) ==
    \E n \in DOMAIN pruner[p].rows : \E r \in ArchivedAs(p, n) :
        r # <<pruner[p].stream, n>> \/ archive[r[1]][r[2]].hash # pruner[p].rows[n].hash

\* Fault: policy.archive() is called only while nothing of the segment is archived.
LookUpArchiveOnce(p) ==
    /\ pruner[p].phase = "selected" /\ ~ArchiveConflicts(p)
    /\ exported' = IF Missing(p) = DOMAIN pruner[p].rows
                   THEN exported \cup {Result(pruner[p].stream, n, pruner[p].rows[n]) :
                                       n \in DOMAIN pruner[p].rows}
                   ELSE exported
    /\ pruner' = [pruner EXCEPT ![p].missing = Missing(p),
                      ![p].phase = IF Missing(p) = {} THEN "archived" ELSE "exported"]
    /\ UNCHANGED <<pruneFrame, tables, bounds>>

\* The select on the archive, and the call of policy.archive() when rows are missing.
LookUpArchive(p) ==
    /\ pruner[p].phase = "selected"
    /\ \/ ArchiveConflicts(p) /\ PruneEnds(p) /\ UNCHANGED exported
       \/ /\ ~ArchiveConflicts(p) /\ Missing(p) = {}
          /\ pruner' = [pruner EXCEPT ![p].phase = "archived"]
          /\ UNCHANGED exported
       \/ /\ ~ArchiveConflicts(p) /\ Missing(p) # {}
          /\ exported' = exported \cup {Result(pruner[p].stream, n, pruner[p].rows[n]) :
                                        n \in DOMAIN pruner[p].rows}
          /\ pruner' = [pruner EXCEPT ![p].phase = "exported", ![p].missing = Missing(p)]
    /\ UNCHANGED <<pruneFrame, tables, bounds>>

\* The insert into the archive; prune() ends when its unique indices refuse it.
ArchiveRows(p) ==
    /\ pruner[p].phase = "exported"
    /\ LET rows == Only(pruner[p].rows, pruner[p].missing)
       IN  \/ /\ ~Refuses(archive, pruner[p].stream, rows)
              /\ archive' = Insert(archive, pruner[p].stream, rows)
              /\ pruner' = [pruner EXCEPT ![p].phase = "archived"]
           \/ /\ Refuses(archive, pruner[p].stream, rows)
              /\ PruneEnds(p)
              /\ UNCHANGED archive
    /\ UNCHANGED <<pruneFrame, audits, checkpoints, exported, bounds>>

\* The transaction of prune() deletes by id and inserts the checkpoint.
DeleteAndCheckpoint(p) ==
    LET s == pruner[p].stream
        to == Last(pruner[p].rows)
        gone == IdsOf(pruner[p].rows)
    IN  /\ to \notin DOMAIN checkpoints[s]
        /\ audits' = [t \in Streams |->
               Only(audits[t], {n \in DOMAIN audits[t] : IdOf[audits[t][n].event] \notin gone})]
        /\ checkpoints' = Insert(checkpoints, s, Only(pruner[p].rows, {to}))

\* It can take its turn: its stream is not locked, nor another SQLite transaction writing.
MayDelete(p) ==
    /\ pruner[p].phase = "archived" /\ ~Locked(pruner[p].stream)
    /\ dialect = "sqlite" => \A w \in Writers : writer[w].phase # "inserted"

\* The transaction commits, or is rolled back because the checkpoint exists.
Delete(p) ==
    /\ MayDelete(p)
    /\ \/ /\ DeleteAndCheckpoint(p)
          /\ pruner' = [pruner EXCEPT ![p] =
                 [pruner[p] EXCEPT !.phase = "selecting", !.todo = @ \ {pruner[p].stream},
                      !.stream = Free, !.rows = NoRows, !.missing = {}]]
       \/ /\ Last(pruner[p].rows) \in DOMAIN checkpoints[pruner[p].stream]
          /\ PruneEnds(p)
          /\ UNCHANGED <<audits, checkpoints>>
    /\ UNCHANGED <<pruneFrame, archive, exported, bounds>>

\* GET_LOCK of MySQL gives up.
DeleteTimeout(p) ==
    /\ pruner[p].phase = "archived" /\ dialect = "mysql" /\ Locked(pruner[p].stream)
    /\ PruneEnds(p)
    /\ UNCHANGED <<pruneFrame, tables, exported, bounds>>

\* A statement or policy.archive() rejects, or the process dies, with or without the
\* effect of the statement.
PruneFails(p) ==
    /\ pruner[p].phase # "idle" /\ Fault
    /\ \/ UNCHANGED tables
       \/ /\ pruner[p].phase = "exported"
          /\ ~Refuses(archive, pruner[p].stream, Only(pruner[p].rows, pruner[p].missing))
          /\ archive' = Insert(archive, pruner[p].stream, Only(pruner[p].rows, pruner[p].missing))
          /\ UNCHANGED <<audits, checkpoints>>
       \/ /\ MayDelete(p) /\ DeleteAndCheckpoint(p)
          /\ UNCHANGED archive
    /\ PruneEnds(p)
    /\ UNCHANGED <<pruneFrame, exported>>

\* Every stream is done.
Report(p) ==
    /\ pruner[p].phase = "selecting" /\ pruner[p].todo = {}
    /\ PruneEnds(p)
    /\ UNCHANGED <<pruneFrame, tables, exported, bounds>>

-----------------------------------------------------------------------------
WriteStep(w) ==
    \/ \E b \in Batches : Write(w, b)
    \/ AcquireLock(w) \/ LockTimeout(w) \/ ReadHead(w) \/ InsertRows(w) \/ ReleaseLock(w)
    \/ Commit(w) \/ CommitUnheard(w) \/ WriteFails(w) \/ Return(w)

PruneStep(p) ==
    \/ \E filter \in Filters : Prune(p, filter)
    \/ SelectStream(p) \/ LookUpArchive(p) \/ ArchiveRows(p) \/ Delete(p)
    \/ DeleteTimeout(p) \/ PruneFails(p) \/ Report(p)

Next ==
    \/ \E w \in Writers : WriteStep(w)
    \/ \E p \in Pruners : PruneStep(p)
    \/ \E e \in Events : Expire(e)

Spec == Init /\ [][Next]_vars

-----------------------------------------------------------------------------
(* Properties. *)

\* Row n is the n-th entry of the chain a hash commits to.
OnChain(n, row, hash) ==
    /\ n <= Len(hash) /\ hash[n] = [event |-> row.event, seq |-> n]
    /\ row.hash = SubSeq(hash, 1, n)

\* What the three tables know of a stream is one chain, whatever the writers of any
\* dialect read before they inserted and whatever was pruned since: the live rows are
\* its end, without a gap, the checkpoints lie before them, and no archived row is the
\* head or was replaced (lucid_store.ts:566-655, 438-494; hash_chain.ts:36-53).
OneChain ==
    \A s \in Streams : LET head == HeadOf(audits[s]) IN
        /\ Len(head.hash) = head.seq
        /\ DOMAIN audits[s] # {} => DOMAIN audits[s] = First(audits[s]) .. head.seq
        /\ \A n \in DOMAIN audits[s] : OnChain(n, audits[s][n], head.hash)
        /\ \A n \in DOMAIN archive[s] : n < head.seq /\ OnChain(n, archive[s][n], head.hash)
        /\ \A n \in DOMAIN checkpoints[s] :
              n < First(audits[s]) /\ OnChain(n, checkpoints[s][n], head.hash)

\* The hash verification or an anchor asks for, resolveSequenceHash.
Resolves(s, n) ==
    IF n \in DOMAIN audits[s] THEN audits[s][n].hash
    ELSE IF n \in DOMAIN archive[s] THEN archive[s][n].hash
    ELSE IF n \in DOMAIN checkpoints[s] THEN checkpoints[s][n].hash
    ELSE GENESIS

\* What write() has returned can be resolved to the same hash for ever, also after
\* the row was pruned (lucid_store.ts:186-216, 349-366, 438-494).
ReturnedResolves ==
    \A r \in returned : Resolves(r.stream, r.seq) = r.hash

\* A row leaves the table only when it is in the archive, and enters the archive only
\* after policy.archive() was called for it, through failed and retried and concurrent
\* prunes (lucid_store.ts:458-479).
ArchivedFirst ==
    \A s \in Streams :
        /\ DOMAIN audits[s] # {} =>
              \A n \in 1 .. First(audits[s]) - 1 :
                  n \in DOMAIN archive[s] /\ Result(s, n, archive[s][n]) \in exported
        /\ \A n \in DOMAIN archive[s] : Result(s, n, archive[s][n]) \in exported

\* The store is an append-only log per stream whose entries the hash of the head commits
\* to, with retention at its front (lucid_store.ts:166-217, 368-505).
Log == INSTANCE AuditLog
    WITH log <- [s \in Streams |-> HeadOf(audits[s]).hash],
         gone <- [s \in Streams |-> IF DOMAIN audits[s] = {} THEN 0 ELSE First(audits[s]) - 1]

LogSpec == Log!Spec

=============================================================================
