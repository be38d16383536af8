----------------------------- MODULE Anchoring -----------------------------
(***************************************************************************)
(* How chain heads are anchored outside of the store, and how they are     *)
(* checked: src/core/successful_delivery_notifier.ts and src/core/anchor.ts *)
(* in the process that delivers, the publishers of src/core/anchor.ts, and *)
(* the option --check-anchors of src/commands/audit_verify.ts in another   *)
(* process, beside retention.                                              *)
(*                                                                         *)
(* An action is the code between two awaits.  Deliverers are the pipeline  *)
(* and the drainer, which share one notifier.  The store appears by what   *)
(* AuditLog promises of it.  It is the only one: neither the state of the  *)
(* service nor the file tells a stream of one store from the stream of     *)
(* that name in another.  The publisher appends to the file that is        *)
(* checked, and may be cut short (fileAppendPublisher); one that takes a   *)
(* head or does not is a special case of it.                               *)
(***************************************************************************)
EXTENDS Naturals, Integers, Sequences, FiniteSets

CONSTANTS
    Streams,
    Deliverers,
    Batches,          \* the batches, each by the streams of its events
    Every,            \* config.chain.anchor.every, when it is a number
    Modes,            \* "count" when it is a number, "daily"
    MaxRows,          \* bound, per stream: its rows in a store
    MaxFaults,        \* bound: writes of what is stored, publications that reject, restarts
    MaxRestores,      \* bound: restores
    MaxDays           \* bound: midnights

ASSUME StreamsAssumption == Streams # {}
ASSUME BatchesAssumption == Batches \subseteq Seq(Streams)
ASSUME BoundsAssumption == MaxRows \in [Streams -> Nat]
ASSUME EveryAssumption == Every \in Nat \ {0} /\ Modes \subseteq {"count", "daily"}

VARIABLES
    chain,     \* per stream: the events of its rows
    archived,  \* per stream: how many rows are in audit_archive_events
    gone,      \* per stream: how many of them prune() has deleted from audits
    mode,      \* which kind config.chain.anchor.every is
    today,     \* the date
    delivered, \* #deliveredEventIds: rows, with the date they were announced
    state,     \* #state of AnchorService: the last anchor per stream
    job,       \* per deliverer: the locals of notify() and onFlush()
    anchors,   \* the heads that the anchors file has received whole
    file,      \* "whole"; "open" when its last line lacks the newline; "unreadable" when
               \* it has a line that does not parse
    missed,    \* history: rows whose anchoring was given up
    check,     \* the locals of #verifyAnchor, and its result
    faults,    \* how often something failed
    restores,  \* history: how often the database returned to an older state
    taken,     \* history, per stream: the events that restores took
    redelivered, \* history: such an event was written again
    lost       \* history: the streams of which a restore took a whole interval

process == <<delivered, state, job, missed>>
database == <<chain, archived, gone>>
published == <<anchors, file>>
losses == <<restores, taken, lost>>
counters == <<faults, losses, redelivered>>
vars == <<database, mode, today, process, published, check, counters>>

\* Something of what MaxFaults bounds.
Fault ==
    /\ faults < MaxFaults
    /\ faults' = faults + 1

\* An event, by when its stream first got it: the restores before it, and its seq.
Event(n) == <<restores, n>>

\* A hash commits to the events of its stream up to its own.
Hash(c, s, n) == SubSeq(c[s], 1, n)
Row(c, s, n) == [stream |-> s, seq |-> n, hash |-> Hash(c, s, n)]

\* The event of a row.
IdOf(row) == <<row.stream, row.hash[row.seq]>>

NotAnchored == [seq |-> -1, day |-> -1]
NoRow == [stream |-> CHOOSE s \in Streams : TRUE, seq |-> 0, hash |-> <<>>]
Idle == [phase |-> "idle", rows |-> <<>>, head |-> NoRow, left |-> {}, day |-> 0]
NoCheck == [phase |-> "idle", stream |-> CHOOSE s \in Streams : TRUE, todo |-> {},
            verdict |-> "none", lost |-> FALSE]

Init ==
    /\ chain = [s \in Streams |-> <<>>]
    /\ archived = [s \in Streams |-> 0]
    /\ gone = [s \in Streams |-> 0]
    /\ mode \in Modes
    /\ today = 0
    /\ delivered = {}
    /\ state = [s \in Streams |-> NotAnchored]
    /\ job = [d \in Deliverers |-> Idle]
    /\ anchors = {} /\ file = "whole"
    /\ missed = {}
    /\ check = NoCheck
    /\ faults = 0 /\ restores = 0 /\ lost = {}
    /\ taken = [s \in Streams |-> {}] /\ redelivered = FALSE

-----------------------------------------------------------------------------
(* Deliveries. *)

\* Fault: the event itself is not counted.
CountOfBefore(batch, s, i) == Cardinality({k \in 1 .. i - 1 : batch[k] = s})

\* How many of the first i events of a batch are of stream s.
CountOf(batch, s, i) == Cardinality({k \in 1 .. i : batch[k] = s})

\* The next events of a stream.
NewEvents(s, count) == [k \in 1 .. count |-> Event(Len(chain[s]) + k)]

\* The store has committed a batch; its answer, or that of a repeated write(), is
\* under way.
Write(d, batch) ==
    /\ job[d].phase = "idle"
    /\ chain' = [s \in Streams |-> chain[s] \o NewEvents(s, CountOf(batch, s, Len(batch)))]
    /\ \A s \in Streams : Len(chain'[s]) <= MaxRows[s]
    /\ job' = [job EXCEPT ![d] = [Idle EXCEPT
          !.phase = "written",
          !.rows = [k \in DOMAIN batch |->
                       LET s == batch[k]
                       IN  Row(chain', s, Len(chain[s]) + CountOf(batch, s, k))]]]
    /\ UNCHANGED <<archived, gone, mode, today, delivered, state, published, missed, check, counters>>

\* The store is asked to write an event that it has: it answers with the stored row.
Replay(d, s, n) ==
    /\ Fault
    /\ job[d].phase = "idle"
    /\ n \in 1 .. Len(chain[s])
    /\ job' = [job EXCEPT ![d] = [Idle EXCEPT !.phase = "written", !.rows = <<Row(chain, s, n)>>]]
    /\ UNCHANGED <<database, mode, today, delivered, state, published, missed, check, losses, redelivered>>

\* An event that a restore took is delivered again (its acknowledgement was restored,
\* too, or the batch is retried) and becomes a row at the end of its stream.
Redeliver(d, s, e) ==
    /\ Fault
    /\ job[d].phase = "idle"
    /\ e \in taken[s] /\ \A n \in DOMAIN chain[s] : chain[s][n] # e
    /\ Len(chain[s]) < MaxRows[s]
    /\ chain' = [chain EXCEPT ![s] = Append(@, e)]
    /\ redelivered' = TRUE
    /\ job' = [job EXCEPT ![d] = [Idle EXCEPT !.phase = "written",
                                            !.rows = <<Row(chain', s, Len(chain'[s]))>>]]
    /\ UNCHANGED <<archived, gone, mode, today, delivered, state, published, missed, check, losses>>

\* What this process has announced, by event: an event that is delivered again is not
\* announced a second time, even as another row.
Announced == {IdOf(x.row) : x \in delivered}

\* notify(): what this process has announced before is left out, the rest is
\* remembered before anything is emitted.
Notify(d) ==
    /\ job[d].phase = "written"
    /\ LET rows == job[d].rows
           fresh == [k \in {i \in DOMAIN rows : IdOf(rows[i]) \notin Announced} |-> rows[k]]
       IN  IF DOMAIN fresh = {}
           THEN job' = [job EXCEPT ![d] = Idle] /\ UNCHANGED delivered
           ELSE /\ delivered' = delivered \cup
                      {[row |-> fresh[k], day |-> today] : k \in DOMAIN fresh}
                /\ job' = [job EXCEPT ![d] = [Idle EXCEPT !.phase = "emitting", !.rows = fresh]]
    /\ UNCHANGED <<database, mode, today, state, published, missed, check, counters>>

-----------------------------------------------------------------------------
(* AnchorService.onFlush(). *)

Bucket(n) == n \div Every

\* #shouldAnchor
ShouldAnchor(st, row) ==
    LET last == st[row.stream]
    IN  \/ last = NotAnchored
        \/ mode = "count" /\ Bucket(last.seq) < Bucket(row.seq)
        \/ mode = "daily" /\ last.day # today

\* Fault: the first row of a stream is kept.
FirstPerStream(rows) ==
    {rows[k] : k \in {i \in DOMAIN rows :
        \A j \in DOMAIN rows : rows[j].stream = rows[i].stream => rows[j].seq >= rows[i].seq}}

\* #lastPerStream: the rows with the greatest seq of their streams.
LastPerStream(rows) ==
    {rows[k] : k \in {i \in DOMAIN rows :
        \A j \in DOMAIN rows : rows[j].stream = rows[i].stream => rows[j].seq <= rows[i].seq}}

\* The heads come in the order in which the delivery first names their streams.
Before(rows, g, h) ==
    \E k \in DOMAIN rows :
        /\ rows[k].stream = g.stream
        /\ \A i \in DOMAIN rows : rows[i].stream = h.stream => k < i

\* The loop of onFlush() up to its next await: heads that need no anchor are passed
\* over, the anchor of the next one is stamped and published.
Continue(j, heads, st) ==
    LET due == {h \in heads : ShouldAnchor(st, h)}
        next == CHOOSE h \in due : \A g \in due : ~Before(j.rows, g, h)
    IN  IF due = {} THEN Idle
        ELSE [phase |-> "publishing", rows |-> j.rows, head |-> next, day |-> today,
              left |-> {g \in heads \ {next} : ~Before(j.rows, g, next)}]

\* emit('audit:flushed') is over; an observer that fails is ignored.
Emitted(d) ==
    /\ job[d].phase = "emitting"
    /\ job' = [job EXCEPT ![d] = Continue(job[d], LastPerStream(job[d].rows), state)]
    /\ UNCHANGED <<database, mode, today, delivered, state, published, missed, check, counters>>

\* The chain head that a deliverer publishes.
Published(d) ==
    LET head == job[d].head
    IN  [stream |-> head.stream, seq |-> head.seq, hash |-> head.hash, day |-> job[d].day]

\* appendFile() has added a line; after an open one both are a single line that does
\* not parse.
Appended == IF file = "whole" THEN "whole" ELSE "unreadable"

PublishResolves(d) ==
    /\ job[d].phase = "publishing"
    /\ LET anchor == Published(d)
           st == [state EXCEPT ![anchor.stream] = [seq |-> anchor.seq, day |-> anchor.day]]
       IN  /\ anchors' = anchors \cup {anchor} /\ file' = Appended
           /\ state' = st
           /\ job' = [job EXCEPT ![d] = Continue(job[d], job[d].left, st)]
    /\ UNCHANGED <<database, mode, today, delivered, missed, check, counters>>

\* Some appends end early: each adds nothing, a part of its line, the line without its
\* newline, or all of it.
CutShort(ds) ==
    \E whole \in SUBSET ds :
        /\ anchors' = anchors \cup {Published(d) : d \in whole}
        /\ \/ whole = {} /\ UNCHANGED file
           \/ whole # {} /\ file = "whole" /\ file' \in {"whole", "open"}
           \/ /\ whole # ds \/ (\E d \in whole : file # "whole" \/ whole # {d})
              /\ file' = "unreadable"

\* The publisher fails, before or after it took the head; notify() ignores it, and
\* the streams that are left go without.
PublishRejects(d) ==
    /\ Fault
    /\ job[d].phase = "publishing"
    /\ CutShort({d})
    /\ missed' = missed \cup {job[d].rows[k] : k \in DOMAIN job[d].rows}
    /\ job' = [job EXCEPT ![d] = Idle]
    /\ UNCHANGED <<database, mode, today, delivered, state, check, losses, redelivered>>

-----------------------------------------------------------------------------
(* What goes on around. *)

Midnight ==
    /\ mode = "daily" /\ today < MaxDays
    /\ today' = today + 1
    /\ UNCHANGED <<database, mode, process, published, check, counters>>

\* The delivering process dies and is started again: the memory of notifier and
\* anchor service is empty.  The publisher may have taken what was under way.
Restart ==
    /\ Fault
    /\ CutShort({d \in Deliverers : job[d].phase = "publishing"})
    /\ delivered' = {} /\ missed' = {}
    /\ state' = [s \in Streams |-> NotAnchored]
    /\ job' = [d \in Deliverers |-> Idle]
    /\ UNCHANGED <<database, mode, today, check, losses, redelivered>>

\* prune() archives the front of a stream, and then deletes it; the last row stays.
Archive(s) ==
    /\ archived[s] = 0   \* bound: one prune of a stream
    /\ \E n \in archived[s] + 1 .. Len(chain[s]) - 1 :
          archived' = [archived EXCEPT ![s] = n]
    /\ UNCHANGED <<chain, gone, mode, today, process, published, check, counters>>

\* Fault: what came in since the archive transaction is deleted with it.
DeleteAll(s) ==
    /\ gone[s] < archived[s]
    /\ gone' = [gone EXCEPT ![s] = Len(chain[s]) - 1]
    /\ UNCHANGED <<chain, archived, mode, today, process, published, check, counters>>

Delete(s) ==
    /\ gone[s] < archived[s]
    /\ gone' = [gone EXCEPT ![s] = archived[s]]
    /\ UNCHANGED <<chain, archived, mode, today, process, published, check, counters>>

\* The rows that are announced and on whose anchor nobody works any more.
Working(d) ==
    IF job[d].phase \in {"emitting", "publishing"}
    THEN {job[d].rows[k] : k \in DOMAIN job[d].rows}
    ELSE {}
Done == {x \in delivered : x.row \notin missed /\ \A d \in Deliverers : x.row \notin Working(d)}

Present(r) ==
    /\ r.seq <= Len(chain[r.stream])
    /\ r.hash = Hash(chain, r.stream, r.seq)

\* The rows whose delivery is over that a restore to n rows takes of a stream.
Taken(s, n) ==
    {x.row : x \in {y \in Done : y.row.stream = s /\ Present(y.row) /\ y.row.seq > n}}

\* The store loses its newest rows, as after a restore from a backup.
Restore(s) ==
    /\ restores < MaxRestores
    /\ \E n \in 0 .. Len(chain[s]) - 1 :
          /\ archived[s] = 0 \/ archived[s] < n
          /\ chain' = [chain EXCEPT ![s] = SubSeq(@, 1, n)]
          /\ taken' = [taken EXCEPT ![s] = @ \cup {chain[s][k] : k \in n + 1 .. Len(chain[s])}]
          /\ lost' = IF \E g, h \in Taken(s, n) : h.seq - g.seq >= Every THEN lost \cup {s} ELSE lost
    /\ restores' = restores + 1
    /\ UNCHANGED <<archived, gone, mode, today, process, published, check, faults, redelivered>>

-----------------------------------------------------------------------------
(* audit:verify --check-anchors. *)

\* The file is parsed before the anchors of the stream are picked: a line that does not
\* parse ends the command.  Without an anchor of the stream the check passes.
StartCheck(s) ==
    /\ check = NoCheck   \* bound: one check in a behaviour
    /\ LET read == IF file = "unreadable" THEN {} ELSE {a \in anchors : a.stream = s}
       IN  check' = [phase |-> IF read = {} THEN "idle" ELSE "audits",
                     stream |-> s, todo |-> read,
                     verdict |-> IF file = "unreadable" THEN "unreadable"
                                 ELSE IF read = {} THEN "passed" ELSE "none",
                     lost |-> s \in lost]
    /\ UNCHANGED <<database, mode, today, process, published, counters>>

\* The anchor that is looked up: sorted by seq.
Current == CHOOSE a \in check.todo : \A b \in check.todo : a.seq <= b.seq

CheckAt(phase, todo, verdict) ==
    [phase |-> phase, stream |-> check.stream, todo |-> todo, verdict |-> verdict,
     lost |-> check.lost]

Ends(verdict) == CheckAt("idle", {}, verdict)

\* The stored hash is compared with the anchored one.
Compared(hash) ==
    IF hash # Current.hash THEN Ends("mismatch")
    ELSE IF check.todo = {Current} THEN Ends("passed")
    ELSE CheckAt("audits", check.todo \ {Current}, "none")

\* resolveSequenceHash() looks into audits, then into audit_archive_events; a checkpoint
\* is an archived row, so that the third table has nothing to add.
LookIntoAudits ==
    /\ check.phase = "audits"
    /\ LET s == check.stream
           n == Current.seq
       IN  check' = IF gone[s] < n /\ n <= Len(chain[s])
                    THEN Compared(Hash(chain, s, n))
                    ELSE CheckAt("archive", check.todo, "none")
    /\ UNCHANGED <<database, mode, today, process, published, counters>>

\* Fault: an anchor that is not found is passed over.
LookIntoArchiveOrSkip ==
    /\ check.phase = "archive"
    /\ check' = IF Current.seq <= archived[check.stream]
                THEN Compared(Hash(chain, check.stream, Current.seq))
                ELSE IF check.todo = {Current} THEN Ends("passed")
                ELSE CheckAt("audits", check.todo \ {Current}, "none")
    /\ UNCHANGED <<database, mode, today, process, published, counters>>

LookIntoArchive ==
    /\ check.phase = "archive"
    /\ check' = IF Current.seq <= archived[check.stream]
                THEN Compared(Hash(chain, check.stream, Current.seq))
                ELSE Ends("unavailable")
    /\ UNCHANGED <<database, mode, today, process, published, counters>>

Next ==
    \/ \E d \in Deliverers :
          \/ \E b \in Batches : Write(d, b)
          \/ \E s \in Streams : \E n \in 1 .. MaxRows[s] : Replay(d, s, n)
          \/ \E s \in Streams : \E e \in taken[s] : Redeliver(d, s, e)
          \/ Notify(d) \/ Emitted(d) \/ PublishResolves(d) \/ PublishRejects(d)
    \/ Midnight \/ Restart
    \/ \E s \in Streams : Archive(s) \/ Delete(s) \/ Restore(s) \/ StartCheck(s)
    \/ LookIntoAudits \/ LookIntoArchive

Spec == Init /\ [][Next]_vars

-----------------------------------------------------------------------------
(* Properties. *)

Events == Nat \X Nat

RowOk(r) ==
    /\ r \in [stream : Streams, seq : Nat, hash : Seq(Events)]
    /\ r.seq \in 1 .. MaxRows[r.stream]

AnchorType == [stream : Streams, seq : Nat, hash : Seq(Events), day : Nat]

\* What a deliverer works on.
JobOk(j) ==
    /\ j.phase \in {"idle", "written", "emitting", "publishing"}
    /\ DOMAIN j.rows \subseteq Nat
    /\ \A k \in DOMAIN j.rows : RowOk(j.rows[k])
    /\ j.day \in 0 .. today
    /\ j.phase = "publishing" => \A h \in {j.head} \cup j.left : RowOk(h)

\* The variables have the values that the code gives them.
TypeOK ==
    /\ chain \in [Streams -> Seq(Events)]
    /\ archived \in [Streams -> Nat] /\ gone \in [Streams -> Nat]
    /\ mode \in Modes
    /\ today \in Nat /\ faults \in Nat /\ restores \in Nat
    /\ \A x \in delivered : RowOk(x.row) /\ x.day \in 0 .. today
    /\ state \in [Streams -> {NotAnchored} \cup [seq : Nat, day : Nat]]
    /\ DOMAIN job = Deliverers /\ \A d \in Deliverers : JobOk(job[d])
    /\ anchors \subseteq AnchorType /\ file \in {"whole", "open", "unreadable"}
    /\ taken \in [Streams -> SUBSET Events] /\ redelivered \in BOOLEAN
    /\ lost \subseteq Streams /\ check.lost \in BOOLEAN
    /\ check.phase \in {"idle", "audits", "archive"}
    /\ check.stream \in Streams
    /\ check.verdict \in {"none", "passed", "mismatch", "unavailable", "unreadable"}

\* An anchor that leaves no whole interval between itself and a row: it is in the bucket
\* of the row or a later one, or of the day the row was announced on or a later one.
Covers(a, x) ==
    /\ a.stream = x.row.stream
    /\ IF mode = "count" THEN Bucket(a.seq) >= Bucket(x.row.seq) ELSE a.day >= x.day

\* When a delivery is over and no publication has failed under it, its rows are covered by
\* an anchor, whatever the other deliverer did to the state meanwhile
\* (anchor.ts:26-42, successful_delivery_notifier.ts:28-50).
DeliveredIsAnchored ==
    \A x \in Done : \E a \in anchors : Covers(a, x)

\* The check fails only when the store has lost rows, or when an append to the anchors file
\* was cut short (anchor.ts:74-78), at whose line JSON.parse throws, whatever the store
\* has: retention that runs beside it never looks like a loss, and neither does an
\* event that comes back as another row (audit_verify.ts:125-157, lucid_store.ts:349-369).
AnchorsResolve ==
    /\ check.verdict \in {"mismatch", "unavailable"} => restores > 0
    /\ check.verdict = "unreadable" => file # "whole"

\* A check that passes has overlooked less than one interval of any loss: of the rows whose
\* delivery was over when a restore took them, no two were a whole interval apart
\* (anchor.ts:57-68, audit_verify.ts:140-160).  Rows that are lost while their delivery is
\* under way are not bounded: an anchor of the rows that replace them covers them too.  Nor
\* are those of a store into which lost events came back: rows that are written again in
\* their places make an anchor right again, beyond which the rest stays lost.
LossIsBounded == check.verdict = "passed" /\ mode = "count" /\ ~redelivered => ~check.lost

=============================================================================
