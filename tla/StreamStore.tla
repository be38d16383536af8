---------------------------- MODULE StreamStore ----------------------------
(***************************************************************************)
(* src/stores/stream_store.ts with a file for destination: write() of one  *)
(* process that dies and starts again.  Writes take turns; each appends    *)
(* its rows to the file, line by line, then moves the heads in memory and  *)
(* replaces the sidecar by a rename.  An action is one write to the file   *)
(* system with the code up to the next.                                    *)
(***************************************************************************)
EXTENDS ChainedWrite

CONSTANTS
    Calls,        \* calls of write()
    Formats,      \* the option format: "ndjson" or "json"
    MaxFaults,    \* bound: writes to the file system that fail
    MaxCrashes    \* bound: restarts of the process

VARIABLES
    format,
    file,         \* the rows of the lines that parse, in the order of the file
    torn,         \* the file ends in a part of a line
    glued,        \* rows whose line was appended to such a part: no reader sees them
    sidecar,      \* the heads in the sidecar file
    heads,        \* #heads
    broken,       \* #fileStream has failed: Node has destroyed it, it is never replaced
    queue,        \* the calls that wait for #writeTail, with their batches
    writing,      \* the call whose turn it is
    answer,       \* how each call ended
    faults, crashes    \* how much of the bounds is used

disk == <<file, torn, glued, sidecar>>
vars == <<format, disk, heads, broken, queue, writing, answer, faults, crashes>>

NoCall == 0
Resting == [call |-> NoCall, batch |-> <<>>, lines |-> <<>>]

Init ==
    /\ format \in Formats
    /\ file = <<>> /\ torn = FALSE /\ glued = {}
    /\ sidecar = NoHeads /\ heads = NoHeads
    /\ broken = FALSE
    /\ queue = <<>> /\ writing = Resting
    /\ answer = [c \in Calls |-> "none"]
    /\ faults = 0 /\ crashes = 0

Fault == faults < MaxFaults /\ faults' = faults + 1

-----------------------------------------------------------------------------
\* The lines of a batch: one for each row, or one JSON array.
LinesOf(b, from) ==
    LET rows == Chained(b, from)
    IN  IF format = "json" THEN <<rows>> ELSE [k \in DOMAIN rows |-> <<rows[k]>>]

\* The turn of the first of some waiting calls: #writeBatch chains its events to #heads.
TurnOfFirst(waiting) ==
    /\ queue' = IF waiting = <<>> THEN <<>> ELSE Tail(waiting)
    /\ writing' = IF waiting = <<>> THEN Resting
                  ELSE [call |-> waiting[1].call, batch |-> waiting[1].batch,
                        lines |-> LinesOf(waiting[1].batch, heads')]

\* write() takes its place behind #writeTail.
Write(c, b) ==
    /\ answer[c] = "none"
    /\ answer' = [answer EXCEPT ![c] = "pending"]
    /\ UNCHANGED heads
    /\ IF writing = Resting THEN TurnOfFirst(<<[call |-> c, batch |-> b]>>)
       ELSE queue' = Append(queue, [call |-> c, batch |-> b]) /\ UNCHANGED writing
    /\ UNCHANGED <<format, disk, broken, faults, crashes>>

\* #writeLine: the next line is in the file.
WriteLine ==
    /\ writing.lines # <<>> /\ ~broken
    /\ IF torn THEN glued' = glued \cup ToSet(Head(writing.lines)) /\ UNCHANGED file
               ELSE file' = file \o Head(writing.lines) /\ UNCHANGED glued
    /\ torn' = FALSE
    /\ writing' = [writing EXCEPT !.lines = Tail(@)]
    /\ UNCHANGED <<format, sidecar, heads, broken, queue, answer, faults, crashes>>

\* The call ends and the next has its turn.
Answered(how) ==
    /\ answer' = [answer EXCEPT ![writing.call] = how]
    /\ TurnOfFirst(queue)

\* Fault: the stream goes on after an error.
LineFailsOnce ==
    /\ writing.lines # <<>> /\ Fault
    /\ torn' \in {torn, TRUE} /\ UNCHANGED heads
    /\ Answered("failed")
    /\ UNCHANGED <<format, file, glued, sidecar, broken, crashes>>

\* The file takes nothing of a line, or a part of it, and the destroyed stream nothing
\* ever again: write() rejects.
LineFails ==
    /\ writing.lines # <<>>
    /\ \/ broken /\ UNCHANGED <<torn, faults>>
       \/ ~broken /\ Fault /\ torn' \in {torn, TRUE}
    /\ broken' = TRUE /\ UNCHANGED heads
    /\ Answered("failed")
    /\ UNCHANGED <<format, file, glued, sidecar, crashes>>

\* Fault: the heads move before the lines are written.
FinishEarly ==
    /\ writing # Resting
    /\ heads' = HeadsAfter(writing.batch, heads)
    /\ sidecar' = heads'
    /\ Answered("ok")
    /\ UNCHANGED <<format, file, torn, glued, broken, faults, crashes>>

\* All lines are written: the heads move, in memory and in the sidecar.
FinishBatch ==
    /\ writing # Resting /\ writing.lines = <<>>
    /\ heads' = HeadsAfter(writing.batch, heads)
    /\ sidecar' = heads'
    /\ Answered("ok")
    /\ UNCHANGED <<format, file, torn, glued, broken, faults, crashes>>

\* The sidecar cannot be written: write() rejects although its lines and heads stay.
PersistFails ==
    /\ writing # Resting /\ writing.lines = <<>> /\ Fault
    /\ heads' = HeadsAfter(writing.batch, heads)
    /\ Answered("failed")
    /\ UNCHANGED <<format, disk, broken, crashes>>

\* The process dies, perhaps in the middle of a line, and starts again.
Crash ==
    /\ crashes < MaxCrashes /\ crashes' = crashes + 1
    /\ \/ UNCHANGED torn
       \/ writing.lines # <<>> /\ ~broken /\ torn' = TRUE
    /\ heads' = sidecar
    /\ broken' = FALSE
    /\ queue' = <<>> /\ writing' = Resting
    /\ answer' = [c \in Calls |-> "none"]
    /\ UNCHANGED <<format, file, glued, sidecar, faults>>

WriteStep == WriteLine \/ LineFails \/ FinishBatch \/ PersistFails

-----------------------------------------------------------------------------
(* verify() *)

\* The rows of a stream in a range, sorted by seq; rows with one seq stay in the order
\* of the file.
ReadFileEvents(s, from, to) ==
    LET inRange == Where(RowsOf(file, s), {r \in ToSet(file) : r.seq \in from .. to})
    IN  FlattenSeq([n \in 1 .. to |-> Where(inRange, {r \in ToSet(file) : r.seq = n})])

\* verify() gives verifyChain no head, so that it expects the first row of the stream
\* whatever the range.
Verify(s, from, to) == AllValid(ReadFileEvents(s, from, to), NoHead)

-----------------------------------------------------------------------------
(* Properties. *)

\* The heads, in memory and in the sidecar, never run ahead of the file: every entry they
\* commit to has been written, whatever failed and wherever the process died
\* (stream_store.ts:110-115, 294-312).
HeadsAreWritten ==
    \A s \in Streams : \A head \in {heads[s], sidecar[s]} : BackedBy(head, ToSet(file) \cup glued)

\* The rows of a stream in the file that have a seq.
Copies(s, n) == Where(RowsOf(file, s), {r \in ToSet(RowsOf(file, s)) : r.seq = n})

\* Within the life of one process no two rows of a stream get the same seq, also when
\* writes overlap, fail half-way and are repeated; a restart adds at most one more with it.
\* What one process has written verifies from the first row to any other, with rows of
\* failed writes at its end too (stream_store.ts:84-115, 125-145, hash_chain.ts:62-104).
StreamFileSound ==
    \A s \in Streams :
        /\ \A n \in {r.seq : r \in ToSet(RowsOf(file, s))} : Len(Copies(s, n)) <= 1 + crashes
        /\ crashes = 0 => \A to \in 1 .. Len(RowsOf(file, s)) : Verify(s, 1, to)

\* "For file destinations, the store keeps a sidecar head file so the chain survives
\* restarts." (docs/stores.md:32): no seq of a stream is in the file twice.  But the sidecar
\* is written after the lines (stream_store.ts:110-115): of lines that are in the file when
\* the process dies in between, the next process knows nothing.
ChainSurvivesRestarts ==
    \A s \in Streams : \A n \in {r.seq : r \in ToSet(RowsOf(file, s))} : Len(Copies(s, n)) = 1

=============================================================================
