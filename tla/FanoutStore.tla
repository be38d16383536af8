---------------------------- MODULE FanoutStore ----------------------------
(***************************************************************************)
(* src/stores/fanout_store.ts over a primary store and two mirrors, a      *)
(* StreamStore on a file and an HttpStore, and the pipeline that calls     *)
(* write(): the next call when the one before it has ended.  The primary   *)
(* is any store that takes an event once.                                  *)
(***************************************************************************)
EXTENDS ChainedWrite

CONSTANTS
    NameOf,
    Batches,       \* the batches write() is called with
    Modes,         \* the option mirrorFailure: "throw" or "log"
    Formats, MaxRetained, Filters, Cutoffs,
    MaxCalls,      \* bound: calls of write() in the life of a process
    MaxFaults,     \* bound: statements, file writes and posts that fail
    MaxCrashes, MaxPrunes

ASSUME FanoutAssumption ==
    /\ StreamOf \in [Events -> Streams]
    /\ Modes \subseteq {"throw", "log"} /\ Formats \subseteq {"ndjson", "json"}
    /\ \A b \in Batches : b \in Seq(Events) /\ b # <<>>
    /\ {MaxRetained, MaxCalls, MaxFaults, MaxCrashes, MaxPrunes} \subseteq Nat

VARIABLES
    mode,
    primary,     \* the events the primary has
    phase,       \* where write() stands
    batch,       \* what it was called with
    calls,       \* calls since the process started
    faults,
    format, file, torn, glued, sidecar, streamHeads, broken, queue, writing, streamAnswer, crashes,
    httpHeads, logs, call, httpAnswer, pruning, collector, overlapped, prunes

Calls == 1 .. MaxCalls

Stream == INSTANCE StreamStore WITH heads <- streamHeads, answer <- streamAnswer
Http == INSTANCE HttpStore WITH heads <- httpHeads, answer <- httpAnswer

fanoutVars == <<mode, primary, phase, batch, calls>>
streamVars == <<format, file, torn, glued, sidecar, streamHeads, broken, queue, writing,
                streamAnswer, crashes>>
httpVars == <<httpHeads, logs, call, httpAnswer, pruning, collector, overlapped, prunes>>
vars == <<fanoutVars, streamVars, httpVars, faults>>

Init ==
    /\ mode \in Modes
    /\ primary = {} /\ phase = "idle" /\ batch = <<>> /\ calls = 0
    /\ Stream!Init /\ Http!Init

-----------------------------------------------------------------------------
\* Every mirror is called.
CallMirrors(b) == Stream!Write(calls', b) /\ Http!Write(calls', b)

\* write() is called: mode "throw" begins with the mirrors.
Write(b) ==
    /\ phase = "idle" /\ calls < MaxCalls
    /\ calls' = calls + 1
    /\ batch' = b
    /\ \/ /\ mode = "throw" /\ phase' = "mirrors"
          /\ CallMirrors(b)
       \/ /\ mode = "log" /\ phase' = "primary"
          /\ UNCHANGED <<streamVars, httpVars, faults>>
    /\ UNCHANGED <<mode, primary>>

Answers == {streamAnswer[calls], httpAnswer[calls]}

\* Fault: mode "throw" goes on without looking at the mirrors.
MirrorsIgnored ==
    /\ phase = "mirrors" /\ mode = "throw"
    /\ phase' = "primary"
    /\ UNCHANGED <<mode, primary, batch, calls, streamVars, httpVars, faults>>

\* Promise.all resolves.
MirrorsWritten ==
    /\ phase = "mirrors" /\ mode = "throw" /\ Answers = {"ok"}
    /\ phase' = "primary"
    /\ UNCHANGED <<mode, primary, batch, calls, streamVars, httpVars, faults>>

\* Promise.all rejects with the first mirror that fails; nobody waits for the other.
MirrorFails ==
    /\ phase = "mirrors" /\ mode = "throw" /\ "failed" \in Answers
    /\ phase' = "idle"
    /\ UNCHANGED <<mode, primary, batch, calls, streamVars, httpVars, faults>>

TakenByPrimary == primary' = primary \cup {batch[i] : i \in DOMAIN batch}

\* The primary writes: mode "throw" is done, mode "log" calls the mirrors.
WritePrimary ==
    /\ phase = "primary"
    /\ TakenByPrimary
    /\ \/ /\ mode = "throw" /\ phase' = "idle"
          /\ UNCHANGED <<calls, streamVars, httpVars, faults>>
       \/ /\ mode = "log" /\ phase' = "mirrors"
          /\ UNCHANGED calls /\ CallMirrors(batch)
    /\ UNCHANGED <<mode, batch>>

\* The primary rejects, with or without its effect.
PrimaryFails ==
    /\ phase = "primary" /\ faults < MaxFaults
    /\ faults' = faults + 1
    /\ TakenByPrimary \/ UNCHANGED primary
    /\ phase' = "idle"
    /\ UNCHANGED <<mode, batch, calls, streamVars, httpVars>>

\* Mode "log" waits for every mirror and tolerates that it failed.
MirrorsSettled ==
    /\ phase = "mirrors" /\ mode = "log" /\ "pending" \notin Answers
    /\ phase' = "idle"
    /\ UNCHANGED <<mode, primary, batch, calls, streamVars, httpVars, faults>>

FanoutStep ==
    \/ \E b \in Batches : Write(b)
    \/ MirrorsWritten \/ MirrorFails \/ WritePrimary \/ PrimaryFails \/ MirrorsSettled

StreamStep == Stream!WriteStep /\ UNCHANGED <<fanoutVars, httpVars>>

HttpStep == (Http!WriteStep \/ Http!PruneStep) /\ UNCHANGED <<fanoutVars, streamVars>>

\* The process dies with all that is under way.
Crash ==
    /\ Stream!Crash /\ Http!Crash
    /\ phase' = "idle" /\ calls' = 0 /\ batch' = <<>>
    /\ UNCHANGED <<mode, primary>>

Next == FanoutStep \/ StreamStep \/ HttpStep \/ Crash

Spec == Init /\ [][Next]_vars

-----------------------------------------------------------------------------
(* Properties. *)

InFile == {r.event : r \in glued} \cup {file[i].event : i \in DOMAIN file}
Collected == {r.event : r \in collector}

\* With mirrorFailure "throw" the primary has nothing that a mirror lacks, with "log" a
\* mirror has nothing that the primary lacks, whatever fails, is lost or is repeated
\* (fanout_store.ts:58-83).
FanoutOrder ==
    /\ mode = "throw" => primary \subseteq InFile \cap Collected
    /\ mode = "log" => InFile \cup Collected \subseteq primary

\* Under this caller, no mirror's head runs ahead of what its destination has, whatever
\* failed and wherever the process died (stream_store.ts:110-115, http_store.ts:67-90).
HeadsAreBacked == Stream!HeadsAreWritten /\ Http!HeadsAreTaken

\* Under this caller, only restarts give a seq of a stream to two rows of the file, and what
\* one process has written verifies from its first row on (stream_store.ts:84-145).
StreamFileSound == Stream!StreamFileSound

\* What docs/stores.md:32 says of restarts (stream_store.ts:110-115).
ChainSurvivesRestarts == Stream!ChainSurvivesRestarts

\* Under this caller, the window of the HTTP store is a chain that ends with its head
\* (http_store.ts:79-205).
WindowIsChain == Http!WindowIsChain

=============================================================================
