----------------------------- MODULE HttpStore -----------------------------
(***************************************************************************)
(* src/stores/http_store.ts in one process that dies and starts again.     *)
(* write() chains a batch to the heads in memory, posts it and moves the   *)
(* heads when the collector has answered; nothing makes writes take turns. *)
(* verify() and prune() know the window of rows that is kept in memory.    *)
(* An action is a request, an answer, or the return of policy.archive(),   *)
(* with the code up to the next.                                           *)
(***************************************************************************)
EXTENDS ChainedWrite

CONSTANTS
    Calls,          \* calls of write()
    NameOf,         \* the name of an event
    Filters,        \* the values of policy.eventFilter; "none" is its absence
    Cutoffs,        \* sets of events whose retention can have passed
    MaxRetained,    \* maxRetainedPerStream; 0 is no limit
    MaxFaults,      \* bound: posts that fail, with or without their effect
    MaxPrunes       \* bound: calls of prune()

VARIABLES
    heads,        \* #heads
    logs,         \* #logs
    call,         \* where each call of write() stands
    answer,       \* how each call ended
    pruning,      \* where prune() stands
    collector,    \* outside: the rows of the posts it has taken
    overlapped,   \* since the process started, a call has run into another under way
    faults, prunes    \* how much of the bounds is used

vars == <<heads, logs, call, answer, pruning, collector, overlapped, faults, prunes>>

NoCall == [phase |-> "none", batch |-> <<>>, rows |-> <<>>, next |-> NoHeads]
NoPrune == [phase |-> "none", filter |-> "none", old |-> {}, done |-> {}, stream |-> "none",
            retained |-> <<>>]

Init ==
    /\ heads = NoHeads
    /\ logs = [s \in Streams |-> <<>>]
    /\ call = [c \in Calls |-> NoCall]
    /\ answer = [c \in Calls |-> "none"]
    /\ pruning = NoPrune
    /\ collector = {} /\ overlapped = FALSE
    /\ faults = 0 /\ prunes = 0

UnderWay == {c \in Calls : call[c].phase # "none"}

-----------------------------------------------------------------------------
(* write() *)

\* The events are chained and the request is sent.
Write(c, batch) ==
    /\ answer[c] = "none"
    /\ answer' = [answer EXCEPT ![c] = "pending"]
    /\ call' = [call EXCEPT ![c] = [phase |-> "posting", batch |-> batch,
                                    rows |-> Chained(batch, heads), next |-> HeadsAfter(batch, heads)]]
    /\ overlapped' = (overlapped \/ UnderWay # {})
    /\ UNCHANGED <<heads, logs, pruning, collector, faults, prunes>>

\* The collector takes the batch.
Take(c) ==
    /\ call[c].phase = "posting"
    /\ collector' = collector \cup ToSet(call[c].rows)
    /\ call' = [call EXCEPT ![c].phase = "taken"]
    /\ UNCHANGED <<heads, logs, answer, pruning, overlapped, faults, prunes>>

Answered(c, how) ==
    /\ call' = [call EXCEPT ![c] = NoCall]
    /\ answer' = [answer EXCEPT ![c] = how]

\* The last rows of a window, as many as are retained.
Capped(rows) ==
    IF MaxRetained > 0 /\ Len(rows) > MaxRetained
    THEN SubSeq(rows, Len(rows) - MaxRetained + 1, Len(rows)) ELSE rows

\* The heads of the streams of a batch are set to those computed before the request.
MoveHeads(c) ==
    heads' = [s \in Streams |->
        IF OfStream(call[c].batch, s) = <<>> THEN heads[s] ELSE call[c].next[s]]

Remember(c) ==
    logs' = [s \in Streams |->
        IF OfStream(call[c].batch, s) = <<>> THEN logs[s]
        ELSE Capped(logs[s] \o RowsOf(call[c].rows, s))]

\* The collector answers 2xx.
Done(c) ==
    /\ call[c].phase = "taken"
    /\ MoveHeads(c) /\ Remember(c)
    /\ Answered(c, "ok")
    /\ overlapped' = (overlapped \/ pruning.phase = "archiving")
    /\ UNCHANGED <<pruning, collector, faults, prunes>>

\* The request fails, or its answer is lost or not 2xx.
PostFails(c) ==
    /\ call[c].phase \in {"posting", "taken"} /\ faults < MaxFaults
    /\ faults' = faults + 1
    /\ Answered(c, "failed")
    /\ UNCHANGED <<heads, logs, pruning, collector, overlapped, prunes>>

-----------------------------------------------------------------------------
(* prune() *)

\* prune() is called when the retention of some events has passed.
Prune(filter, old) ==
    /\ pruning = NoPrune /\ prunes < MaxPrunes
    /\ prunes' = prunes + 1
    /\ pruning' = [NoPrune EXCEPT !.phase = "selecting", !.filter = filter, !.old = old]
    /\ UNCHANGED <<heads, logs, call, answer, collector, overlapped, faults>>

\* Fault: the last row is not spared.
RetainedAll(rows) ==
    Where(rows, {r \in ToSet(rows) :
        \/ pruning.filter \notin {"none", NameOf[r.event]}
        \/ r.event \notin pruning.old})

\* The rows of a window that stay: the last one, those the filter spares and those whose
\* retention has not passed.
Retained(rows) ==
    Where(rows, {r \in ToSet(rows) :
        \/ r.seq = Last(rows).seq
        \/ pruning.filter \notin {"none", NameOf[r.event]}
        \/ r.event \notin pruning.old})

\* One stream is pruned; policy.archive() is called first when there is one.
SelectRows ==
    /\ pruning.phase = "selecting"
    /\ \E s \in Streams \ pruning.done :
          LET retained == Retained(logs[s])
          IN  \/ /\ logs[s] # <<>>
                 /\ pruning' = [pruning EXCEPT !.done = @ \cup {s}]
                 /\ logs' = [logs EXCEPT ![s] = retained]
              \/ /\ retained # logs[s]
                 /\ pruning' = [pruning EXCEPT !.phase = "archiving", !.done = @ \cup {s},
                                               !.stream = s, !.retained = retained]
                 /\ UNCHANGED logs
    /\ UNCHANGED <<heads, call, answer, collector, overlapped, faults, prunes>>

\* policy.archive() resolves: the window becomes what was retained before the call.
KeepRetained ==
    /\ pruning.phase = "archiving"
    /\ logs' = [logs EXCEPT ![pruning.stream] = pruning.retained]
    /\ pruning' = [pruning EXCEPT !.phase = "selecting", !.stream = "none", !.retained = <<>>]
    /\ UNCHANGED <<heads, call, answer, collector, overlapped, faults, prunes>>

\* prune() ends, or policy.archive() rejects.
PruneEnds ==
    /\ \/ pruning.phase = "archiving"
       \/ pruning.phase = "selecting" /\ \A s \in Streams : logs[s] = <<>> \/ s \in pruning.done
    /\ pruning' = NoPrune
    /\ UNCHANGED <<heads, logs, call, answer, collector, overlapped, faults, prunes>>

\* The process dies; heads and windows are gone.
Crash ==
    /\ heads' = NoHeads
    /\ logs' = [s \in Streams |-> <<>>]
    /\ call' = [c \in Calls |-> NoCall]
    /\ answer' = [c \in Calls |-> "none"]
    /\ pruning' = NoPrune
    /\ overlapped' = FALSE
    /\ UNCHANGED <<collector, faults, prunes>>

WriteStep == \E c \in Calls : Take(c) \/ Done(c) \/ PostFails(c)

PruneStep ==
    \/ \E filter \in Filters, old \in Cutoffs : Prune(filter, old)
    \/ SelectRows \/ KeepRetained \/ PruneEnds

-----------------------------------------------------------------------------
(* verify() *)

\* What the rows of a range have to go on from: the row of the window before them, else
\* what the first of them says of its predecessor.
StartOf(rows, inRange) ==
    LET before == Where(rows, {r \in ToSet(rows) : r.seq < inRange[1].seq})
    IN  IF before # <<>> THEN [seq |-> Last(before).seq, hash |-> Last(before).hash]
        ELSE [seq |-> inRange[1].seq - 1, hash |-> Front(inRange[1].hash)]

Verify(s, from, to) ==
    LET inRange == Where(logs[s], {r \in ToSet(logs[s]) : r.seq \in from .. to})
    IN  inRange # <<>> => AllValid(inRange, StartOf(logs[s], inRange))

-----------------------------------------------------------------------------
(* Properties. *)

\* A head moves only to rows the collector has taken, and so do all that it commits to,
\* also when answers are lost, batches repeated and writes overlap (http_store.ts:67-90).
HeadsAreTaken ==
    \A s \in Streams : BackedBy(heads[s], collector)

\* As long as no call runs into another, the window ends with the head, whatever the cap
\* evicts and prune() removes, and until something was pruned every range of it verifies,
\* although the rows before it are gone (http_store.ts:79-90, 99-157, 165-205).
WindowIsChain ==
    ~overlapped => \A s \in Streams :
        /\ IF logs[s] = <<>> THEN heads[s] = NoHead ELSE Last(logs[s]).hash = heads[s].hash
        /\ prunes = 0 => \A from, to \in 1 .. heads[s].seq : Verify(s, from, to)

=============================================================================
