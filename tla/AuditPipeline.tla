--------------------------- MODULE AuditPipeline ---------------------------
(***************************************************************************)
(* The in-memory delivery pipeline, src/core/pipeline.ts: a bounded ring   *)
(* buffer filled by concurrent enqueue() calls, one flush at a time that   *)
(* writes the oldest events to their stores with retries, coupled requests *)
(* that wait for their events, and a shutdown with a deadline.             *)
(*                                                                         *)
(* JavaScript runs one thing at a time, so an action is the code between   *)
(* two awaits.  The actions may interleave in any order at those awaits;   *)
(* the microtask queue of the runtime allows some of these orders only.    *)
(*                                                                         *)
(* The ring is unrolled: log is everything ever pushed, in push order, and *)
(* #head, #tail and #size are head % Capacity, Len(log) % Capacity and     *)
(* Len(log) - head.                                                        *)
(***************************************************************************)
EXTENDS Integers, Sequences, FiniteSets

CONSTANTS
    Calls,            \* calls of enqueue(); each brings one event, named by its call
    Requests,         \* calls of requestCoupledFlush(), each a set of event ids
    Stores,           \* the stores the manager can route to
    NoStore,          \* the route of an event whose store is not configured
    NoRequest,        \* an id that #coupled does not hold
    Route,            \* the routeStore dependency
    Capacity,         \* config.capacity
    MaxBatch,         \* config.maxBatchSize
    MaxAttempts,      \* maxAttempts of #writeWithRetry (5 in the code)
    Overflows,        \* the values config.overflow may have
    MaxLostAcks,      \* bound: writes that store the batch and yet reject
    MaxDlqFailures    \* bound: dead-letter handler calls that throw

ASSUME CapacityAssumption == Capacity \in Nat \ {0}
ASSUME MaxBatchAssumption == MaxBatch \in Nat \ {0}
ASSUME MaxAttemptsAssumption == MaxAttempts \in Nat \ {0}
ASSUME OverflowAssumption == Overflows \subseteq {"block", "dropNew", "dropOldest"}
ASSUME RouteAssumption == NoStore \notin Stores /\ Route \in [Calls -> Stores \cup {NoStore}]
ASSUME RequestsAssumption == Requests \subseteq SUBSET Calls /\ NoRequest \notin Requests
ASSUME BoundsAssumption == MaxLostAcks \in Nat /\ MaxDlqFailures \in Nat
ASSUME CallsAssumption == IsFiniteSet(Calls)

VARIABLES
    overflow,     \* config.overflow, which never changes
    log,          \* the events pushed so far, oldest first; Len(log) is #queued
    head,         \* how many of them left the buffer
    accepting,    \* #accepting
    timer,        \* #flushTimer: "unset", "running" or "cleared"
    call,         \* where each enqueue() call stands; "waiting" is in #capacityWaiters
    flush,        \* #activeFlush and the locals of its #flushBatch and #writeWithRetry
    coupled,      \* #coupled, from an event id to the request that waits for it
    wait,         \* the promise of each requestCoupledFlush()
    shut,         \* where shutdown() stands
    awaited,      \* the flush promise shutdown() is suspended on
    deadline,     \* the shutdown deadline has passed
    written, dropped, deadLettered,     \* the counters stats() returns
    copies,       \* outside: how often a store accepted the event
    dead,         \* outside: the events handed to the dead-letter handler
    announced,    \* outside: the events of the audit:dropped notifications
    lostAcks, dlqFailures               \* how much of the two bounds is used

outside == <<copies, dead, announced, lostAcks, dlqFailures>>
counters == <<written, dropped, deadLettered>>
shutdownVars == <<accepting, timer, shut, awaited, deadline>>
state == <<log, head, call, flush, coupled, wait, shutdownVars, counters, outside>>
vars == <<overflow, state>>

-----------------------------------------------------------------------------
(* The ring buffer. *)

size == Len(log) - head

\* #peekBuffer: how many events a peek returns from the buffer l[h+1], l[h+2]...
PeekCount(l, h) ==
    LET s == Len(l) - h
    IN  IF s <= 0 THEN 0 ELSE IF s < MaxBatch THEN s ELSE MaxBatch

\* Faults: the head moves backwards; over a full batch whatever was written.
RemoveBufferedBackwards(count) == head' = head - count
RemoveBufferedFullBatch(count) == head' = head + MaxBatch

\* #removeBuffered: the head moves on over count slots, whatever they hold.
RemoveBuffered(count) == head' = head + count

\* #wakeCapacityWaiters: every waiting call becomes runnable.
WakeCapacityWaiters ==
    call' = [c \in Calls |-> IF call[c] = "waiting" THEN "woken" ELSE call[c]]

-----------------------------------------------------------------------------
(* Starting a flush. *)

NoFlush == [phase |-> "none", from |-> 0, len |-> 0, store |-> NoStore,
            done |-> {}, attempts |-> 0, ok |-> FALSE]

FlushType ==
    [phase : {"none", "writing", "backoff", "settled", "removed", "rejected"},
     from : Nat, len : Nat, store : Stores \cup {NoStore}, done : SUBSET (Stores \cup {NoStore}),
     attempts : Nat, ok : BOOLEAN]

Batch(f) == (f.from + 1) .. (f.from + f.len)

\* The group of a batch that is written next: the groups are a Map, iterated in
\* the order in which the batch first names their stores.
Ungrouped(l, f) == {i \in Batch(f) : Route[l[i]] \notin f.done}

NextStore(l, f) ==
    Route[l[CHOOSE i \in Ungrouped(l, f) : \A j \in Ungrouped(l, f) : i <= j]]

BeginGroup(l, f) == [f EXCEPT !.phase = "writing", !.store = NextStore(l, f), !.attempts = 0]

\* #flushBatch up to its first await: it rejects at once when an event cannot be
\* routed, and has nothing to write when the peek came back empty.
FlushBatch(l, h) ==
    LET f == [NoFlush EXCEPT !.from = h, !.len = PeekCount(l, h)]
    IN  IF \E i \in Batch(f) : Route[l[i]] = NoStore THEN [f EXCEPT !.phase = "rejected"]
        ELSE IF f.len = 0 THEN [f EXCEPT !.phase = "removed"]
        ELSE BeginGroup(l, f)

\* #flush: a flush under way is joined, an empty buffer needs none.
Flush(l, h) ==
    IF flush.phase # "none" \/ Len(l) = h THEN flush ELSE FlushBatch(l, h)

-----------------------------------------------------------------------------
Init ==
    /\ overflow \in Overflows
    /\ log = <<>>
    /\ head = 0
    /\ accepting = TRUE
    /\ timer = "unset"
    /\ call = [c \in Calls |-> "idle"]
    /\ flush = NoFlush
    /\ coupled = [c \in Calls |-> NoRequest]
    /\ wait = [r \in Requests |-> "none"]
    /\ shut = "no"
    /\ awaited = "none"
    /\ deadline = FALSE
    /\ written = 0 /\ dropped = 0 /\ deadLettered = 0
    /\ copies = [c \in Calls |-> 0]
    /\ dead = {}
    /\ announced = {}
    /\ lostAcks = 0 /\ dlqFailures = 0

\* start()
Start ==
    /\ timer = "unset"
    /\ timer' = "running"
    /\ UNCHANGED <<log, head, call, flush, coupled, wait, accepting, shut, awaited, deadline,
                   counters, outside>>

\* Fault: the interval flushes full batches only.
TickFullBatch ==
    /\ timer = "running" /\ size >= MaxBatch
    /\ flush' = Flush(log, head)
    /\ UNCHANGED <<log, head, call, coupled, wait, shutdownVars, counters, outside>>

\* The interval callback.
Tick ==
    /\ timer = "running"
    /\ flush' = Flush(log, head)
    /\ UNCHANGED <<log, head, call, coupled, wait, shutdownVars, counters, outside>>

-----------------------------------------------------------------------------
(* enqueue() *)

Refuse(c) == call' = [call EXCEPT ![c] = "refused"]

\* The slots up to h are gone; the event of c takes the next one, or is refused
\* when the pipeline has shut down.
PushOrRefuse(c, h) ==
    /\ head' = h
    /\ \/ /\ accepting
          /\ log' = Append(log, c)
          /\ call' = [call EXCEPT ![c] = "accepted"]
          /\ flush' = IF Len(log') - h >= MaxBatch THEN Flush(log', h) ELSE flush
       \/ /\ ~accepting
          /\ Refuse(c)
          /\ UNCHANGED <<log, flush>>

\* overflow: dropNew
DropNew(c) ==
    /\ overflow = "dropNew"
    /\ dropped' = dropped + 1
    /\ announced' = announced \cup {c}
    /\ Refuse(c)
    /\ UNCHANGED <<log, head, flush>>

\* Fault: the eviction is announced and not counted.
DropOldestUncounted(c) ==
    /\ overflow = "dropOldest"
    /\ announced' = announced \cup {log[head + 1]}
    /\ PushOrRefuse(c, head + 1)
    /\ UNCHANGED dropped

\* overflow: dropOldest.  The slot is freed before #accepting is looked at.
DropOldest(c) ==
    /\ overflow = "dropOldest"
    /\ dropped' = dropped + 1
    /\ announced' = announced \cup {log[head + 1]}
    /\ PushOrRefuse(c, head + 1)

\* overflow: block
Block(c) ==
    /\ overflow = "block"
    /\ \/ /\ accepting
          /\ flush' = Flush(log, head)
          /\ call' = [call EXCEPT ![c] = "waiting"]
       \/ /\ ~accepting
          /\ Refuse(c)
          /\ UNCHANGED flush
    /\ UNCHANGED <<log, head, dropped, announced>>

\* The body of enqueue() from its call, or from the end of a wait, to the next
\* wait or return.
TryEnqueue(c) ==
    /\ \/ /\ size >= Capacity
          /\ DropNew(c) \/ DropOldest(c) \/ Block(c)
       \/ /\ size < Capacity
          /\ PushOrRefuse(c, head)
          /\ UNCHANGED <<dropped, announced>>
    /\ UNCHANGED <<coupled, wait, shutdownVars, written, deadLettered,
                   copies, dead, lostAcks, dlqFailures>>

\* Fault: a resumed call pushes without looking at the capacity again.
ResumeUnchecked(c) ==
    /\ call[c] = "woken"
    /\ PushOrRefuse(c, head)
    /\ UNCHANGED <<dropped, announced, coupled, wait, shutdownVars, written, deadLettered,
                   copies, dead, lostAcks, dlqFailures>>

Enqueue(c) == call[c] = "idle" /\ TryEnqueue(c)
Resume(c) == call[c] = "woken" /\ TryEnqueue(c)

-----------------------------------------------------------------------------
(* requestCoupledFlush().  Its caller has seen enqueue() return true for    *)
(* every id it names.                                                       *)

RequestCoupledFlush(r) ==
    /\ wait[r] = "none"
    /\ \A c \in r : call[c] = "accepted"
    /\ wait' = [wait EXCEPT ![r] = "pending"]
    /\ coupled' = [c \in Calls |-> IF c \in r THEN r ELSE coupled[c]]
    /\ flush' = Flush(log, head)
    /\ UNCHANGED <<log, head, call, shutdownVars, counters, outside>>

CoupledTimeout(r) ==
    /\ wait[r] = "pending"
    /\ wait' = [wait EXCEPT ![r] = "timedOut"]
    /\ coupled' = [c \in Calls |-> IF c \in r THEN NoRequest ELSE coupled[c]]
    /\ UNCHANGED <<log, head, call, flush, shutdownVars, counters, outside>>

\* Fault: a written group resolves every coupled request.
ResolveCoupledAll(ids) ==
    /\ wait' = [r \in Requests |-> IF wait[r] = "pending" THEN "resolved" ELSE wait[r]]
    /\ coupled' = [c \in Calls |-> NoRequest]

\* #resolveCoupled for the events of ids: the requests that wait for one of them
\* resolve, and take all of their ids out of the map.
ResolveCoupled(ids) ==
    LET resolved == {coupled[c] : c \in ids} \ {NoRequest}
    IN  /\ wait' = [r \in Requests |-> IF r \in resolved /\ wait[r] = "pending"
                                       THEN "resolved" ELSE wait[r]]
        /\ coupled' = [c \in Calls |-> IF c \in ids \/ \E r \in resolved : c \in r
                                       THEN NoRequest ELSE coupled[c]]

-----------------------------------------------------------------------------
(* #flushBatch, #writeWithRetry and #completeFlush. *)

Group == {log[i] : i \in {j \in Batch(flush) : Route[log[j]] = flush.store}}

StoreGroup == copies' = [c \in Calls |-> IF c \in Group THEN copies[c] + 1 ELSE copies[c]]

\* Fault: a notifier that fails is handled like a failed write.
WriteResolvesThenReplays ==
    /\ flush.phase = "writing"
    /\ StoreGroup
    /\ written' = written + Cardinality(Group)
    /\ \/ flush' = [flush EXCEPT !.phase = "settled", !.ok = TRUE]
       \/ flush' = [flush EXCEPT !.phase = "backoff"]
    /\ UNCHANGED <<log, head, call, coupled, wait, shutdownVars, dropped, deadLettered,
                   dead, announced, lostAcks, dlqFailures>>

\* store.write(batch) resolved.
WriteResolves ==
    /\ flush.phase = "writing"
    /\ StoreGroup
    /\ written' = written + Cardinality(Group)
    /\ flush' = [flush EXCEPT !.phase = "settled", !.ok = TRUE]
    /\ UNCHANGED <<log, head, call, coupled, wait, shutdownVars, dropped, deadLettered,
                   dead, announced, lostAcks, dlqFailures>>

\* What the store did before store.write(batch) rejected: nothing, or everything
\* and the answer was lost.
RejectedWrite ==
    \/ UNCHANGED <<copies, lostAcks>>
    \/ /\ lostAcks < MaxLostAcks
       /\ lostAcks' = lostAcks + 1
       /\ StoreGroup

\* Faults: the group is counted and not handed over; it is counted as one.
DeadLetterForgotten(events) ==
    /\ deadLettered' = deadLettered + Cardinality(events)
    /\ UNCHANGED <<dead, dlqFailures>>
DeadLetterCountedOnce(events) ==
    /\ dead' = dead \cup events
    /\ deadLettered' = deadLettered + 1
    /\ UNCHANGED dlqFailures

\* The dead-letter handler takes the events, or throws.
DeadLetter(events) ==
    /\ dead' = dead \cup events
    /\ deadLettered' = deadLettered + Cardinality(events)
    /\ UNCHANGED dlqFailures

DeadLetterThrows ==
    /\ dlqFailures < MaxDlqFailures
    /\ dlqFailures' = dlqFailures + 1
    /\ UNCHANGED <<dead, deadLettered>>

\* store.write(batch) rejected: back off, or dead-letter the group after the last
\* attempt; a handler that throws takes the whole flush down.
WriteRejects ==
    /\ flush.phase = "writing"
    /\ RejectedWrite
    /\ \/ /\ flush.attempts + 1 < MaxAttempts
          /\ flush' = [flush EXCEPT !.phase = "backoff", !.attempts = @ + 1]
          /\ UNCHANGED <<dead, deadLettered, dlqFailures>>
       \/ /\ flush.attempts + 1 >= MaxAttempts
          /\ \/ DeadLetter(Group) /\ flush' = [flush EXCEPT !.phase = "settled", !.ok = FALSE]
             \/ DeadLetterThrows /\ flush' = [flush EXCEPT !.phase = "rejected"]
    /\ UNCHANGED <<log, head, call, coupled, wait, shutdownVars, written, dropped, announced>>

\* The back-off sleep ends and the group is written again.
BackoffEnds ==
    /\ flush.phase = "backoff"
    /\ flush' = [flush EXCEPT !.phase = "writing"]
    /\ UNCHANGED <<log, head, call, coupled, wait, shutdownVars, counters, outside>>

\* The notifier has returned, or the group was dead-lettered: a written group
\* resolves its coupled requests, then the next group starts or, after the last,
\* the batch leaves the buffer.
GroupSettled ==
    /\ flush.phase = "settled"
    /\ IF flush.ok THEN ResolveCoupled(Group) ELSE UNCHANGED <<wait, coupled>>
    /\ LET f == [flush EXCEPT !.done = @ \cup {flush.store}]
       IN  \/ /\ Ungrouped(log, f) # {}
              /\ flush' = BeginGroup(log, f)
              /\ UNCHANGED <<head, call>>
           \/ /\ Ungrouped(log, f) = {}
              /\ flush' = [f EXCEPT !.phase = "removed"]
              /\ RemoveBuffered(flush.len)
              /\ WakeCapacityWaiters
    /\ UNCHANGED <<log, shutdownVars, counters, outside>>

\* #completeFlush.  It is the first reaction registered on the flush promise, so
\* it has run when a shutdown suspended on that promise goes on.
CompleteFlush ==
    /\ flush.phase \in {"removed", "rejected"}
    /\ flush' = IF size >= MaxBatch THEN FlushBatch(log, head) ELSE NoFlush
    /\ WakeCapacityWaiters
    /\ awaited' = IF awaited # "pending" THEN awaited
                  ELSE IF flush.phase = "removed" THEN "resolved" ELSE "rejected"
    /\ UNCHANGED <<log, head, coupled, wait, accepting, timer, shut, deadline, counters, outside>>

-----------------------------------------------------------------------------
(* shutdown() *)

\* The last part of shutdown(): what #drainBuffer returns goes to the dead letters.
\* The events have left the buffer when the handler throws.
DeadLetterRest ==
    LET rest == {log[i] : i \in (head + 1) .. (head + PeekCount(log, head))}
    IN  \/ /\ size <= 0
           /\ shut' = "done"
           /\ UNCHANGED <<head, dead, deadLettered, dlqFailures>>
        \/ /\ size > 0
           /\ RemoveBuffered(PeekCount(log, head))
           /\ \/ DeadLetter(rest) /\ shut' = "done"
              \/ DeadLetterThrows /\ shut' = "rejected"

\* The loop head of shutdown() and, when the loop is over, what follows it.
ShutdownLoop ==
    \/ /\ size > 0 /\ ~deadline
       /\ flush' = Flush(log, head)
       /\ shut' = "racing" /\ awaited' = "pending"
       /\ UNCHANGED <<head, dead, deadLettered, dlqFailures>>
    \/ /\ size <= 0 \/ deadline
       /\ flush.phase # "none"
       /\ shut' = "awaiting" /\ awaited' = "pending"
       /\ UNCHANGED <<flush, head, dead, deadLettered, dlqFailures>>
    \/ /\ size <= 0 \/ deadline
       /\ flush.phase = "none"
       /\ DeadLetterRest
       /\ UNCHANGED <<flush, awaited>>

Shutdown ==
    /\ shut = "no"
    /\ accepting' = FALSE
    /\ timer' = IF timer = "running" THEN "cleared" ELSE timer
    /\ WakeCapacityWaiters
    /\ ShutdownLoop
    /\ UNCHANGED <<log, coupled, wait, deadline, written, dropped, copies, announced, lostAcks>>

DeadlinePasses ==
    /\ shut # "no" /\ ~deadline
    /\ deadline' = TRUE
    /\ UNCHANGED <<log, head, call, flush, coupled, wait, accepting, timer, shut, awaited,
                   counters, outside>>

shutdownFrame == <<log, call, coupled, wait, accepting, timer, deadline, written, dropped,
                   copies, announced, lostAcks>>

\* Fault: shutdown() flushes once and does not loop.
RaceEndsForGood ==
    /\ shut = "racing"
    /\ awaited = "resolved" \/ deadline
    /\ DeadLetterRest
    /\ UNCHANGED <<flush, awaited, shutdownFrame>>

\* The race between the flush and the deadline is decided.
RaceEnds ==
    /\ shut = "racing"
    /\ awaited = "resolved" \/ deadline
    /\ ShutdownLoop
    /\ UNCHANGED shutdownFrame

\* The flush in progress has ended, and the rest is dead-lettered.
AwaitEnds ==
    /\ shut = "awaiting" /\ awaited = "resolved"
    /\ DeadLetterRest
    /\ UNCHANGED <<flush, awaited, shutdownFrame>>


\* The flush shutdown() is suspended on rejects, and shutdown() with it.
AwaitRejects ==
    /\ shut \in {"racing", "awaiting"} /\ awaited = "rejected"
    /\ shut' = "rejected"
    /\ UNCHANGED <<head, flush, awaited, dead, deadLettered, dlqFailures, shutdownFrame>>

-----------------------------------------------------------------------------
FlushStep == WriteResolves \/ WriteRejects \/ BackoffEnds \/ GroupSettled \/ CompleteFlush
ShutdownStep == DeadlinePasses \/ RaceEnds \/ AwaitEnds \/ AwaitRejects

Next ==
    /\ UNCHANGED overflow
    /\ \/ Start \/ Tick
       \/ \E c \in Calls : Enqueue(c) \/ Resume(c)
       \/ \E r \in Requests : RequestCoupledFlush(r) \/ CoupledTimeout(r)
       \/ FlushStep
       \/ Shutdown \/ ShutdownStep

Spec == Init /\ [][Next]_vars

\* What the runtime goes on doing: promises settle, timers fire, and a resumed
\* call runs.  Nobody is obliged to call enqueue(), requestCoupledFlush() or
\* shutdown(); the provider calls start().
Fairness ==
    /\ WF_state(Start) /\ WF_state(Tick)
    /\ \A c \in Calls : WF_state(Resume(c))
    /\ \A r \in Requests : WF_state(CoupledTimeout(r))
    /\ WF_state(FlushStep)
    /\ WF_state(DeadlinePasses) /\ WF_state(RaceEnds) /\ WF_state(AwaitEnds) /\ WF_state(AwaitRejects)

FairSpec == Spec /\ Fairness

-----------------------------------------------------------------------------
(* Properties. *)

MinOf(a, b) == IF a <= b THEN a ELSE b

\* shutdown() has not returned.
InService == shut \notin {"done", "rejected"}

InFlight == flush.phase \in {"writing", "backoff", "settled"}

\* The event of call c has an outcome that somebody can see.
Delivered(c) == copies[c] > 0 \/ c \in dead
Settled(c) == Delivered(c) \/ c \in announced

\* The variables have their types.
TypeOK ==
    /\ log \in Seq(Calls)
    /\ head \in Nat
    /\ accepting \in BOOLEAN
    /\ timer \in {"unset", "running", "cleared"}
    /\ call \in [Calls -> {"idle", "waiting", "woken", "accepted", "refused"}]
    /\ flush \in FlushType
    /\ coupled \in [Calls -> Requests \cup {NoRequest}]
    /\ wait \in [Requests -> {"none", "pending", "resolved", "timedOut"}]
    /\ shut \in {"no", "racing", "awaiting", "done", "rejected"}
    /\ awaited \in {"none", "pending", "resolved", "rejected"}
    /\ deadline \in BOOLEAN
    /\ written \in Nat /\ dropped \in Nat /\ deadLettered \in Nat
    /\ copies \in [Calls -> Nat]
    /\ dead \subseteq Calls
    /\ announced \subseteq Calls
    /\ lostAcks \in 0 .. MaxLostAcks
    /\ dlqFailures \in 0 .. MaxDlqFailures

\* The ring never holds more than Capacity events: no push overwrites a slot that
\* is still to be written, however many waiting calls one wake-up resumes
\* (pipeline.ts:97-113).
Bounded == size <= Capacity

\* While the pipeline serves, no event leaves the buffer unseen: it is in its
\* store, in the dead letters, or announced as dropped (pipeline.ts:251-263).
ConsumedIsSettled == InService => \A i \in 1 .. MinOf(head, Len(log)) : Settled(log[i])

\* The inductive core of the two properties around it.  While the pipeline serves, the
\* batch being written is the front of the buffer, so that removing its length removes
\* exactly its events; the groups that are done are delivered, and so is the group
\* that has just been written or dead-lettered (pipeline.ts:251-263).
BatchAtHead ==
    InService =>
        /\ head <= Len(log)
        /\ InFlight => /\ flush.from = head
                       /\ \A i \in Batch(flush) :
                             Route[log[i]] \in flush.done => Delivered(log[i])
        /\ flush.phase = "settled" => \A c \in Group : Delivered(c)

\* Only accepted events are in the buffer or in a store, each in one slot
\* (pipeline.ts:108-113).
OnlyAccepted ==
    /\ \A i \in 1 .. Len(log) : call[log[i]] = "accepted"
    /\ \A i, j \in 1 .. Len(log) : log[i] = log[j] => i = j
    /\ \A c \in Calls : copies[c] > 0 => call[c] = "accepted"

\* A call suspended for capacity has a flush under way that will wake it: there is
\* no lost wake-up (pipeline.ts:103-105, 265-272).
WaitersHaveFlush == (\E c \in Calls : call[c] = "waiting") => flush.phase # "none"

\* The ring and the calls that wait for it are sound: no push overwrites a slot, and no
\* wake-up is lost, however the calls and the flushes interleave (pipeline.ts:97-113, 265-272).
RingSound == Bounded /\ WaitersHaveFlush

\* A store receives its events in the order they were accepted: when it has one,
\* every earlier one has its outcome, whatever was retried or dead-lettered
\* in between (pipeline.ts:273-325).
OrderedDelivery ==
    InService => \A j \in 1 .. Len(log) : copies[log[j]] > 0 =>
        \A i \in 1 .. (j - 1) : Route[log[i]] = Route[log[j]] => Settled(log[i])

\* A coupled request that resolved has all of its events in their stores
\* (pipeline.ts:132-137, 371-383).
CoupledMeansStored ==
    \A r \in Requests : wait[r] = "resolved" => \A c \in r : copies[c] > 0

\* While the pipeline serves, a store accepts an event a second time only because
\* an answer was lost or the dead-letter handler threw (pipeline.ts:290-325).
CopiesBounded == InService => \A c \in Calls : copies[c] <= 1 + lostAcks + dlqFailures

\* The events that left the buffer and are neither in a store nor in the dead
\* letters are no more than the dropped counter admits, evictions during a flush
\* included (pipeline.ts:224-232, 336-343).
MissingBoundedByDropped ==
    InService => Cardinality({i \in 1 .. MinOf(head, Len(log)) : ~Delivered(log[i])}) <= dropped

\* While the pipeline serves, queued = size + written + deadLettered once the groups
\* of the current batch that are already counted are put back: stats() loses and
\* doubles nothing (pipeline.ts:290-325).
CountedInBatch ==
    IF ~InFlight THEN {}
    ELSE {i \in Batch(flush) : \/ Route[log[i]] \in flush.done
                               \/ flush.phase = "settled" /\ Route[log[i]] = flush.store}

StatsReconcile ==
    InService /\ dlqFailures = 0 =>
        head + Cardinality(CountedInBatch) = written + deadLettered

\* shutdown() that returns before its deadline leaves nothing behind: no event in
\* the buffer, no flush under way, every event settled (pipeline.ts:159-185).
GracefulDrain ==
    shut = "done" /\ ~deadline /\ dlqFailures = 0 =>
        /\ head = Len(log) /\ flush.phase = "none"
        /\ \A i \in 1 .. Len(log) : Settled(log[i])

\* "Never dead-letter work while a store write may still complete"
\* (pipeline.ts:174): no event of the group being written is in the dead letters.
NoDeadLetterInFlight ==
    dlqFailures = 0 /\ flush.phase = "writing" => Group \cap dead = {}

\* An event that names a store that is not configured stops every flush before it writes
\* anything, and is still there for the next one (pipeline.ts:273-281).
Poisoned == \E i \in head + 1 .. Len(log) : Route[log[i]] = NoStore


\* Where nothing is evicted, an accepted event gets an outcome, unless the pipeline shuts
\* down first or an event without a store blocks it (pipeline.ts:87-89, 251-281).
EventSettles ==
    \A c \in Calls :
        overflow # "dropOldest" /\ call[c] = "accepted" ~> (Settled(c) \/ shut # "no" \/ Poisoned)

=============================================================================
