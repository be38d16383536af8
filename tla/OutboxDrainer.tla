--------------------------- MODULE OutboxDrainer ---------------------------
(***************************************************************************)
(* The transactional outbox, src/core/outbox_drainer.ts: rows committed    *)
(* with the business data, and drain() runs of several processes that      *)
(* claim a row, write its event to the target, announce it and acknowledge *)
(* the row.  Every process runs one drain at a time; a drain is one        *)
(* statement after the other on two databases, so an action is one         *)
(* statement with the code up to the next one.                             *)
(*                                                                         *)
(* Time is abstracted to the comparisons the statements make: ripe[r] says *)
(* that the clock has passed available_at of a pending row, or the stale   *)
(* horizon of the claim of a processing row.                               *)
(***************************************************************************)
EXTENDS Integers, FiniteSets

CONSTANTS
    Rows,           \* outbox rows, each with an event of the same name
    Malformed,      \* the rows whose payload normalizePayload rejects
    Drainers,       \* the processes that run drain()
    Limit,          \* the limit of drain()
    MaxAttempts,    \* options.maxAttempts
    Delayed,        \* options.retryDelayMs > 0
    Bounds          \* what one behaviour is bounded by: the rows that are committed, the
                    \* source statements that reject, with or without their effect, the
                    \* crashes of a process, and the rows an operator requeues

ASSUME RowsAssumption == IsFiniteSet(Rows) /\ Malformed \subseteq Rows
ASSUME AttemptsAssumption == MaxAttempts \in Nat \ {0}
ASSUME LimitAssumption == Limit \in Nat \ {0}
ASSUME DelayedAssumption == Delayed \in BOOLEAN
ASSUME BoundsAssumption ==
    Bounds \subseteq [rows : Nat, faults : Nat, crashes : Nat, requeues : Nat]

VARIABLES
    status,      \* the status column; "absent" before the transaction commits
    attempts,    \* the attempts column
    ripe,        \* the row passes the time comparison of its status
    todo,        \* per process: the selected rows still to come, with their attempts
    worker,      \* per process: where drain() stands
    notified,    \* per process: #deliveredEventIds of its notifier
    stored,      \* the target: the events it has
    announced,   \* outside: how often audit:flushed named the event
    poisoned,    \* outside: the rows onPoison reported
    claims,      \* history: how often the row was claimed
    overrun,     \* history: the rows whose claim went stale under a live drain
    bound,       \* the bounds of this behaviour, which never change
    faults, crashes, requeues    \* how much of them is used

columns == <<status, attempts, ripe>>
bounds == <<bound, faults, crashes, requeues>>
vars == <<columns, todo, worker, notified, stored, announced, poisoned, claims, overrun, bounds>>

-----------------------------------------------------------------------------
Stopped == [phase |-> "stopped"]
Idle == [phase |-> "idle"]
Looping == [phase |-> "looping"]

\* drain() has claimed row r, as its n-th attempt.
At(phase, r, n) == [phase |-> phase, row |-> r, attempt |-> n]

Delivering == {"checking", "inserting", "written", "notified", "failing", "failingForGood"}

\* The row drain() of process d has claimed and not finished with.
Holds(d, r) == worker[d].phase \in Delivering /\ worker[d].row = r

Step(d, phase) == worker' = [worker EXCEPT ![d].phase = phase]

Init ==
    /\ status = [r \in Rows |-> "absent"]
    /\ attempts = [r \in Rows |-> 0]
    /\ ripe = [r \in Rows |-> FALSE]
    /\ todo = [d \in Drainers |-> {}]
    /\ worker = [d \in Drainers |-> Stopped]
    /\ notified = [d \in Drainers |-> {}]
    /\ stored = {} /\ poisoned = {} /\ overrun = {}
    /\ announced = [r \in Rows |-> 0]
    /\ claims = [r \in Rows |-> 0]
    /\ bound \in Bounds
    /\ faults = 0 /\ crashes = 0 /\ requeues = 0

\* A statement on the source rejects.
Fault ==
    /\ faults < bound.faults
    /\ faults' = faults + 1
    /\ UNCHANGED <<bound, crashes, requeues>>

-----------------------------------------------------------------------------
(* Around the drainers. *)

\* The caller's transaction commits, with the insert of #submit in it.
Commit(r) ==
    /\ status[r] = "absent" /\ Cardinality({q \in Rows : status[q] # "absent"}) < bound.rows
    /\ status' = [status EXCEPT ![r] = "pending"]
    /\ ripe' = [ripe EXCEPT ![r] = TRUE]
    /\ UNCHANGED <<attempts, todo, worker, notified, stored, announced, poisoned, claims,
                   overrun, bounds>>

\* The clock passes available_at, or the stale horizon.
Ripen(r) ==
    /\ status[r] \in {"pending", "processing"} /\ ~ripe[r]
    /\ ripe' = [ripe EXCEPT ![r] = TRUE]
    /\ overrun' = IF \E d \in Drainers : Holds(d, r) THEN overrun \cup {r} ELSE overrun
    /\ UNCHANGED <<status, attempts, todo, worker, notified, stored, announced, poisoned,
                   claims, bounds>>

\* The update of requeue().
Requeue(r) ==
    /\ status[r] = "failed" /\ requeues < bound.requeues
    /\ status' = [status EXCEPT ![r] = "pending"]
    /\ attempts' = [attempts EXCEPT ![r] = 0]
    /\ ripe' = [ripe EXCEPT ![r] = TRUE]
    /\ requeues' = requeues + 1
    /\ UNCHANGED <<todo, worker, notified, stored, announced, poisoned, claims, overrun,
                   bound, faults, crashes>>

\* A process dies; what it kept in memory is gone.
Crash(d) ==
    /\ crashes < bound.crashes
    /\ crashes' = crashes + 1
    /\ worker' = [worker EXCEPT ![d] = Stopped]
    /\ todo' = [todo EXCEPT ![d] = {}]
    /\ notified' = [notified EXCEPT ![d] = {}]
    /\ UNCHANGED <<columns, stored, announced, poisoned, claims, overrun,
                   bound, faults, requeues>>

-----------------------------------------------------------------------------
(* drain() *)

\* Fault: only pending rows are selected.
DuePending == {r \in Rows : status[r] = "pending" /\ ripe[r]}

\* The where clause of the select.
Due == {r \in Rows : status[r] \in {"pending", "processing"} /\ ripe[r]}

\* The select: at most Limit rows, which of them the order of available_at decides.
SelectRows(d) ==
    /\ \E S \in SUBSET Due :
          /\ S # {} /\ Cardinality(S) <= Limit
          /\ S = Due \/ Cardinality(S) = Limit
          /\ todo' = [todo EXCEPT ![d] = {[row |-> r, attempts |-> attempts[r]] : r \in S}]
    /\ worker' = [worker EXCEPT ![d] = Looping]

\* The provider starts: it drains once before it starts the interval.
Start(d) ==
    /\ worker[d].phase = "stopped"
    /\ \/ SelectRows(d)
       \/ Due = {} /\ worker' = [worker EXCEPT ![d] = Idle] /\ UNCHANGED todo
    /\ UNCHANGED <<columns, notified, stored, announced, poisoned, claims, overrun, bounds>>

\* The interval drains, unless a drain is under way.
Scheduled(d) ==
    /\ worker[d].phase = "idle" /\ SelectRows(d)
    /\ UNCHANGED <<columns, notified, stored, announced, poisoned, claims, overrun, bounds>>

\* stop() has awaited the drain under way, if any.
Stop(d) ==
    /\ worker[d].phase = "idle"
    /\ worker' = [worker EXCEPT ![d] = Stopped]
    /\ UNCHANGED <<columns, todo, notified, stored, announced, poisoned, claims, overrun, bounds>>

\* The conditional update of #claim, with the attempts of the select.
ClaimRow(r, n) ==
    /\ status' = [status EXCEPT ![r] = "processing"]
    /\ attempts' = [attempts EXCEPT ![r] = n]
    /\ ripe' = [ripe EXCEPT ![r] = FALSE]
    /\ claims' = [claims EXCEPT ![r] = @ + 1]

\* Fault: the update looks at the id only.
ClaimUnchecked(d) ==
    /\ worker[d].phase = "looping"
    /\ \E t \in todo[d] :
          /\ todo' = [todo EXCEPT ![d] = @ \ {t}]
          /\ ClaimRow(t.row, t.attempts + 1)
          /\ worker' = [worker EXCEPT ![d] = At(IF t.row \in Malformed THEN "failingForGood"
                                                ELSE "checking", t.row, t.attempts + 1)]
    /\ UNCHANGED <<notified, stored, announced, poisoned, overrun, bounds>>

\* #claim, and normalizePayload of a row that was still due; a row that is not due
\* any more is skipped.
Claim(d) ==
    /\ worker[d].phase = "looping"
    /\ \E t \in todo[d] :
          /\ todo' = [todo EXCEPT ![d] = @ \ {t}]
          /\ \/ /\ t.row \in Due
                /\ ClaimRow(t.row, t.attempts + 1)
                /\ worker' = [worker EXCEPT ![d] =
                       At(IF t.row \in Malformed THEN "failingForGood" ELSE "checking",
                          t.row, t.attempts + 1)]
             \/ /\ t.row \notin Due
                /\ UNCHANGED <<columns, claims, worker>>
    /\ UNCHANGED <<notified, stored, announced, poisoned, overrun, bounds>>

\* #claim rejects, and drain() with it.
ClaimRejects(d) ==
    /\ worker[d].phase = "looping" /\ Fault
    /\ \E t \in todo[d] :
          \/ UNCHANGED <<columns, claims>>
          \/ t.row \in Due /\ ClaimRow(t.row, t.attempts + 1)
    /\ worker' = [worker EXCEPT ![d] = Idle]
    /\ todo' = [todo EXCEPT ![d] = {}]
    /\ UNCHANGED <<notified, stored, announced, poisoned, overrun>>

\* The loop is over.
Return(d) ==
    /\ worker[d].phase = "looping" /\ todo[d] = {}
    /\ worker' = [worker EXCEPT ![d] = Idle]
    /\ UNCHANGED <<columns, todo, notified, stored, announced, poisoned, claims, overrun, bounds>>

-----------------------------------------------------------------------------
(* Delivery of one row: store.write() of the Lucid store, the notifier, and *)
(* the acknowledgement.                                                      *)

deliveryFrame == <<todo, claims, overrun>>

\* store.write() looks for the event; it returns the row it finds.
Check(d) ==
    /\ worker[d].phase = "checking"
    /\ Step(d, IF worker[d].row \in stored THEN "written" ELSE "inserting")
    /\ UNCHANGED <<columns, notified, stored, announced, poisoned, deliveryFrame, bounds>>

\* store.write() inserts the event; the primary key refuses a second one.
Insert(d) ==
    /\ worker[d].phase = "inserting"
    /\ Step(d, IF worker[d].row \in stored THEN "failing" ELSE "written")
    /\ stored' = stored \cup {worker[d].row}
    /\ UNCHANGED <<columns, notified, announced, poisoned, deliveryFrame, bounds>>

\* store.write() rejects, with or without the event in the target.
WriteRejects(d) ==
    /\ worker[d].phase \in {"checking", "inserting"}
    /\ \/ UNCHANGED stored
       \/ worker[d].phase = "inserting" /\ stored' = stored \cup {worker[d].row}
    /\ Step(d, "failing")
    /\ UNCHANGED <<columns, notified, announced, poisoned, deliveryFrame, bounds>>

\* notify() announces what this process has not announced yet; it never rejects.
Notify(d) ==
    /\ worker[d].phase = "written"
    /\ Step(d, "notified")
    /\ notified' = [notified EXCEPT ![d] = @ \cup {worker[d].row}]
    /\ announced' = IF worker[d].row \in notified[d] THEN announced
                    ELSE [announced EXCEPT ![worker[d].row] = @ + 1]
    /\ UNCHANGED <<columns, stored, poisoned, deliveryFrame, bounds>>

\* Fault: a status nothing else knows.
AckRowDone(r) ==
    status' = IF status[r] = "processing" THEN [status EXCEPT ![r] = "done"] ELSE status

\* The conditional update of #ack.
AckRow(r) ==
    status' = IF status[r] = "processing" THEN [status EXCEPT ![r] = "processed"] ELSE status

\* #ack; drain() goes on whether or not the row was still its own.
Ack(d) ==
    /\ worker[d].phase = "notified"
    /\ AckRow(worker[d].row)
    /\ worker' = [worker EXCEPT ![d] = Looping]
    /\ UNCHANGED <<attempts, ripe, notified, stored, announced, poisoned, deliveryFrame, bounds>>

\* #ack rejects, with or without its effect: drain() treats it like a failed write.
AckRejects(d) ==
    /\ worker[d].phase = "notified" /\ Fault
    /\ AckRow(worker[d].row) \/ UNCHANGED status
    /\ Step(d, "failing")
    /\ UNCHANGED <<attempts, ripe, notified, stored, announced, poisoned, deliveryFrame>>

\* Fault: every failure is final.
GivesUpAtOnce(d) == worker[d].phase \in {"failing", "failingForGood"}

\* #fail gives the row up: the payload is malformed, or this was the last attempt.
GivesUp(d) == worker[d].phase = "failingForGood" \/ worker[d].attempt >= MaxAttempts

\* Fault: the update looks at the id only.
FailRowUnchecked(d) ==
    /\ status' = [status EXCEPT ![worker[d].row] = IF GivesUp(d) THEN "failed" ELSE "pending"]
    /\ ripe' = [ripe EXCEPT ![worker[d].row] = ~Delayed]

\* The conditional update of #fail.
FailRow(d) ==
    LET r == worker[d].row
    IN  \/ /\ status[r] = "processing" /\ GivesUp(d)
           /\ status' = [status EXCEPT ![r] = "failed"]
           /\ UNCHANGED ripe
        \/ /\ status[r] = "processing" /\ ~GivesUp(d)
           /\ status' = [status EXCEPT ![r] = "pending"]
           /\ ripe' = [ripe EXCEPT ![r] = ~Delayed]
        \/ /\ status[r] # "processing"
           /\ UNCHANGED <<status, ripe>>

\* #fail, and the poison handler whatever the update has matched.
Fail(d) ==
    /\ worker[d].phase \in {"failing", "failingForGood"}
    /\ FailRow(d)
    /\ poisoned' = IF GivesUp(d) THEN poisoned \cup {worker[d].row} ELSE poisoned
    /\ worker' = [worker EXCEPT ![d] = Looping]
    /\ UNCHANGED <<attempts, notified, stored, announced, deliveryFrame, bounds>>

\* #fail rejects, with or without its effect, and drain() with it.
FailRejects(d) ==
    /\ worker[d].phase \in {"failing", "failingForGood"} /\ Fault
    /\ FailRow(d) \/ UNCHANGED <<status, ripe>>
    /\ worker' = [worker EXCEPT ![d] = Idle]
    /\ todo' = [todo EXCEPT ![d] = {}]
    /\ UNCHANGED <<attempts, notified, stored, announced, poisoned, claims, overrun>>

-----------------------------------------------------------------------------
Drain(d) ==
    \/ Start(d) \/ Scheduled(d) \/ Claim(d) \/ Return(d)
    \/ Check(d) \/ Insert(d) \/ Notify(d) \/ Ack(d) \/ Fail(d)

Trouble(d) == ClaimRejects(d) \/ WriteRejects(d) \/ AckRejects(d) \/ FailRejects(d) \/ Crash(d)

Next ==
    \/ \E r \in Rows : Commit(r) \/ Ripen(r) \/ Requeue(r)
    \/ \E d \in Drainers : Drain(d) \/ Stop(d) \/ Trouble(d)

Spec == Init /\ [][Next]_vars

\* Time passes, a process that stopped is started again, and the interval drains again
\* and again; nobody is obliged to commit, to requeue, to stop or to be in trouble.
FairSpec ==
    /\ Spec
    /\ \A r \in Rows : WF_vars(Ripen(r))
    /\ \A d \in Drainers : WF_vars(Drain(d))

-----------------------------------------------------------------------------
(* Properties. *)

WorkerType ==
    {Stopped, Idle, Looping} \cup [phase : Delivering, row : Rows, attempt : Nat \ {0}]

\* The variables have their types.
TypeOK ==
    /\ status \in [Rows -> {"absent", "pending", "processing", "processed", "failed"}]
    /\ attempts \in [Rows -> Nat]
    /\ ripe \in [Rows -> BOOLEAN]
    /\ todo \in [Drainers -> SUBSET [row : Rows, attempts : Nat]]
    /\ worker \in [Drainers -> WorkerType]
    /\ notified \in [Drainers -> SUBSET Rows]
    /\ stored \subseteq Rows /\ poisoned \subseteq Rows /\ overrun \subseteq Rows
    /\ announced \in [Rows -> Nat]
    /\ claims \in [Rows -> Nat]
    /\ bound \in Bounds
    /\ faults \in 0 .. bound.faults
    /\ crashes \in 0 .. bound.crashes
    /\ requeues \in 0 .. bound.requeues

\* A row whose claims never go stale under a live drain is delivered by one drain at a
\* time, whatever list the other one selected before (outbox_drainer.ts:182-201, 287-314).
ClaimExclusive ==
    \A r \in Rows \ overrun : \A d, e \in Drainers : Holds(d, r) /\ Holds(e, r) => d = e

\* The row has failed, or the poison handler was told that it has.
GivenUp(r) == status[r] = "failed" \/ r \in poisoned

\* A well-formed row is given up only after MaxAttempts claims, also when the attempts
\* column was written from a list selected long before, and also when the drain that
\* gives it up has lost the row to another one (outbox_drainer.ts:200, 333-365).
NeverGivenUpEarly ==
    \A r \in Rows \ Malformed : GivenUp(r) => claims[r] >= MaxAttempts

\* The outbox is an implementation of IntentDelivery: a committed row is owed until it
\* is acknowledged or given up, and it is acknowledged only when the target has its
\* event (outbox_drainer.ts:203-218, 316-331).
Owed(s) ==
    CASE s = "absent" -> "none"
      [] s \in {"pending", "processing"} -> "owed"
      [] s = "processed" -> "done"
      [] s = "failed" -> "failed"

Promise == INSTANCE IntentDelivery
    WITH intent <- [r \in Rows |-> Owed(status[r])], target <- stored

PromiseSpec == Promise!Spec

\* Every committed row is delivered or given up, through crashes, faults and lost
\* claims, and so is a row that was requeued (outbox_drainer.ts:147-174, 190-192).
RowEnds ==
    \A r \in Rows : status[r] \in {"pending", "processing"} ~> status[r] \in {"processed", "failed"}

=============================================================================
