---------------------------- MODULE AuditService ----------------------------
(***************************************************************************)
(* How a change of the application becomes an audit event: the hooks of    *)
(* the Auditable mixin (src/mixins/auditable.ts), the log builder and the  *)
(* service they submit to (src/services), the encryption of the event with *)
(* the key of its subject (src/core/subject_crypto.ts) and audit:forget.   *)
(*                                                                         *)
(* A request makes one change, inside a transaction of its own or without  *)
(* one, and reports it either through the model hooks or through           *)
(* audit.log().  An action is the code between two awaits.  The pipeline   *)
(* and the drainer appear by what they tell the service; AuditPipeline and *)
(* OutboxDrainer are their models.                                         *)
(***************************************************************************)
EXTENDS Naturals

CONSTANTS
    Requests,      \* the requests; each names its event and the key it may generate
    Subjects,      \* the data subjects
    NoSubject,     \* the subject of an event whose actor has no id
    NoKey,         \* no key
    Kinds,         \* what a request may do
    Enabled,       \* auditConfig.events
    Guarantees,    \* the values config.guarantee may have
    Dialects,      \* the databases of LucidSubjectKeyStore
    MaxFaults,     \* bound: inserts of intents that fail, writes that fail for good
    MaxForgets,    \* bound: runs of audit:forget
    MaxCrashes     \* bound: deaths of the process

Ops == {"create", "update", "touch", "restore", "delete"}
AllKinds ==
    [path : {"model", "log", "logSync"}, trx : BOOLEAN, op : Ops, strict : BOOLEAN,
     subject : Subjects \cup {NoSubject}]

ASSUME KindsAssumption == Kinds \subseteq AllKinds
ASSUME NamesAssumption == NoSubject \notin Subjects /\ NoKey \notin Requests
ASSUME BoundsAssumption == {MaxFaults, MaxForgets, MaxCrashes} \subseteq Nat
ASSUME ConfigAssumption ==
    /\ Enabled \subseteq {"created", "updated", "deleted", "restored"}
    /\ Guarantees \subseteq {"best-effort", "request-coupled", "transactional-outbox"}
    /\ Dialects \subseteq {"postgres", "mysql"}

VARIABLES
    guarantee, dialect, kind,     \* the configuration and the requests, which never change
    pc,           \* where each request stands
    encrypted,    \* the key its event was encrypted with
    own,          \* the key its open transaction has inserted
    intents,      \* the requests whose open transaction has inserted an outbox row
    hooked,       \* the requests that have an after-commit hook
    committed,    \* the requests whose change is committed
    outbox,       \* the committed outbox rows
    keys,         \* the committed rows of audit_subject_keys
    accepting,    \* the pipeline has not shut down
    buffer,       \* the events the pipeline holds
    stored, dead, \* the events the stores have, and the dead letters
    dropped,      \* the events of the audit:dropped notifications
    reported,     \* the events of the audit:error notifications
    erasable,     \* ghost: the durable events of a subject when it was forgotten
    forgotten,    \* ghost: the subjects that were ever forgotten
    faults, forgets, crashes

config == <<guarantee, dialect, kind>>
tables == <<committed, outbox, keys>>
transactions == <<own, intents, hooked>>
delivery == <<accepting, buffer, stored, dead, dropped>>
erasure == <<erasable, forgotten, forgets>>
state == <<pc, encrypted, transactions, tables, delivery, reported, erasure, faults, crashes>>
vars == <<config, state>>

SubjectOf(r) == kind[r].subject
Outbox == guarantee = "transactional-outbox"
Goto(r, place) == pc' = [pc EXCEPT ![r] = place]

Init ==
    /\ guarantee \in Guarantees /\ dialect \in Dialects /\ kind \in [Requests -> Kinds]
    /\ pc = [r \in Requests |-> "idle"]
    /\ encrypted = [r \in Requests |-> NoKey]
    /\ own = [r \in Requests |-> NoKey]
    /\ intents = {} /\ hooked = {}
    /\ committed = {} /\ outbox = {}
    /\ keys = [s \in Subjects |-> NoKey]
    /\ accepting = TRUE
    /\ buffer = {} /\ stored = {} /\ dead = {} /\ dropped = {} /\ reported = {}
    /\ erasable = {} /\ forgotten = {}
    /\ faults = 0 /\ forgets = 0 /\ crashes = 0

-----------------------------------------------------------------------------
(* The change. *)

\* Fault: the before hooks let every change pass.
BeginUnchecked(r) ==
    /\ pc[r] = "idle"
    /\ Goto(r, "change")
    /\ UNCHANGED <<encrypted, transactions, tables, delivery, reported, erasure, faults, crashes>>

\* The request starts; the before hooks of a model refuse a change that the outbox could
\* not record.
Begin(r) ==
    /\ pc[r] = "idle"
    /\ Goto(r, IF kind[r].path = "model" /\ Outbox /\ ~kind[r].trx THEN "rejected" ELSE "change")
    /\ UNCHANGED <<encrypted, transactions, tables, delivery, reported, erasure, faults, crashes>>

Event(name) == IF name \in Enabled THEN name ELSE "none"

\* captureModelEvent and captureUpdateEvent: the event of a change.  "touch" is an update
\* of excluded attributes only; a restoration falls back to an update.
Captured(op) ==
    CASE op = "create" -> Event("created")
      [] op = "update" -> Event("updated")
      [] op = "touch" -> "none"
      [] op = "restore" -> IF "restored" \in Enabled THEN "restored" ELSE Event("updated")
      [] op = "delete" -> Event("deleted")

HasEvent(r) == kind[r].path # "model" \/ Captured(kind[r].op) # "none"

\* The change, in the transaction or committed at once, and the start of its event.
Change(r) ==
    /\ pc[r] = "change"
    /\ committed' = IF kind[r].trx THEN committed ELSE committed \cup {r}
    /\ Goto(r, IF ~HasEvent(r) THEN "leaving"
               ELSE IF SubjectOf(r) = NoSubject THEN "submit" ELSE "getKey")
    /\ UNCHANGED <<encrypted, transactions, outbox, keys, delivery, reported, erasure,
                   faults, crashes>>

-----------------------------------------------------------------------------
(* SubjectCrypto.encrypt with a LucidSubjectKeyStore. *)

\* The rows a statement of the request sees: its own, then the committed ones.
Visible(r) == IF own[r] # NoKey THEN own[r] ELSE keys[SubjectOf(r)]

\* get()
GetKey(r) ==
    /\ pc[r] = "getKey"
    /\ encrypted' = [encrypted EXCEPT ![r] = Visible(r)]
    /\ Goto(r, IF Visible(r) = NoKey THEN "setKey" ELSE "submit")
    /\ UNCHANGED <<transactions, tables, delivery, reported, erasure, faults, crashes>>

\* The unique index makes an insert wait for the transaction that has inserted the row.
RowIsLocked(s) == \E q \in Requests : own[q] # NoKey /\ SubjectOf(q) = s

Inserted(r) ==
    IF kind[r].trx THEN own' = [own EXCEPT ![r] = r] /\ UNCHANGED keys
    ELSE keys' = [keys EXCEPT ![SubjectOf(r)] = r] /\ UNCHANGED own

\* Fault: the columns are swapped.
SetKeySwapped(r) ==
    /\ pc[r] = "setKey" /\ ~RowIsLocked(SubjectOf(r))
    /\ keys' = [keys EXCEPT ![SubjectOf(r)] = SubjectOf(r)]
    /\ Goto(r, "readBack")
    /\ UNCHANGED <<encrypted, transactions, committed, outbox, delivery, reported, erasure,
                   faults, crashes>>

\* set(): an insert that ignores a conflict.
SetKey(r) ==
    /\ pc[r] = "setKey" /\ ~RowIsLocked(SubjectOf(r))
    /\ IF keys[SubjectOf(r)] = NoKey THEN Inserted(r) ELSE UNCHANGED <<own, keys>>
    /\ Goto(r, "readBack")
    /\ UNCHANGED <<encrypted, intents, hooked, committed, outbox, delivery, reported, erasure,
                   faults, crashes>>

\* A transaction of MySQL still reads the snapshot of its first get().
ReadsAgain(r) == IF dialect = "mysql" /\ kind[r].trx THEN own[r] ELSE Visible(r)

\* Fault: the generated key is used without reading back which key was stored.
UseGenerated(r) ==
    /\ pc[r] = "readBack"
    /\ encrypted' = [encrypted EXCEPT ![r] = r]
    /\ Goto(r, "submit")
    /\ UNCHANGED <<transactions, tables, delivery, reported, erasure, faults, crashes>>

\* The second get(); without a key the assembly of the event throws.
ReadBack(r) ==
    /\ pc[r] = "readBack"
    /\ encrypted' = [encrypted EXCEPT ![r] = ReadsAgain(r)]
    /\ Goto(r, IF ReadsAgain(r) = NoKey THEN "throws" ELSE "submit")
    /\ UNCHANGED <<transactions, tables, delivery, reported, erasure, faults, crashes>>

Encrypt(r) == GetKey(r) \/ SetKey(r) \/ ReadBack(r)

-----------------------------------------------------------------------------
(* AuditService.#submit and emitWithGuarantee. *)

\* emitWithGuarantee passes an error on.  The errors it sees come from the outbox or
\* from a change without a transaction, so that strict decides nothing.
Rethrows(r) == kind[r].path # "model" \/ Outbox \/ ~kind[r].trx \/ kind[r].strict

\* An error of #submit is reported; what an after-commit hook throws goes no further.
Fails(r) ==
    /\ reported' = reported \cup {r}
    /\ Goto(r, IF r \in hooked THEN "done" ELSE IF Rethrows(r) THEN "throws" ELSE "leaving")

\* The submission resolves; a request that still has its change to commit goes on.
Returns(r) == Goto(r, IF r \in hooked THEN "done" ELSE "leaving")

\* Fault: an event without transaction is let go of.
InsertIntentIfAny(r) ==
    /\ pc[r] = "submit" /\ Outbox
    /\ intents' = IF kind[r].trx THEN intents \cup {r} ELSE intents
    /\ Returns(r)
    /\ UNCHANGED <<reported, faults>>
    /\ UNCHANGED <<encrypted, own, hooked, tables, delivery, erasure, crashes>>

\* transactional-outbox: the intent is inserted by the transaction of the caller.
InsertIntent(r) ==
    /\ pc[r] = "submit" /\ Outbox
    /\ \/ /\ kind[r].trx
          /\ intents' = intents \cup {r}
          /\ Returns(r)
          /\ UNCHANGED <<reported, faults>>
       \/ /\ kind[r].trx /\ faults < MaxFaults
          /\ faults' = faults + 1
          /\ Fails(r)
          /\ UNCHANGED intents
       \/ /\ ~kind[r].trx
          /\ Fails(r)
          /\ UNCHANGED <<intents, faults>>
    /\ UNCHANGED <<encrypted, own, hooked, tables, delivery, erasure, crashes>>

\* Fault: the event does not wait for the commit.
NeverAfterCommit(r) == FALSE

\* emitWithGuarantee: the event of a model waits for the commit of its transaction.
AfterCommit(r) == kind[r].path = "model" /\ kind[r].trx /\ ~Outbox

RegisterHook(r) ==
    /\ pc[r] = "submit" /\ AfterCommit(r)
    /\ hooked' = hooked \cup {r}
    /\ Goto(r, "leaving")
    /\ UNCHANGED <<encrypted, own, intents, tables, delivery, reported, erasure, faults, crashes>>

Submits(r) == (pc[r] = "submit" /\ ~Outbox /\ ~AfterCommit(r)) \/ pc[r] = "afterCommit"

Coupled(r) == kind[r].path = "logSync" \/ guarantee = "request-coupled"

\* Fault: the flush is awaited in one mode only, whatever the call asked for.
AcceptedByMode(r) ==
    /\ accepting
    /\ buffer' = buffer \cup {r}
    /\ IF guarantee = "request-coupled" THEN Goto(r, "coupled") ELSE Returns(r)
    /\ UNCHANGED <<dropped, reported>>

\* enqueue() returns true.
Accepted(r) ==
    /\ accepting
    /\ buffer' = buffer \cup {r}
    /\ IF Coupled(r) THEN Goto(r, "coupled") ELSE Returns(r)
    /\ UNCHANGED <<dropped, reported>>

\* enqueue() returns false: with audit:dropped when the buffer is full, without when
\* the pipeline has shut down.
Refused(r) ==
    /\ dropped' = IF accepting THEN dropped \cup {r} ELSE dropped
    /\ UNCHANGED buffer
    /\ IF guarantee = "best-effort" THEN Returns(r) /\ UNCHANGED reported ELSE Fails(r)

Enqueue(r) ==
    /\ Submits(r)
    /\ Accepted(r) \/ Refused(r)
    /\ UNCHANGED <<encrypted, transactions, tables, accepting, stored, dead, erasure,
                   faults, crashes>>

\* requestCoupledFlush rejects: its event was not flushed in time.
CoupledTimeout(r) ==
    /\ pc[r] = "coupled"
    /\ Fails(r)
    /\ UNCHANGED <<encrypted, transactions, tables, delivery, erasure, faults, crashes>>

-----------------------------------------------------------------------------
(* The end of the transaction, external: the database and the application. *)

\* The body is over.  Without a transaction there is nothing to end.
Leave(r) ==
    /\ pc[r] = "leaving" /\ ~kind[r].trx
    /\ Goto(r, "done")
    /\ UNCHANGED <<encrypted, transactions, tables, delivery, reported, erasure, faults, crashes>>

\* The change, the intent and the key become visible together; then the hooks run.
Commit(r) ==
    /\ pc[r] = "leaving" /\ kind[r].trx
    /\ committed' = committed \cup {r}
    /\ outbox' = IF r \in intents THEN outbox \cup {r} ELSE outbox
    /\ keys' = [s \in Subjects |-> IF own[r] # NoKey /\ s = SubjectOf(r) THEN own[r] ELSE keys[s]]
    /\ own' = [own EXCEPT ![r] = NoKey]
    /\ intents' = intents \ {r}
    /\ Goto(r, IF r \in hooked THEN "afterCommit" ELSE "done")
    /\ UNCHANGED <<encrypted, hooked, delivery, reported, erasure, faults, crashes>>

\* The application throws for a reason of its own.
Throw(r) ==
    /\ pc[r] = "leaving" /\ kind[r].trx
    /\ Goto(r, "throws")
    /\ UNCHANGED <<encrypted, transactions, tables, delivery, reported, erasure, faults, crashes>>

\* An error leaves the request, and its transaction is rolled back.
Reject(r) ==
    /\ pc[r] = "throws"
    /\ own' = [own EXCEPT ![r] = NoKey]
    /\ intents' = intents \ {r}
    /\ hooked' = hooked \ {r}
    /\ Goto(r, "rejected")
    /\ UNCHANGED <<encrypted, tables, delivery, reported, erasure, faults, crashes>>

-----------------------------------------------------------------------------
(* What goes on beside the requests. *)

\* A flush of the pipeline stores an event and resolves the request that waits for it.
Flush(r) ==
    /\ r \in buffer
    /\ buffer' = buffer \ {r}
    /\ stored' = stored \cup {r}
    /\ IF pc[r] = "coupled" THEN Returns(r) ELSE UNCHANGED pc
    /\ UNCHANGED <<encrypted, transactions, tables, accepting, dead, dropped, reported, erasure,
                   faults, crashes>>

\* An event is written to the dead letters, or evicted by a later one.
FlushFails(r) ==
    /\ r \in buffer /\ faults < MaxFaults
    /\ faults' = faults + 1
    /\ buffer' = buffer \ {r}
    /\ \/ dead' = dead \cup {r} /\ UNCHANGED dropped
       \/ dropped' = dropped \cup {r} /\ UNCHANGED dead
    /\ UNCHANGED <<pc, encrypted, transactions, tables, accepting, stored, reported, erasure, crashes>>

\* The drainer delivers a committed row.
Deliver(r) ==
    /\ r \in outbox \ stored
    /\ stored' = stored \cup {r}
    /\ UNCHANGED <<pc, encrypted, transactions, tables, accepting, buffer, dead, dropped, reported,
                   erasure, faults, crashes>>

Shutdown ==
    /\ accepting /\ accepting' = FALSE
    /\ UNCHANGED <<pc, encrypted, transactions, tables, buffer, stored, dead, dropped, reported,
                   erasure, faults, crashes>>

\* Fault: the key is kept while an event that needs it is on its way to the store.
DeleteKeyIfUnused(s) ==
    keys' = IF \E r \in buffer \cup (outbox \ stored) : SubjectOf(r) = s THEN keys
            ELSE [keys EXCEPT ![s] = NoKey]

\* delete()
DeleteKey(s) == keys' = [keys EXCEPT ![s] = NoKey]

\* The events of a subject that a store or the outbox has.
Durable(s) == {r \in stored \cup outbox : SubjectOf(r) = s}

\* audit:forget in a process of its own.  On MySQL its delete waits for a row that is
\* being inserted, on PostgreSQL it does not see it.
Forget(s) ==
    /\ forgets < MaxForgets
    /\ dialect = "mysql" => ~RowIsLocked(s)
    /\ DeleteKey(s)
    /\ erasable' = erasable \cup Durable(s)
    /\ forgotten' = forgotten \cup {s}
    /\ forgets' = forgets + 1
    /\ UNCHANGED <<pc, encrypted, transactions, committed, outbox, delivery, reported, faults, crashes>>

Over(r) == pc[r] \in {"idle", "done", "rejected", "crashed"}

\* The process dies: open transactions are rolled back and the buffer is gone.
Crash ==
    /\ crashes < MaxCrashes
    /\ crashes' = crashes + 1
    /\ pc' = [r \in Requests |-> IF Over(r) THEN pc[r] ELSE "crashed"]
    /\ own' = [r \in Requests |-> NoKey]
    /\ intents' = {} /\ hooked' = {} /\ buffer' = {}
    /\ accepting' = TRUE
    /\ UNCHANGED <<encrypted, tables, stored, dead, dropped, reported, erasure, faults>>

RequestStep(r) ==
    \/ Begin(r) \/ Change(r) \/ Encrypt(r)
    \/ InsertIntent(r) \/ RegisterHook(r) \/ Enqueue(r) \/ CoupledTimeout(r)
    \/ Leave(r) \/ Commit(r) \/ Throw(r) \/ Reject(r)

Next ==
    /\ \/ \E r \in Requests : RequestStep(r) \/ Flush(r) \/ FlushFails(r) \/ Deliver(r)
       \/ \E s \in Subjects : Forget(s)
       \/ Shutdown \/ Crash
    /\ UNCHANGED config

Spec == Init /\ [][Next]_vars

-----------------------------------------------------------------------------
(* Properties. *)

Places == {"idle", "change", "getKey", "setKey", "readBack", "submit", "coupled", "throws",
         "leaving", "afterCommit", "done", "rejected", "crashed"}
Keys == Requests \cup {NoKey}

\* The variables have their types, and no two open transactions hold a key of one subject
\* (subject_crypto.ts:58-65).
TypeOK ==
    /\ guarantee \in Guarantees /\ dialect \in Dialects /\ kind \in [Requests -> Kinds]
    /\ pc \in [Requests -> Places]
    /\ encrypted \in [Requests -> Keys] /\ own \in [Requests -> Keys]
    /\ keys \in [Subjects -> Keys]
    /\ \A q, r \in Requests : own[q] # NoKey /\ own[r] # NoKey /\ SubjectOf(q) = SubjectOf(r) => q = r
    /\ intents \subseteq Requests /\ hooked \subseteq Requests
    /\ committed \subseteq Requests /\ outbox \subseteq Requests
    /\ buffer \subseteq Requests /\ stored \subseteq Requests /\ dead \subseteq Requests
    /\ dropped \subseteq Requests /\ reported \subseteq Requests
    /\ erasable \subseteq Requests /\ forgotten \subseteq Subjects
    /\ accepting \in BOOLEAN
    /\ faults \in 0 .. MaxFaults /\ forgets \in 0 .. MaxForgets /\ crashes \in 0 .. MaxCrashes

\* In outbox mode a change and its intent are committed together or not at all, through
\* rejected inserts, exceptions of the application and crashes; a change of a model
\* without transaction does not happen (audit.ts:98-122, auditable.ts:47-55, 156-170).
IntentWithChange ==
    Outbox => \A r \in Requests :
        HasEvent(r) /\ (kind[r].path = "model" \/ kind[r].trx) => (r \in committed <=> r \in outbox)

\* An explicit event of a transaction that does not wait for its commit.
Early(r) == kind[r].path # "model" /\ kind[r].trx /\ ~Outbox

\* No event of a model, and no intent, outlives a change that was rolled back: not in the
\* buffer, not in a store (auditable.ts:139-147).
NothingPhantom ==
    \A r \in buffer \cup stored \cup dead \cup dropped \cup outbox : Early(r) \/ r \in committed

\* The names under which a change may be reported.
Names(op) ==
    CASE op = "create" -> {"created"}
      [] op = "update" -> {"updated"}
      [] op = "touch" -> {}
      [] op = "restore" -> {"restored", "updated"}
      [] op = "delete" -> {"deleted"}

Owed(r) == kind[r].path # "model" \/ Names(kind[r].op) \cap Enabled # {}

\* A request that ends well has left an event behind, or an error report where its error
\* was swallowed; in best-effort mode as long as the process serves
\* (audit.ts:123-138, auditable.ts:73-107, 139-162).
NothingSilent ==
    \A r \in Requests :
        /\ pc[r] = "done" /\ Owed(r)
        /\ guarantee = "best-effort" => accepting /\ crashes = 0
        => r \in outbox \cup buffer \cup stored \cup dead \cup dropped \cup reported

\* A coupled call that returns has its event in a store, unless the error was reported:
\* in request-coupled mode always, with commitSync() in best-effort mode unless the
\* buffer refused the event (audit.ts:123-133, pipeline.ts:371-383).
CoupledIsStored ==
    \A r \in Requests :
        /\ pc[r] = "done" /\ HasEvent(r) /\ Coupled(r) /\ ~Outbox
        /\ guarantee = "best-effort" => r \notin dropped /\ accepting /\ crashes = 0
        => r \in stored \cup reported

Readable(r) == encrypted[r] = NoKey \/ encrypted[r] = keys[SubjectOf(r)]

\* What is stored can be decrypted as long as its subject was not forgotten: concurrent
\* first events of a subject agree on one key, and the key is committed before the event
\* leaves the request (subject_crypto.ts:90-113, auditable.ts:117-131).
ReadableUntilForgotten ==
    \A r \in stored \cup outbox :
        Early(r) \/ SubjectOf(r) \in forgotten \cup {NoSubject} \/ Readable(r)

\* What was stored or committed for delivery when audit:forget ran stays unreadable, also
\* when the subject gets a new key and when a key was being inserted meanwhile
\* (audit_forget.ts:27, subject_crypto.ts:67-70, 98-105).
ForgottenForGood == \A r \in erasable : Early(r) \/ encrypted[r] = NoKey \/ ~Readable(r)

=============================================================================
