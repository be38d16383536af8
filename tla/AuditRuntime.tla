---------------------------- MODULE AuditRuntime -----------------------------
(* From the application to the pipeline: the provider and its configuration,  *)
(* the context of requests and jobs, the events they log, those of the auth   *)
(* listener and of the model hooks, and the assembly of each with its awaits. *)
(* An event is delivered when it is submitted (AuditPipeline, OutboxDrainer    *)
(* and the stores have the rest), and a key is found or made in one step       *)
(* (AuditService).                                                             *)
EXTENDS EventAssembly, FiniteSets

CONSTANTS
    Requests,   \* HTTP requests, which the middleware gives a context
    Jobs,       \* work outside of HTTP
    Guest,
    Persons,    \* the ids that actors have
    NullId,     \* the text "null"
    Unnamed,    \* the actor of a user without an id
    UserOf,     \* the primary key of the user of a request, or Guest
    Tenants, NoTenant,
    Resolvable, \* what tenantResolver returns, where it is well formed
    BadTenant,  \* a tenant id that is empty or not trimmed
    Scopes,     \* tenants and actors that withinContext() is given
    Patches,    \* what auditContext.set() is given, functions of some fields of a context
    Configs,    \* applications: their configuration, the users whose primary key is in a
                \* property id (keyed), the tasks that log (loggers), change a context
                \* (patchers) and save a model (savers), a bound on the events (calls)
    Global,     \* patterns of redaction.global
    Local,      \* patterns of the redact option of the model
    Inputs,     \* payloads that are logged, functions of the slots
    AuthInput,  \* the payloads of an auth event
    Columns, Hidden, Excluded,  \* columns of the model, those with serializeAs null, and its exclude option
    Rows,       \* attributes of a row, functions of the columns
    Iso         \* the text of a date

Tasks == Requests \cup Jobs
Calls == Tasks \X {"own", "auth", "model"}
Slots == {"oldValues", "newValues", "metadata"}
System == "system"
NoActor == "no actor"
Lazy == "lazy"
NoRequest == "no request"

\* What callers pass on: properties and items with values.
IsRaw(payload) ==
    DOMAIN payload \subseteq Paths /\ \A p \in DOMAIN payload : payload[p].kind \in {"clear", "empty"}

ASSUME InputsAssumption == \A in \in Inputs \cup {AuthInput} : DOMAIN in = Slots /\ \A s \in Slots : IsRaw(in[s])
ASSUME ColumnsAssumption == Columns \subseteq Keys /\ Rows # {} /\ \A r \in Rows : DOMAIN r = Columns
ASSUME ConfigsAssumption == \A c \in Configs : c.loggers \cup c.patchers \cup c.savers \subseteq Tasks
ASSUME ContextsAssumption ==
    /\ Resolvable \subseteq Tenants \cup {NoTenant}
    /\ \A s \in Scopes : s.tenant \in Tenants \cup {NoTenant, BadTenant}
    /\ \A patch \in Patches :
          /\ DOMAIN patch \subseteq {"request", "tenant", "actor"}
          /\ "tenant" \in DOMAIN patch => patch.tenant \in Tenants \cup {NoTenant, BadTenant}

VARIABLES
    config,    \* what defineConfig() resolves
    provider,  \* "down", "refused", "started" or "stopping"
    attached,  \* the auth listener is attached
    scope,     \* the context objects of a task: that of the request or job, and one within
    depth,     \* the context a task runs in: 0 is none
    call,      \* submissions under way and done
    row,       \* a model instance of each task
    keys,      \* the version of the key of a subject, or NoKey
    made,      \* the number of keys made
    erased     \* calls whose person was forgotten since (history)

vars == <<config, provider, attached, scope, depth, call, row, keys, made, erased>>

Subjects == (Tenants \cup {NoTenant}) \X Persons
NoContext == [request |-> NoRequest, tenant |-> NoTenant, actor |-> NoActor]
NotEntered == [entered |-> FALSE]
NoCall == [at |-> "none"]
NoValues == [p \in {} |-> Empty]
NoSnapshot == [oldValues |-> NoValues, newValues |-> NoValues]

Init ==
    /\ config \in Configs
    /\ provider = "down" /\ attached = FALSE
    /\ scope = [t \in Tasks |-> [d \in 1..2 |-> NotEntered]]
    /\ depth = [t \in Tasks |-> 0]
    /\ call = [c \in Calls |-> NoCall]
    /\ row = [t \in Tasks |-> LET r == CHOOSE r \in Rows : TRUE
                              IN  [original |-> r, attributes |-> r, snapshot |-> NoSnapshot,
                                   phase |-> "idle", failed |-> FALSE, hooked |-> r, saved |-> <<r, r, r>>]]
    /\ keys = [s \in Subjects |-> NoKey] /\ made = 0
    /\ erased = {}

-----------------------------------------------------------------------------
(* The provider.                                                              *)

CaptureAuthEvents ==
    \/ config.capture = "on"
    \/ config.capture = "unset" /\ config.guarantee # "transactional-outbox"

ConfigFails ==
    \/ config.guarantee = "transactional-outbox" /\ config.capture = "on"
    \/ config.default \notin Stores

Start ==
    /\ provider = "down"
    /\ IF ConfigFails THEN provider' = "refused" /\ UNCHANGED attached
                      ELSE provider' = "started" /\ attached' = CaptureAuthEvents
    /\ UNCHANGED <<config, scope, depth, call, row, keys, made, erased>>

\* shutdown() detaches the listener; requests may still be served while it goes on to
\* stop the drainer and the pipeline.
Shutdown ==
    /\ provider = "started" /\ provider' = "stopping" /\ attached' = FALSE
    /\ UNCHANGED <<config, scope, depth, call, row, keys, made, erased>>

Serving == provider \in {"started", "stopping"}

-----------------------------------------------------------------------------
(* Contexts. AsyncLocalStorage gives every asynchronous chain the context it  *)
(* was started in; context objects are shared by reference.                   *)

Run(t, context) ==
    /\ depth' = [depth EXCEPT ![t] = @ + 1]
    /\ scope' = [scope EXCEPT ![t][depth[t] + 1] = context]
    /\ UNCHANGED <<config, provider, attached, call, row, keys, made, erased>>

\* The middleware; a request whose tenant is malformed ends with an error.
Handle(t) ==
    /\ Serving /\ depth[t] = 0 /\ scope[t][1] = NotEntered
    /\ \E tenant \in Resolvable : Run(t, [request |-> t, tenant |-> tenant, actor |-> Lazy])

\* audit.withinContext(): the new context replaces the outer one until it returns.
WithinContext(t) ==
    /\ Serving /\ depth[t] = IF t \in Requests THEN 1 ELSE 0
    /\ scope[t][depth[t] + 1] = NotEntered   \* bound: once in a task
    /\ \E s \in Scopes : Run(t, [request |-> NoRequest, tenant |-> s.tenant, actor |-> s.actor])

Leave(t) ==
    /\ depth[t] > 0 /\ depth' = [depth EXCEPT ![t] = @ - 1]
    /\ UNCHANGED <<config, provider, attached, scope, call, row, keys, made, erased>>

\* Object.assign() of a patch to a context object.
Patched(context, patch) == [f \in DOMAIN context |-> IF f \in DOMAIN patch THEN patch[f] ELSE context[f]]

\* The calls, where those that wait have seen their context object d of task t change.
Seen(t, d, context) ==
    [c \in Calls |-> IF c[1] = t /\ call[c].at = "actor" /\ call[c].ref = d
                     THEN [call[c] EXCEPT !.seen = @ \cup {context}] ELSE call[c]]

\* auditContext.set(): any fields of the context object of the chain that calls it, which
\* may be one that withinContext() started and did not wait for.
Set(t) ==
    /\ \E d \in 1..2, patch \in Patches :
         LET context == Patched(scope[t][d], patch)
         IN  /\ scope[t][d] # NotEntered
             /\ scope' = [scope EXCEPT ![t][d] = context]
             /\ call' = Seen(t, d, context)
    /\ UNCHANGED <<config, provider, attached, depth, row, keys, made, erased>>

-----------------------------------------------------------------------------
(* Assembly.                                                                  *)

\* The context object a call took hold of.
ContextOf(c) == IF call[c].ref = 0 THEN NoContext ELSE scope[c[1]][call[c].ref]

\* Redaction by the model, where there is one, then by the configuration.
RedactAll(payload, k) == Redact(IF k.model THEN Redact(payload, Local) ELSE payload, Global)
RedactAllFails(payload, k) ==
    \/ k.model /\ RedactFails(payload, Local)
    \/ RedactFails(IF k.model THEN Redact(payload, Local) ELSE payload, Global)

\* The chain of a tenant's events.
StreamOf(tenant) == IF config.streamBy = "tenant" THEN tenant ELSE "default"

\* What assembleEvent() does between its two awaits.
Resolved(k, context, actor) ==
    IF \/ context.tenant = BadTenant
       \/ config.streamBy = "tenant" /\ context.tenant = NoTenant
       \/ \E s \in Slots : RedactAllFails(k.input[s], k)
    THEN [k EXCEPT !.at = "failed"]
    ELSE [k EXCEPT !.at = "encrypting", !.actor = actor, !.request = context.request, !.tenant = context.tenant,
                   !.stream = StreamOf(context.tenant),
                   !.event = [s \in Slots |-> RedactAll(k.input[s], k)]]

\* A call takes hold of its context and of the actor in it, and goes on at once when the
\* actor is given (seen: what its context object was meanwhile, history).
Begin(c, input, by, model) ==
    LET here == IF depth[c[1]] = 0 THEN NoContext ELSE scope[c[1]][depth[c[1]]]
        k == [at |-> "actor", ref |-> depth[c[1]], origin |-> here, seen |-> {here}, input |-> input, by |-> by, model |-> model,
              actor |-> System, request |-> NoRequest, tenant |-> NoTenant, stream |-> "default",
              event |-> input, plain |-> input, key |-> NoKey, store |-> Nowhere]
    IN  /\ call[c] = NoCall /\ Cardinality({e \in Calls : call[e] # NoCall}) < config.calls
        /\ call' = [call EXCEPT ![c] = IF by = NoActor THEN k ELSE Resolved(k, here, by)]

\* What ctx.auth finds when it is asked: String(user.id ?? null).
UserActors(t) ==
    {System} \cup (IF t \in Requests /\ UserOf[t] # Guest
                   THEN {IF UserOf[t] \in config.keyed THEN UserOf[t] ELSE NullId} ELSE {})

\* The actors that the actor of a context may turn out to be.
ActorsOf(actor, t) == IF actor = Lazy THEN UserActors(t) ELSE {IF actor = NoActor THEN System ELSE actor}

\* The actor is that of the context the call began in, the rest what its context object
\* says by now.
ResolveActor(c) ==
    /\ call[c].at = "actor"
    /\ \E actor \in ActorsOf(call[c].origin.actor, c[1]) :
         call' = [call EXCEPT ![c] = Resolved(@, ContextOf(c), actor)]
    /\ UNCHANGED <<config, provider, attached, scope, depth, row, keys, made, erased>>

\* Fault: the identity of a subject has no tenant.
SubjectOfActor(k) == <<NoTenant, k.actor>>

SubjectOf(k) == <<k.tenant, k.actor>>
HasSubject(k) == config.crypto /\ k.actor \in Persons

\* What submit() makes of an assembled event: an intent, which needs a transaction and
\* is encoded, or an event in the buffer.
Submitted(k, inTransaction) ==
    IF config.guarantee # "transactional-outbox" THEN [k EXCEPT !.at = "buffered"]
    ELSE IF ~inTransaction THEN [k EXCEPT !.at = "failed"]
    ELSE [k EXCEPT !.at = "intent", !.event = [s \in Slots |-> JsonClone(k.event[s])]]

\* The flush asks the store manager for the store, the drainer has the default one; a
\* store hashes what it writes.
Delivered(k) ==
    LET store == IF k.at = "intent" THEN Default ELSE Route(k.event.metadata)
    IN  IF k.at = "failed" THEN k
        ELSE IF store \in Stores /\ \A s \in Slots : Hashable(k.event[s])
        THEN [k EXCEPT !.at = "stored", !.store = store] ELSE [k EXCEPT !.at = "undeliverable"]

\* Encryption under the key of the subject, which is made when there is none, then
\* truncation and submission, which await nothing an event depends on.
Submit(c) ==
    LET k == call[c]
        key == IF ~HasSubject(k) THEN NoKey ELSE IF keys[SubjectOf(k)] # NoKey THEN keys[SubjectOf(k)] ELSE made + 1
        sealed == [s \in Slots |-> IF key = NoKey THEN k.event[s] ELSE Encrypt(k.event[s], key)]
        assembled == [k EXCEPT !.key = key, !.plain = k.event, !.event = [s \in Slots |-> MaybeTruncate(sealed[s])]]
    IN  /\ k.at = "encrypting"
        /\ \E inTransaction \in BOOLEAN :
             /\ k.model => inTransaction
             /\ call' = [call EXCEPT ![c] = IF \E s \in Slots : TruncateFails(sealed[s]) THEN [k EXCEPT !.at = "failed"]
                                            ELSE Delivered(Submitted(assembled, inTransaction))]
        /\ IF key = NoKey THEN UNCHANGED <<keys, made>>
           ELSE keys' = [keys EXCEPT ![SubjectOf(k)] = key] /\ made' = IF key > made THEN key ELSE made
        /\ UNCHANGED <<config, provider, attached, scope, depth, row, erased>>

\* audit:forget.
Forget(s) ==
    /\ keys[s] # NoKey /\ keys' = [keys EXCEPT ![s] = NoKey]
    /\ erased' = erased \cup {c \in Calls : /\ call[c] # NoCall /\ call[c].key # NoKey
                                            /\ <<call[c].tenant, call[c].actor>> = s}
    /\ UNCHANGED <<config, provider, attached, scope, depth, call, row, made>>

-----------------------------------------------------------------------------
(* Who submits: the application, the auth listener, the hooks of a model.     *)

\* audit.log(...).by(...).withOld(...).withNew(...).withMeta(...).commit()
Log(t) ==
    /\ Serving
    /\ \E input \in Inputs, by \in Persons \cup {NoActor} : Begin(<<t, "own">>, input, by, FALSE)
    /\ UNCHANGED <<config, provider, attached, scope, depth, row, keys, made, erased>>

\* A guard reports a login with its user, a logout perhaps without, and a failure.
AuthEvent(t) ==
    /\ attached
    /\ \E by \in {NoActor, Unnamed} \cup ({UserOf[t]} \ {Guest}) : Begin(<<t, "auth">>, AuthInput, by, FALSE)
    /\ UNCHANGED <<config, provider, attached, scope, depth, row, keys, made, erased>>

\* The application, another hook or Lucid itself (autoUpdate) sets attributes.
Assign(t) ==
    /\ Serving /\ row[t].phase # "over"
    /\ \E r \in Rows \ {row[t].attributes} : row' = [row EXCEPT ![t].attributes = r]
    /\ UNCHANGED <<config, provider, attached, scope, depth, call, keys, made, erased>>

Dirty(r) == {k \in Columns : r.original[k] # r.attributes[k]}

\* serializeModel() of some columns.
SerializeModel(source, columns) ==
    [p \in {<<Field(k)>> : k \in columns \ (Hidden \cup Excluded)} |->
        Clear(IF source[p[1].key] \in Dates THEN Iso ELSE source[p[1].key])]

BuildUpdateSnapshot(r) ==
    LET columns == IF config.snapshot = "full" THEN Columns ELSE Dirty(r)
    IN  [oldValues |-> SerializeModel(r.original, columns), newValues |-> SerializeModel(r.attributes, columns)]

\* Fault: a snapshot that is there is taken to be the one of this save.
SnapshotOnce(r) == IF r.snapshot = NoSnapshot THEN BuildUpdateSnapshot(r) ELSE r.snapshot

SnapshotOf(r) == BuildUpdateSnapshot(r)

\* The before hook, which Lucid runs also when nothing is dirty: the snapshot, unless the
\* preflight refused the save, which then has no effect: with the outbox a save needs a
\* transaction (hooked: the attributes the hook found, history).
BeforeUpdate(t) ==
    /\ Serving /\ row[t].phase = "idle"
    /\ row' = [row EXCEPT ![t].snapshot = SnapshotOf(row[t]), ![t].hooked = row[t].attributes, ![t].phase = "saving"]
    /\ UNCHANGED <<config, provider, attached, scope, depth, call, keys, made, erased>>

\* The statement: the row is what the model says by now, or the save rejects; without
\* dirty attributes there is none, nor an after hook.
Update(t) ==
    /\ row[t].phase = "saving"
    /\ \/ /\ Dirty(row[t]) # {}
          /\ row' = [row EXCEPT ![t].phase = "saved", ![t].original = row[t].attributes,
                                ![t].saved = <<row[t].original, row[t].hooked, row[t].attributes>>]
       \/ Dirty(row[t]) = {} /\ row' = [row EXCEPT ![t].phase = "idle"]
       \/ ~row[t].failed /\ row' = [row EXCEPT ![t].phase = "idle", ![t].failed = TRUE]
    /\ UNCHANGED <<config, provider, attached, scope, depth, call, keys, made, erased>>

\* The after hook takes the snapshot; a change of nothing that is audited is no event.
AfterUpdate(t) ==
    /\ row[t].phase = "saved"
    /\ row' = [row EXCEPT ![t].snapshot = NoSnapshot, ![t].phase = "over"]
    /\ LET snapshot == row[t].snapshot
       IN  IF DOMAIN snapshot.newValues = {} THEN UNCHANGED call
           ELSE Begin(<<t, "model">>, [s \in Slots |-> IF s = "metadata" THEN NoValues ELSE snapshot[s]], NoActor, TRUE)
    /\ UNCHANGED <<config, provider, attached, scope, depth, keys, made, erased>>

Next ==
    \/ Start \/ Shutdown
    \/ \E t \in config.loggers : WithinContext(t) \/ Leave(t) \/ Log(t)
    \/ \E t \in Requests \cap config.loggers : Handle(t) \/ AuthEvent(t)
    \/ \E t \in config.patchers : Set(t)
    \/ \E t \in config.savers : Assign(t) \/ BeforeUpdate(t) \/ Update(t) \/ AfterUpdate(t)
    \/ \E c \in Calls : ResolveActor(c) \/ Submit(c)
    \/ \E s \in Subjects : Forget(s)

Spec == Init /\ [][Next]_vars

-----------------------------------------------------------------------------
(* Properties.                                                                *)

Assembled(k) == k.at \in {"stored", "undeliverable"}

\* The path goes through a property that a pattern names.
Secret(path, patterns) ==
    \E n \in 1..Len(path) :
        /\ ~path[n].item
        /\ \/ path[n].key \in patterns.exact
           \/ \E m \in 1..n : path[m].key \in patterns.deep
           \/ n > 1 /\ path[n - 1].key \in patterns.prefix

\* Nothing below a secret path is there in clear, nor in what a ciphertext holds.
Sealed(payload, patterns) ==
    \A p \in DOMAIN payload :
        /\ payload[p].kind = "clear" => ~Secret(p, patterns)
        /\ payload[p].kind = "cipher" =>
            \A s \in DOMAIN payload[p].of : payload[p].of[s].kind = "clear" => ~Secret(p \o s, patterns)

\* Whatever is submitted has no value that a pattern of the configuration, or of the
\* model it comes from, names: not in any of its payloads, and not for who can decrypt
\* them (redactor.ts:60-98, assembler.ts:144-162, auditable.ts:121-130).
SecretsAreSealed ==
    \A c \in Calls : call[c] # NoCall /\ Assembled(call[c]) =>
        \A s \in Slots : /\ Sealed(call[c].event[s], Global)
                         /\ call[c].model => Sealed(call[c].event[s], Local)

\* A payload of JSON values and dates.
Plain(payload) == \A p \in DOMAIN payload : ~Holds(payload[p], Odd \cup BigInts \cup {Undefined})

\* What a reader gets for a slot of an event.
ReadSlot(k, s) == IF HasSubject(k) THEN Read(k.event[s], keys[SubjectOf(k)]) ELSE k.event[s]

\* Everything but the fields is what was logged, the fields show nothing.
ReadsErased(k, s) ==
    \A p \in DOMAIN ReadSlot(k, s) :
        \/ ReadSlot(k, s)[p] \in {Forgotten, Clear(Null)} /\ p[1].key \in Fields
        \/ /\ p \in DOMAIN k.plain[s] /\ ReadSlot(k, s)[p] = k.plain[s][p]
           /\ SubSeq(p, 1, 1) \notin Encrypted(k.plain[s])

\* Reading gives back what was logged and not redacted for as long as nobody forgot the
\* person of the event, whoever else is forgotten meanwhile; afterwards the fields are
\* lost for good, also when the person comes back and gets a new key, and nothing else is
\* (subject_crypto.ts:95-139, 149-159).
ReadBack ==
    \A c \in Calls : call[c] # NoCall /\ Assembled(call[c]) =>
        \A s \in Slots :
            Plain(call[c].input[s]) /\ ~IsTruncated(call[c].event[s]) =>
                IF c \in erased THEN ReadsErased(call[c], s) ELSE ReadSlot(call[c], s) = call[c].plain[s]

\* The caller names a store that is there, or none, and the redaction leaves it alone.
NamesStore(metadata) ==
    LET path == <<Field(AuditStore)>>
    IN  /\ path \in DOMAIN metadata => Holds(metadata[path], Stores)
        /\ \A q \in Nodes(metadata) : q[1].key = AuditStore => q = path /\ ~IsRedacted(path, Global)

\* An event of plain values is never what holds up a batch: every store can hash what
\* the assembly made of it, and it goes to the store it names, unless its metadata were
\* truncated or it is drained from the outbox (canonical_json.ts:7-60,
\* store_manager.ts:15-39, pipeline.ts:276-285).
PlainEventsArrive ==
    \A c \in Calls : call[c] # NoCall /\ Assembled(call[c])
                     /\ (\A s \in Slots : Plain(call[c].input[s])) /\ NamesStore(call[c].input.metadata) =>
        LET metadata == call[c].input.metadata
        IN  /\ call[c].at # "undeliverable"
            /\ call[c].at = "stored" /\ ~IsTruncated(call[c].event.metadata) =>
                 \/ call[c].store = Route(metadata)
                 \/ config.guarantee = "transactional-outbox" \/ AuditStore \in Fields

\* The request and tenant of a call of task t are those of its context object at one time
\* while it was made, its actor is the one it was given or that of the context then.
TellsContext(k, t) ==
    /\ \E context \in k.seen : k.request = context.request /\ k.tenant = context.tenant
    /\ k.tenant # BadTenant
    /\ k.actor \in IF k.by = NoActor THEN ActorsOf(k.origin.actor, t) ELSE {k.by}

\* The values tell how the audited columns of a row went from old to new in the statement,
\* as far as nobody set them after the before hook.
TellsChange(values, old, hooked, new) ==
    LET told == {f \in Columns : <<Field(f)>> \in DOMAIN values.newValues}
        settled == {f \in Columns : hooked[f] = new[f]}
    IN  /\ {f \in settled \ (Hidden \cup Excluded) : old[f] # new[f]} \subseteq told
        /\ told \cap (Hidden \cup Excluded) = {}
        /\ \A f \in told \cap settled :
              /\ new[f] \notin Dates => values.newValues[<<Field(f)>>].of = new[f]
              /\ old[f] \notin Dates => values.oldValues[<<Field(f)>>].of = old[f]

\* The statement changed an audited column that nobody set after the before hook.
Changed(saved) == \E f \in Columns \ (Hidden \cup Excluded) : saved[2][f] = saved[3][f] /\ saved[1][f] # saved[3][f]

\* Chains are not shared: two events are in one chain exactly if they are of one tenant,
\* and every event is of a tenant.
TenantsApart(k, l) == k.tenant # NoTenant /\ (k.stream = l.stream <=> k.tenant = l.tenant)

\* An event tells who and what it was, however contexts are entered, left and patched
\* while its actor is looked up: the actor of its context object when it was logged, the
\* request and tenant the object had at one time from then on, in no other tenant's chain.
\* (They need not belong together: the object is shared.)  And a change that a statement made to audited columns its hooks left
\* alone has an event of the model, which tells it, also after a save that was rejected or
\* had nothing to do (assembler.ts:34-142, audit_context.ts:17-31, auditable.ts:48-72,
\* 163-215).
EventsAreTrue ==
    /\ \A c \in Calls : call[c] # NoCall /\ Assembled(call[c]) =>
          /\ TellsContext(call[c], c[1])
          /\ c[2] = "model" =>
                LET saved == row[c[1]].saved IN TellsChange(call[c].input, saved[1], saved[2], saved[3])
          /\ config.streamBy = "tenant" =>
                \A d \in Calls : call[d] # NoCall /\ Assembled(call[d]) => TenantsApart(call[c], call[d])
    /\ \A t \in Tasks : row[t].phase = "over" /\ Changed(row[t].saved) => call[<<t, "model">>] # NoCall

=============================================================================
