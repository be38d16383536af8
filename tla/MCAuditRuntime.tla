--------------------------- MODULE MCAuditRuntime ---------------------------
(* Small instances of AuditRuntime: payloads, rows and patterns for TLC.     *)
EXTENDS AuditRuntime

CONSTANTS
    password, cards, card, number, email, i0, auditStore, truncated, name, note,
    secret, open, large, date, oddity, bigint, undef, null, isoText,
    lucid, http, nowhere, request, job, ann, nullId, unnamed, acme, zeta

MCKeys == {password, cards, card, number, email, i0, auditStore, truncated, name, note}
MCValues == {secret, open, large, date, oddity, bigint, undef, null, isoText, lucid, http}

\* "password" and "*.card" of the configuration, "card.*" of the model.
MCGlobal == [exact |-> {password}, deep |-> {card}, prefix |-> {}]
MCLocal == [exact |-> {name}, deep |-> {}, prefix |-> {card}]
MCUserOf == [r \in {request} |-> ann]

Item(k) == [key |-> k, item |-> TRUE]
Two(p, v, q, w) == [x \in {p, q} |-> IF x = p THEN Clear(v) ELSE Clear(w)]

\* A secret in an object of a list in a field that is encrypted, a date, a large field
\* beside a store name, and values that cannot be encoded or cut.
MCInputs == {
    [oldValues |-> NoValues,
     newValues |-> Two(<<Field(email), Item(i0), Field(password)>>, secret, <<Field(email), Item(i0), Field(note)>>, open),
     metadata |-> Two(<<Field(auditStore)>>, http, <<Field(note)>>, date)],
    [oldValues |-> Two(<<Field(email)>>, open, <<Field(card), Item(i0)>>, secret),
     newValues |-> Two(<<Field(note)>>, oddity, <<Field(cards), Item(i0)>>, undef),
     metadata |-> Two(<<Field(auditStore)>>, http, <<Field(note)>>, large)],
    [oldValues |-> NoValues, newValues |-> Two(<<Field(email)>>, open, <<Field(note)>>, bigint), metadata |-> NoValues]}

MCAuthInput == [oldValues |-> NoValues, newValues |-> NoValues,
                metadata |-> Two(<<Field(email)>>, open, <<Field(password)>>, secret)]

MCColumns == {name, password, note}
Row(n, p, o) == [k \in MCColumns |-> CASE k = name -> n [] k = password -> p [] k = note -> o]
MCRows == {Row(open, secret, open), Row(secret, secret, open), Row(open, open, date)}

Config(guarantee, capture, default, streamBy, crypto, snapshot, keyed, loggers, patchers, savers, calls) ==
    [guarantee |-> guarantee, capture |-> capture, default |-> default, streamBy |-> streamBy,
     crypto |-> crypto, snapshot |-> snapshot,
     keyed |-> keyed, loggers |-> loggers, patchers |-> patchers, savers |-> savers, calls |-> calls]

MCScopes == {[tenant |-> zeta, actor |-> ann], [tenant |-> BadTenant, actor |-> NoActor]}
MCPatches == {[f \in {"tenant", "actor"} |-> IF f = "tenant" THEN zeta ELSE NoActor], [f \in {"request"} |-> NoRequest]}
MCResolvable == {acme, NoTenant}

\* Two events of a tenant, one event in each guarantee mode, the hooks of a model, and two
\* configurations that are refused.
MCConfigs == {
    Config("best-effort", "unset", lucid, "tenant", TRUE, "dirty", {ann}, {request, job}, {}, {}, 2),
    Config("request-coupled", "off", lucid, "tenant", FALSE, "dirty", {}, {request, job}, {request, job}, {}, 1),
    Config("transactional-outbox", "unset", lucid, "global", TRUE, "dirty", {ann}, {request, job}, {request}, {}, 1),
    Config("best-effort", "unset", lucid, "global", TRUE, "dirty", {ann}, {request}, {}, {request}, 1),
    Config("transactional-outbox", "off", lucid, "tenant", TRUE, "full", {}, {job}, {job}, {job}, 1),
    Config("transactional-outbox", "on", lucid, "global", TRUE, "dirty", {ann}, {request}, {}, {}, 1),
    Config("best-effort", "unset", nowhere, "global", TRUE, "dirty", {ann}, {request}, {}, {}, 1)}

=============================================================================
