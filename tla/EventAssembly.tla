---------------------------- MODULE EventAssembly ----------------------------
(* What happens to the payloads of one event before it is submitted and      *)
(* after it is read: redaction (src/core/redactor.ts), encryption under the   *)
(* key of its subject (src/core/subject_crypto.ts), truncation                *)
(* (src/core/assembler.ts), routing (src/stores/store_manager.ts) and the     *)
(* canonical encoding of the hash chain (src/core/canonical_json.ts).         *)
(*                                                                            *)
(* A payload is a function from paths to leaves. A path lists the steps from  *)
(* the top: properties of objects and, with item, positions of arrays, whose  *)
(* key is their text, as redactValue builds it. Objects and arrays without    *)
(* members are leaves; a payload that is null has no paths.                   *)
EXTENDS Integers, Sequences

CONSTANTS
    Keys,        \* names of properties and positions
    Values,      \* what a leaf holds
    Dates,       \* values that are Date objects
    Odd,         \* functions and symbols
    BigInts,     \* bigint values
    Undefined,   \* the value undefined
    Null,        \* the value null
    Large,       \* values that exceed payloadMaxBytes
    Mode,        \* redaction.mode
    Fields,      \* cryptoShredding.fields
    AuditStore,  \* the key metadata.auditStore
    Truncated,   \* the key _truncated
    Stores,      \* names of the configured stores, which are values
    Default,     \* the default store
    Nowhere      \* a store name nobody configured

ASSUME ModeAssumption == Mode \in {"mask", "remove", "hash"}
ASSUME ValuesAssumption ==
    /\ Dates \cup Odd \cup BigInts \cup {Undefined, Null} \cup Stores \subseteq Values
    /\ Null \notin Dates \cup Odd \cup BigInts \cup {Undefined}
    /\ \A v \in Stores : v \notin Dates \cup Odd \cup BigInts \cup {Undefined, Null}
    /\ Default \in Stores /\ Nowhere \notin Stores
    /\ {AuditStore, Truncated} \subseteq Keys /\ AuditStore # Truncated

Steps == [key : Keys, item : BOOLEAN]
Paths == Seq(Steps) \ {<<>>}
Field(k) == [key |-> k, item |-> FALSE]
NoKey == 0

-----------------------------------------------------------------------------
(* Leaves. Where a leaf stands for a value below it, of is that value: a      *)
(* function from the paths that go on below the leaf.                         *)

Leaf(kind, of, key) == [kind |-> kind, of |-> of, key |-> key]
Clear(v) == Leaf("clear", v, NoKey)
Empty == Leaf("empty", Null, NoKey)
Masked == Leaf("mask", Null, NoKey)
Forgotten == Leaf("forgotten", Null, NoKey)
Holds(leaf, vs) == leaf.kind = "clear" /\ leaf.of \in vs

Nodes(payload) == UNION {{SubSeq(p, 1, n) : n \in 1..Len(p)} : p \in DOMAIN payload}
Suffixes(payload) == UNION {{SubSeq(p, n, Len(p)) : n \in 1..Len(p) + 1} : p \in DOMAIN payload}

\* The value at a node of a payload.
ValueAt(payload, node) ==
    [s \in {t \in Suffixes(payload) : node \o t \in DOMAIN payload} |-> payload[node \o s]]

-----------------------------------------------------------------------------
(* Redaction. Patterns are compiled into three sets of keys: `exact`, of      *)
(* "key", `deep`, of "*.key", and `prefix`, of "key.*".                       *)

Matches(path, patterns) ==
    \/ path[Len(path)].key \in patterns.exact
    \/ \E n \in 1..Len(path) : path[n].key \in patterns.deep
    \/ Len(path) > 1 /\ path[Len(path) - 1].key \in patterns.prefix

\* redactValue looks at the patterns when it comes to a property, never at a position.
IsRedacted(path, patterns) == ~path[Len(path)].item /\ Matches(path, patterns)

\* Fault: the redactor does not go into arrays.
KeptInArrays(payload, patterns) ==
    {p \in DOMAIN payload : \A n \in 1..Len(p) :
        IsRedacted(SubSeq(p, 1, n), patterns) => \E m \in 1..n : p[m].item}

Kept(payload, patterns) ==
    {p \in DOMAIN payload : \A n \in 1..Len(p) : ~IsRedacted(SubSeq(p, 1, n), patterns)}

\* Where the redactor stops: the first redacted node on the way down.
Roots(payload, patterns) ==
    {q \in Nodes(payload) : /\ IsRedacted(q, patterns)
                            /\ \A n \in 1..Len(q) - 1 : ~IsRedacted(SubSeq(q, 1, n), patterns)}

\* Fault: dates are copied as they are.
RebuiltExceptDates(leaf) == leaf

\* Objects are rebuilt from their enumerable properties, and a Date has none.
Rebuilt(leaf) == IF Holds(leaf, Dates) THEN Empty ELSE leaf

Replaced(value) == IF Mode = "mask" THEN Masked ELSE Leaf("hash", value, NoKey)

\* What is left, without the objects that lost all of their members to mode "remove".
Redact(payload, patterns) ==
    [q \in Kept(payload, patterns) \cup (IF Mode = "remove" THEN {} ELSE Roots(payload, patterns)) |->
        IF q \in Kept(payload, patterns) THEN Rebuilt(payload[q]) ELSE Replaced(ValueAt(payload, q))]

\* canonicalJson() of a value, at least of the part below the leaf s; undefined is
\* dropped from objects and refused in arrays.
Canonical(s, leaf) ==
    /\ ~Holds(leaf, Dates \cup Odd \cup BigInts)
    /\ Holds(leaf, {Undefined}) => ~s[Len(s)].item

\* hashValue takes String() of what is no object, and canonicalJson() of the rest.
Hashes(value) ==
    \A s \in DOMAIN value :
        IF s = <<>> THEN ~Holds(value[s], Dates) ELSE Canonical(s, value[s])

RedactFails(payload, patterns) ==
    Mode = "hash" /\ \E q \in Roots(payload, patterns) : ~Hashes(ValueAt(payload, q))

-----------------------------------------------------------------------------
(* Encryption of the top-level fields, and what reading makes of them.        *)

Encrypted(payload) ==
    {q \in Nodes(payload) :
        /\ Len(q) = 1 /\ q[1].key \in Fields
        /\ q \in DOMAIN payload => ~Holds(payload[q], {Undefined, Null})}

Encrypt(payload, key) ==
    [q \in Encrypted(payload) \cup {p \in DOMAIN payload : SubSeq(p, 1, 1) \notin Encrypted(payload)} |->
        IF q \in Encrypted(payload) THEN Leaf("cipher", ValueAt(payload, q), key) ELSE payload[q]]

Ciphers(payload) ==
    {q \in DOMAIN payload : Len(q) = 1 /\ q[1].key \in Fields /\ payload[q].kind = "cipher"}

MarkForgotten(payload) ==
    [q \in DOMAIN payload |-> IF q \in Ciphers(payload) THEN Forgotten ELSE payload[q]]

\* Decryption with another key than that of the encryption gives null.
Decrypt(payload, key) ==
    LET own == {q \in Ciphers(payload) : payload[q].key = key}
        inner == UNION {{q \o s : s \in DOMAIN payload[q].of} : q \in own}
    IN  [p \in (DOMAIN payload \ own) \cup inner |->
            IF p \in DOMAIN payload \ Ciphers(payload) THEN payload[p]
            ELSE IF p \in DOMAIN payload \ own THEN Clear(Null)
            ELSE payload[SubSeq(p, 1, 1)].of[Tail(p)]]

Read(payload, key) == IF key = NoKey THEN MarkForgotten(payload) ELSE Decrypt(payload, key)

-----------------------------------------------------------------------------
(* Truncation, routing and encodings.                                         *)

\* A payload counts as too long when it, or what one of its ciphertexts holds, has a
\* large value; masks and hashes are short.
TooLong(payload) ==
    \E p \in DOMAIN payload :
        \/ Holds(payload[p], Large)
        \/ payload[p].kind = "cipher" /\ \E s \in DOMAIN payload[p].of : Holds(payload[p].of[s], Large)

MaybeTruncate(payload) ==
    IF TooLong(payload) THEN [q \in {<<Field(Truncated)>>} |-> Leaf("digest", payload, NoKey)] ELSE payload

IsTruncated(payload) == \E p \in DOMAIN payload : payload[p].kind = "digest"

\* JSON.stringify() throws on a bigint.
TruncateFails(payload) == \E p \in DOMAIN payload : Holds(payload[p], BigInts)

\* The payload can be hashed by the chain, that is, written.
Hashable(payload) == \A p \in DOMAIN payload : Canonical(p, payload[p])

\* What JSON.stringify() leaves of a payload, for the outbox.
JsonClone(payload) ==
    LET dropped == {p \in DOMAIN payload : ~p[Len(p)].item /\ Holds(payload[p], Odd \cup {Undefined})}
    IN  [p \in DOMAIN payload \ dropped |->
            IF Holds(payload[p], Odd \cup {Undefined}) THEN Clear(Null) ELSE payload[p]]

\* A text names the store; masks and hashes are texts that name none.
Route(metadata) ==
    LET path == <<Field(AuditStore)>>
    IN  IF path \notin DOMAIN metadata \/ metadata[path].kind \in {"empty", "cipher"}
           \/ Holds(metadata[path], Dates \cup Odd \cup BigInts \cup {Undefined, Null})
        THEN Default
        ELSE IF Holds(metadata[path], Stores) THEN metadata[path].of ELSE Nowhere

=============================================================================
