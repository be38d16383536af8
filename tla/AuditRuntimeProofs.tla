------------------------- MODULE AuditRuntimeProofs -------------------------
(* Proofs about AuditRuntime, for any payloads, patterns and fields.         *)
EXTENDS AuditRuntime, SequenceTheorems, TLAPS

\* Payloads before encryption.
Uncoded(payload) ==
    /\ DOMAIN payload \subseteq Paths
    /\ \A p \in DOMAIN payload : payload[p].kind \in {"clear", "empty", "mask", "hash"}

Clean(payload, patterns) ==
    \A p \in DOMAIN payload : payload[p].kind = "clear" => ~Secret(p, patterns)

-----------------------------------------------------------------------------
(* Redaction.                                                                *)

LEMMA Prefixes ==
    ASSUME NEW p \in Paths, NEW n \in 1..Len(p)
    PROVE  /\ SubSeq(p, 1, n) \in Paths
           /\ Len(SubSeq(p, 1, n)) = n
           /\ \A m \in 1..n : SubSeq(p, 1, n)[m] = p[m]
<1>1. p \in Seq(Steps) /\ n \in Nat /\ n >= 1 /\ n <= Len(p) /\ Len(p) \in Nat
  BY DEF Paths
<1>2. SubSeq(p, 1, n) \in Seq(Steps) /\ Len(SubSeq(p, 1, n)) = n
  BY <1>1
<1>3. \A m \in 1..n : SubSeq(p, 1, n)[m] = p[m]
  BY <1>1
<1>4. SubSeq(p, 1, n) # <<>>
  BY <1>1, <1>2
<1> QED BY <1>2, <1>3, <1>4 DEF Paths

\* A path through a property that a pattern names is cut by the redactor.
LEMMA SecretsAreCut ==
    ASSUME NEW p \in Paths, NEW patterns, Secret(p, patterns)
    PROVE  \E n \in 1..Len(p) : IsRedacted(SubSeq(p, 1, n), patterns)
<1>1. PICK n \in 1..Len(p) :
        /\ ~p[n].item
        /\ \/ p[n].key \in patterns.exact
           \/ \E m \in 1..n : p[m].key \in patterns.deep
           \/ n > 1 /\ p[n - 1].key \in patterns.prefix
  BY DEF Secret
<1> DEFINE q == SubSeq(p, 1, n)
<1>2. Len(q) = n /\ n \in Nat /\ n >= 1 /\ \A m \in 1..n : q[m] = p[m]
  BY Prefixes DEF Paths
<1>3. q[Len(q)] = p[n] /\ (n > 1 => q[Len(q) - 1] = p[n - 1])
  BY <1>2
<1>4. (\E m \in 1..n : p[m].key \in patterns.deep) => \E m \in 1..Len(q) : q[m].key \in patterns.deep
  BY <1>2
<1> HIDE DEF q
<1>5. IsRedacted(q, patterns)
  BY <1>1, <1>2, <1>3, <1>4 DEF IsRedacted, Matches
<1> QED BY <1>5 DEF q

LEMMA RedactIsClean ==
    ASSUME NEW payload, Uncoded(payload), NEW patterns
    PROVE  /\ Uncoded(Redact(payload, patterns))
           /\ Clean(Redact(payload, patterns), patterns)
           /\ \A p \in DOMAIN Redact(payload, patterns) :
                 Redact(payload, patterns)[p].kind = "clear" =>
                    /\ p \in DOMAIN payload /\ payload[p] = Redact(payload, patterns)[p]
                    /\ ~Holds(Redact(payload, patterns)[p], Dates)
<1> DEFINE kept == Kept(payload, patterns)
           roots == IF Mode = "remove" THEN {} ELSE Roots(payload, patterns)
           r == Redact(payload, patterns)
<1>1. DOMAIN r = kept \cup roots
  BY DEF Redact
<1>2. \A p \in DOMAIN r : r[p] = IF p \in kept THEN Rebuilt(payload[p]) ELSE Replaced(ValueAt(payload, p))
  BY DEF Redact
<1>3. kept \subseteq DOMAIN payload /\ DOMAIN payload \subseteq Paths
  BY DEF Kept, Uncoded
<1>4. roots \subseteq Paths
  <2>1. ASSUME NEW q \in Nodes(payload) PROVE q \in Paths
    <3>1. PICK p \in DOMAIN payload : q \in {SubSeq(p, 1, n) : n \in 1..Len(p)}
      BY <2>1 DEF Nodes
    <3>2. PICK n \in 1..Len(p) : q = SubSeq(p, 1, n)
      BY <3>1
    <3> QED BY <3>1, <3>2, <1>3, Prefixes
  <2> QED BY <2>1 DEF Roots
<1>5. \A p \in kept : ~Secret(p, patterns)
  BY <1>3, SecretsAreCut DEF Kept
<1>6. ASSUME NEW p \in DOMAIN r
      PROVE  /\ r[p].kind \in {"clear", "empty", "mask", "hash"}
             /\ r[p].kind = "clear" => p \in kept /\ r[p] = payload[p] /\ ~Holds(r[p], Dates)
  <2>1. CASE p \in kept
    <3>1. payload[p].kind \in {"clear", "empty", "mask", "hash"}
      BY <1>3, <2>1 DEF Uncoded
    <3> QED BY <1>2, <1>6, <2>1, <3>1 DEF Rebuilt, Empty, Leaf
  <2>2. CASE p \notin kept
    <3>1. r[p] = Replaced(ValueAt(payload, p))
      BY <1>2, <1>6, <2>2
    <3>2. r[p].kind \in {"mask", "hash"}
      BY <3>1 DEF Replaced, Masked, Leaf
    <3> QED BY <3>2
  <2> QED BY <2>1, <2>2
<1> HIDE DEF r, kept, roots
<1>7. Uncoded(r)
  BY <1>1, <1>3, <1>4, <1>6 DEF Uncoded
<1>8. Clean(r, patterns)
  BY <1>5, <1>6 DEF Clean
<1>9. \A p \in DOMAIN r :
        r[p].kind = "clear" => p \in DOMAIN payload /\ payload[p] = r[p] /\ ~Holds(r[p], Dates)
  BY <1>3, <1>6
<1> QED BY <1>7, <1>8, <1>9 DEF r

\* What one redactor took out is not brought back by the next.
LEMMA CleanStaysClean ==
    ASSUME NEW payload, Uncoded(payload), NEW patterns, NEW others, Clean(payload, patterns)
    PROVE  Clean(Redact(payload, others), patterns)
<1> DEFINE r == Redact(payload, others)
<1>1. \A p \in DOMAIN r : r[p].kind = "clear" => p \in DOMAIN payload /\ payload[p] = r[p]
  BY RedactIsClean
<1> HIDE DEF r
<1>2. Clean(r, patterns)
  BY <1>1 DEF Clean
<1> QED BY <1>2 DEF r

-----------------------------------------------------------------------------
(* Encryption, truncation and encoding.                                      *)

LEMMA UncodedIsSealed ==
    ASSUME NEW payload, Uncoded(payload), NEW patterns, Clean(payload, patterns)
    PROVE  Sealed(payload, patterns)
BY DEF Uncoded, Clean, Sealed

LEMMA EncryptSeals ==
    ASSUME NEW payload, Uncoded(payload), NEW patterns, Clean(payload, patterns), NEW key
    PROVE  Sealed(Encrypt(payload, key), patterns)
<1> DEFINE e == Encrypt(payload, key)
           fields == Encrypted(payload)
<1>1. \A q \in DOMAIN e : e[q] = IF q \in fields THEN Leaf("cipher", ValueAt(payload, q), key) ELSE payload[q]
  BY DEF Encrypt
<1>2. \A q \in DOMAIN e : q \in fields \/ q \in DOMAIN payload
  BY DEF Encrypt
<1>3. ASSUME NEW q \in DOMAIN e
      PROVE  /\ e[q].kind = "clear" => ~Secret(q, patterns)
             /\ e[q].kind = "cipher" =>
                  \A s \in DOMAIN e[q].of : e[q].of[s].kind = "clear" => ~Secret(q \o s, patterns)
  <2>1. CASE q \in fields
    <3>1. e[q].kind = "cipher" /\ e[q].of = ValueAt(payload, q)
      BY <1>1, <1>3, <2>1 DEF Leaf
    <3>2. \A s \in DOMAIN ValueAt(payload, q) :
            q \o s \in DOMAIN payload /\ ValueAt(payload, q)[s] = payload[q \o s]
      BY DEF ValueAt
    <3>3. \A s \in DOMAIN e[q].of : e[q].of[s].kind = "clear" => ~Secret(q \o s, patterns)
      BY <3>1, <3>2 DEF Clean
    <3> QED BY <3>1, <3>3
  <2>2. CASE q \notin fields
    <3>1. q \in DOMAIN payload /\ e[q] = payload[q]
      BY <1>1, <1>2, <1>3, <2>2
    <3> QED BY <3>1 DEF Clean, Uncoded
  <2> QED BY <2>1, <2>2
<1> HIDE DEF e
<1>4. Sealed(e, patterns)
  BY <1>3 DEF Sealed
<1> QED BY <1>4 DEF e

LEMMA TruncateSeals ==
    ASSUME NEW payload, NEW patterns, Sealed(payload, patterns)
    PROVE  Sealed(MaybeTruncate(payload), patterns)
<1>1. CASE ~TooLong(payload)
  BY <1>1 DEF MaybeTruncate
<1>2. CASE TooLong(payload)
  <2>1. MaybeTruncate(payload) = [q \in {<<Field(Truncated)>>} |-> Leaf("digest", payload, NoKey)]
    BY <1>2 DEF MaybeTruncate
  <2>2. \A q \in DOMAIN MaybeTruncate(payload) : MaybeTruncate(payload)[q].kind = "digest"
    BY <2>1 DEF Leaf
  <2> QED BY <2>2 DEF Sealed
<1> QED BY <1>1, <1>2

LEMMA CloneSeals ==
    ASSUME NEW payload, NEW patterns, Sealed(payload, patterns)
    PROVE  Sealed(JsonClone(payload), patterns)
<1> DEFINE c == JsonClone(payload)
<1>1. \A p \in DOMAIN c :
        /\ p \in DOMAIN payload
        /\ c[p] = IF Holds(payload[p], Odd \cup {Undefined}) THEN Clear(Null) ELSE payload[p]
  BY DEF JsonClone
<1> HIDE DEF c
<1>2. Sealed(c, patterns)
  BY <1>1 DEF Sealed, Holds, Clear, Leaf
<1> QED BY <1>2 DEF c

-----------------------------------------------------------------------------
(* What can be encoded, and where it goes.                                   *)

Codable(payload) ==
    \A p \in DOMAIN payload : ~Holds(payload[p], Dates \cup Odd \cup BigInts \cup {Undefined})

StorePath == <<Field(AuditStore)>>

SameStore(payload, metadata) ==
    /\ StorePath \in DOMAIN payload <=> StorePath \in DOMAIN metadata
    /\ StorePath \in DOMAIN metadata => payload[StorePath] = metadata[StorePath]

\* The metadata of an event still name the store, or do so no longer for a known reason.
Routed(payload, metadata) ==
    \/ SameStore(payload, metadata)
    \/ StorePath \in DOMAIN payload /\ payload[StorePath].kind = "cipher" /\ AuditStore \in Fields
    \/ StorePath \notin DOMAIN payload /\ IsTruncated(payload)

LEMMA TheStorePath ==
    /\ Len(StorePath) = 1 /\ SubSeq(StorePath, 1, 1) = StorePath
    /\ StorePath[1].key = AuditStore
    /\ \A payload : StorePath \in DOMAIN payload => StorePath \in Nodes(payload)
<1>1. Len(StorePath) = 1 /\ StorePath[1].key = AuditStore
  BY DEF StorePath, Field
<1>2. Field(AuditStore) \in Steps
  BY ValuesAssumption DEF Field, Steps
<1>3. SubSeq(StorePath, 1, 1) = StorePath
  <2>1. StorePath \in Seq(Steps)
    BY <1>2 DEF StorePath
  <2>2. \A i \in 1..1 : StorePath[i] \in Steps
    BY <1>2 DEF StorePath
  <2>3. /\ SubSeq(StorePath, 1, 1) \in Seq(Steps) /\ Len(SubSeq(StorePath, 1, 1)) = 1
        /\ SubSeq(StorePath, 1, 1)[1] = StorePath[1]
    BY <2>2, SubSeqProperties
  <2> QED BY <1>1, <2>1, <2>3, SeqEqual
<1>4. ASSUME NEW payload, StorePath \in DOMAIN payload PROVE StorePath \in Nodes(payload)
  <2>1. StorePath \in {SubSeq(StorePath, 1, n) : n \in 1..Len(StorePath)}
    BY <1>1, <1>3
  <2> QED BY <2>1, <1>4 DEF Nodes
<1> QED BY <1>1, <1>3, <1>4

LEMMA CodableIsHashable == ASSUME NEW payload, Codable(payload) PROVE Hashable(payload)
BY DEF Codable, Hashable, Canonical, Holds

LEMMA RedactIsCodable ==
    ASSUME NEW payload, Uncoded(payload), Plain(payload), NEW patterns
    PROVE  Plain(Redact(payload, patterns)) /\ Codable(Redact(payload, patterns))
<1> DEFINE r == Redact(payload, patterns)
<1>1. \A p \in DOMAIN r :
        r[p].kind = "clear" => p \in DOMAIN payload /\ payload[p] = r[p] /\ ~Holds(r[p], Dates)
  BY RedactIsClean
<1> HIDE DEF r
<1>2. Plain(r) /\ Codable(r)
  BY <1>1 DEF Plain, Codable, Holds
<1> QED BY <1>2 DEF r

LEMMA RedactKeepsStore ==
    ASSUME NEW metadata, NamesStore(metadata)
    PROVE  SameStore(Redact(metadata, Global), metadata)
<1> DEFINE roots == IF Mode = "remove" THEN {} ELSE Roots(metadata, Global)
           r == Redact(metadata, Global)
<1>1. /\ DOMAIN r = Kept(metadata, Global) \cup roots
      /\ \A p \in Kept(metadata, Global) : r[p] = Rebuilt(metadata[p])
  BY DEF Redact
<1>2. StorePath \in Nodes(metadata) => ~IsRedacted(StorePath, Global)
  BY TheStorePath DEF NamesStore, StorePath
<1>3. StorePath \notin roots
  BY <1>2 DEF Roots
<1>4. StorePath \in Kept(metadata, Global) <=> StorePath \in DOMAIN metadata
  <2>1. \A n \in 1..Len(StorePath) : SubSeq(StorePath, 1, n) = StorePath
    BY TheStorePath
  <2>2. StorePath \in DOMAIN metadata => \A n \in 1..Len(StorePath) : ~IsRedacted(SubSeq(StorePath, 1, n), Global)
    BY <1>2, <2>1, TheStorePath
  <2> QED BY <2>2 DEF Kept
<1>5. StorePath \in DOMAIN metadata => Rebuilt(metadata[StorePath]) = metadata[StorePath]
  BY ValuesAssumption DEF NamesStore, StorePath, Rebuilt, Holds
<1> HIDE DEF r, roots
<1>6. SameStore(r, metadata)
  BY <1>1, <1>3, <1>4, <1>5 DEF SameStore
<1> QED BY <1>6 DEF r

LEMMA EncryptKeeps ==
    ASSUME NEW payload, Codable(payload), NEW key
    PROVE  /\ Codable(Encrypt(payload, key))
           /\ \A metadata : SameStore(payload, metadata) => Routed(Encrypt(payload, key), metadata)
<1> DEFINE e == Encrypt(payload, key)
           fields == Encrypted(payload)
<1>1. /\ DOMAIN e = fields \cup {p \in DOMAIN payload : SubSeq(p, 1, 1) \notin fields}
      /\ \A q \in DOMAIN e : IF q \in fields THEN e[q].kind = "cipher" ELSE e[q] = payload[q]
  BY DEF Encrypt, Leaf
<1>2. StorePath \in fields => AuditStore \in Fields
  BY TheStorePath DEF Encrypted
<1> HIDE DEF e, fields
<1>3. Codable(e)
  <2>1. ASSUME NEW q \in DOMAIN e, e[q].kind = "clear" PROVE q \in DOMAIN payload /\ e[q] = payload[q]
    <3>1. q \notin fields
      BY <1>1, <2>1
    <3> QED BY <1>1, <3>1
  <2> QED BY <2>1 DEF Codable, Holds
<1>4. ASSUME NEW metadata, SameStore(payload, metadata) PROVE Routed(e, metadata)
  <2>1. CASE StorePath \in fields
    BY <1>1, <1>2, <2>1 DEF Routed
  <2>2. CASE StorePath \notin fields
    <3>1. SameStore(e, metadata)
      BY <1>1, <1>4, <2>2, TheStorePath DEF SameStore
    <3> QED BY <3>1 DEF Routed
  <2> QED BY <2>1, <2>2
<1> QED BY <1>3, <1>4 DEF e

LEMMA TruncateKeeps ==
    ASSUME NEW payload, Codable(payload)
    PROVE  /\ Codable(MaybeTruncate(payload))
           /\ \A metadata : Routed(payload, metadata) => Routed(MaybeTruncate(payload), metadata)
<1>1. CASE ~TooLong(payload)
  BY <1>1 DEF MaybeTruncate
<1>2. CASE TooLong(payload)
  <2> DEFINE t == MaybeTruncate(payload)
  <2>1. DOMAIN t = {<<Field(Truncated)>>} /\ \A q \in DOMAIN t : t[q].kind = "digest"
    BY <1>2 DEF MaybeTruncate, Leaf
  <2>2. StorePath # <<Field(Truncated)>>
    BY ValuesAssumption DEF StorePath, Field
  <2> HIDE DEF t
  <2>3. Codable(t) /\ IsTruncated(t) /\ StorePath \notin DOMAIN t
    BY <2>1, <2>2 DEF Codable, Holds, IsTruncated
  <2> QED BY <2>3 DEF t, Routed
<1> QED BY <1>1, <1>2

LEMMA CloneKeeps ==
    ASSUME NEW payload, Codable(payload)
    PROVE  /\ Codable(JsonClone(payload))
           /\ \A metadata : Routed(payload, metadata) => Routed(JsonClone(payload), metadata)
<1> DEFINE c == JsonClone(payload)
<1>1. \A p \in DOMAIN payload : ~Holds(payload[p], Odd \cup {Undefined})
  BY DEF Codable, Holds
<1>2. DOMAIN c = DOMAIN payload /\ \A p \in DOMAIN c : c[p] = payload[p]
  BY <1>1 DEF JsonClone
<1> HIDE DEF c
<1>3. Codable(c)
  BY <1>2 DEF Codable
<1>4. ASSUME NEW metadata, Routed(payload, metadata) PROVE Routed(c, metadata)
  BY <1>2, <1>4 DEF Routed, SameStore, IsTruncated
<1> QED BY <1>3, <1>4 DEF c

\* Where metadata go that are routed.
LEMMA RouteOfRouted ==
    ASSUME NEW metadata, NamesStore(metadata), NEW payload, Routed(payload, metadata)
    PROVE  /\ Route(payload) \in Stores
           /\ ~IsTruncated(payload) /\ AuditStore \notin Fields => Route(payload) = Route(metadata)
<1>1. CASE StorePath \notin DOMAIN payload
  <2>1. Route(payload) = Default
    BY <1>1 DEF Route, StorePath
  <2>2. StorePath \notin DOMAIN metadata \/ IsTruncated(payload)
    BY <1>1 DEF Routed, SameStore
  <2>3. StorePath \notin DOMAIN metadata => Route(metadata) = Default
    BY DEF Route, StorePath
  <2> QED BY <2>1, <2>2, <2>3, ValuesAssumption
<1>2. CASE StorePath \in DOMAIN payload /\ payload[StorePath].kind = "cipher" /\ AuditStore \in Fields
  BY <1>2, ValuesAssumption DEF Route, StorePath
<1>3. CASE StorePath \in DOMAIN payload /\ SameStore(payload, metadata)
  <2>1. StorePath \in DOMAIN metadata /\ payload[StorePath] = metadata[StorePath]
    BY <1>3 DEF SameStore
  <2>2. Holds(metadata[StorePath], Stores)
    BY <2>1 DEF NamesStore, StorePath
  <2>3. metadata[StorePath].kind = "clear"
        /\ ~Holds(metadata[StorePath], Dates \cup Odd \cup BigInts \cup {Undefined, Null})
    BY <2>2, ValuesAssumption DEF Holds
  <2>4. Route(payload) = payload[StorePath].of /\ Route(metadata) = metadata[StorePath].of
    BY <1>3, <2>1, <2>2, <2>3 DEF Route, StorePath
  <2> QED BY <2>1, <2>2, <2>4 DEF Holds
<1> QED BY <1>1, <1>2, <1>3 DEF Routed

-----------------------------------------------------------------------------
(* The states of the runtime.                                                *)

CallFields == {"at", "ref", "origin", "seen", "input", "by", "model", "actor", "request", "tenant", "stream",
               "event", "plain", "key", "store"}

RawInput(input) == \A s \in Slots : IsRaw(input[s])

\* Redacted by the patterns that apply to a call, and sealed by them.
AllClean(event, model) ==
    \A s \in Slots : Uncoded(event[s]) /\ Clean(event[s], Global) /\ (model => Clean(event[s], Local))
AllSealed(event, model) ==
    \A s \in Slots : Sealed(event[s], Global) /\ (model => Sealed(event[s], Local))

CallOk(k) ==
    /\ DOMAIN k = CallFields /\ DOMAIN k.event = Slots
    /\ k.at \in {"actor", "encrypting", "failed", "stored", "undeliverable"}
    /\ RawInput(k.input)
    /\ k.at = "encrypting" => AllClean(k.event, k.model)
    /\ Assembled(k) => AllSealed(k.event, k.model)

PlainInput(k) == (\A s \in Slots : Plain(k.input[s])) /\ NamesStore(k.input.metadata)

\* A call of plain values on its way, and where it ends under a guarantee mode.
PlainOk(k, guarantee) ==
    /\ k.model => k.input.metadata = NoValues
    /\ k.at = "encrypting" /\ PlainInput(k) =>
         /\ \A s \in Slots : Codable(k.event[s])
         /\ SameStore(k.event.metadata, k.input.metadata)
    /\ Assembled(k) /\ PlainInput(k) =>
         /\ k.at = "stored"
         /\ ~IsTruncated(k.event.metadata) =>
              \/ k.store = Route(k.input.metadata)
              \/ guarantee = "transactional-outbox" \/ AuditStore \in Fields

CallsOk ==
    /\ DOMAIN call = Calls
    /\ \A c \in Calls : call[c] = NoCall \/ (CallOk(call[c]) /\ PlainOk(call[c], config.guarantee))

RowFields == {"original", "attributes", "snapshot", "phase", "failed", "hooked", "saved"}
RawSnapshot(snapshot) == IsRaw(snapshot.oldValues) /\ IsRaw(snapshot.newValues)
RowsOk == DOMAIN row = Tasks /\ \A t \in Tasks : DOMAIN row[t] = RowFields /\ RawSnapshot(row[t].snapshot)

IInv == config \in Configs /\ CallsOk /\ RowsOk

LEMMA RawIsUncoded == ASSUME NEW payload, IsRaw(payload) PROVE Uncoded(payload)
BY DEF IsRaw, Uncoded

LEMMA NoValuesIsRaw == IsRaw(NoValues)
BY DEF IsRaw, NoValues

\* The payloads of the hooks are properties with values.
LEMMA SnapshotIsRaw == ASSUME NEW r PROVE RawSnapshot(BuildUpdateSnapshot(r))
<1>1. ASSUME NEW source, NEW columns, columns \subseteq Columns
      PROVE  IsRaw(SerializeModel(source, columns))
  <2>1. \A k \in columns : <<Field(k)>> \in Paths
    <3>1. ASSUME NEW k \in columns PROVE Field(k) \in Steps /\ <<Field(k)>> # <<>>
      BY <1>1, ColumnsAssumption DEF Field, Steps
    <3> QED BY <3>1 DEF Paths
  <2>2. DOMAIN SerializeModel(source, columns) \subseteq Paths
    BY <2>1 DEF SerializeModel
  <2>3. \A p \in DOMAIN SerializeModel(source, columns) : SerializeModel(source, columns)[p].kind = "clear"
    BY DEF SerializeModel, Clear, Leaf
  <2> QED BY <2>2, <2>3 DEF IsRaw
<1>2. Dirty(r) \subseteq Columns
  BY DEF Dirty
<1> QED BY <1>1, <1>2 DEF RawSnapshot, BuildUpdateSnapshot

\* Both redactors together leave a payload clean of what either takes out.
LEMMA RedactAllIsClean ==
    ASSUME NEW payload, IsRaw(payload), NEW k
    PROVE  /\ Uncoded(RedactAll(payload, k)) /\ Clean(RedactAll(payload, k), Global)
           /\ k.model => Clean(RedactAll(payload, k), Local)
<1>1. Uncoded(payload)
  BY RawIsUncoded
<1>2. CASE k.model
  <2>1. Uncoded(Redact(payload, Local)) /\ Clean(Redact(payload, Local), Local)
    BY <1>1, RedactIsClean
  <2>2. Uncoded(RedactAll(payload, k)) /\ Clean(RedactAll(payload, k), Global)
    BY <1>2, <2>1, RedactIsClean DEF RedactAll
  <2>3. Clean(RedactAll(payload, k), Local)
    BY <1>2, <2>1, CleanStaysClean DEF RedactAll
  <2> QED BY <2>2, <2>3
<1>3. CASE ~k.model
  BY <1>1, <1>3, RedactIsClean DEF RedactAll
<1> QED BY <1>2, <1>3

LEMMA RedactAllKeepsPlain ==
    ASSUME NEW payload, IsRaw(payload), NEW k
    PROVE  /\ Plain(payload) => Codable(RedactAll(payload, k))
           /\ NamesStore(payload) /\ (k.model => payload = NoValues) =>
                SameStore(RedactAll(payload, k), payload)
<1> DEFINE first == IF k.model THEN Redact(payload, Local) ELSE payload
<1>1. Uncoded(payload)
  BY RawIsUncoded
<1>2. Uncoded(first) /\ (Plain(payload) => Plain(first))
  BY <1>1, RedactIsClean, RedactIsCodable
<1>3. RedactAll(payload, k) = Redact(first, Global)
  BY DEF RedactAll
<1>4. Plain(payload) => Codable(RedactAll(payload, k))
  BY <1>2, <1>3, RedactIsCodable
<1>5. ASSUME NamesStore(payload), k.model => payload = NoValues
      PROVE  NamesStore(first) /\ SameStore(first, payload)
  <2>1. CASE k.model
    <3>1. payload = NoValues /\ DOMAIN NoValues = {}
      BY <1>5, <2>1 DEF NoValues
    <3>2. Kept(NoValues, Local) = {} /\ Roots(NoValues, Local) = {}
      BY <3>1 DEF Kept, Roots, Nodes
    <3>3. DOMAIN first = {}
      BY <2>1, <3>1, <3>2 DEF Redact
    <3> HIDE DEF first
    <3>4. Nodes(first) = {}
      BY <3>3 DEF Nodes
    <3> QED BY <3>1, <3>3, <3>4 DEF NamesStore, SameStore
  <2>2. CASE ~k.model
    BY <1>5, <2>2 DEF SameStore
  <2> QED BY <2>1, <2>2
<1> HIDE DEF first
<1>6. ASSUME NamesStore(payload), k.model => payload = NoValues
      PROVE  SameStore(RedactAll(payload, k), payload)
  <2>1. SameStore(Redact(first, Global), first) /\ SameStore(first, payload)
    BY <1>5, <1>6, RedactKeepsStore
  <2> QED BY <1>3, <2>1 DEF SameStore
<1> QED BY <1>4, <1>6

LEMMA ResolvedIsOk ==
    ASSUME NEW k, DOMAIN k = CallFields, DOMAIN k.event = Slots, RawInput(k.input), NEW context, NEW actor,
           k.model => k.input.metadata = NoValues, NEW guarantee
    PROVE  CallOk(Resolved(k, context, actor)) /\ PlainOk(Resolved(k, context, actor), guarantee)
<1> DEFINE r == Resolved(k, context, actor)
<1>1. CASE r = [k EXCEPT !.at = "failed"]
  <2>1. /\ DOMAIN r = CallFields /\ r.at = "failed" /\ r.input = k.input /\ r.event = k.event
        /\ r.model = k.model
    BY <1>1 DEF CallFields
  <2> HIDE DEF r
  <2>2. CallOk(r) /\ PlainOk(r, guarantee)
    BY <2>1 DEF CallOk, PlainOk, Assembled
  <2> QED BY <2>2 DEF r
<1>2. CASE r # [k EXCEPT !.at = "failed"]
  <2>1. /\ DOMAIN r = CallFields /\ r.at = "encrypting" /\ r.input = k.input /\ r.model = k.model
        /\ r.event = [s \in Slots |-> RedactAll(k.input[s], k)]
    BY <1>2 DEF CallFields, Resolved
  <2>2. AllClean(r.event, r.model)
    BY <2>1, RedactAllIsClean DEF AllClean, RawInput
  <2>3. PlainInput(k) => /\ \A s \in Slots : Codable(r.event[s])
                         /\ SameStore(r.event.metadata, r.input.metadata)
    BY <2>1, RedactAllKeepsPlain DEF PlainInput, RawInput, Slots
  <2> HIDE DEF r
  <2>4. CallOk(r) /\ PlainOk(r, guarantee)
    BY <2>1, <2>2, <2>3 DEF CallOk, PlainOk, PlainInput, Assembled
  <2> QED BY <2>4 DEF r
<1> QED BY <1>1, <1>2

\* A call of the application, a guard or a hook with properties and values.
LEMMA BeginPreserves ==
    ASSUME CallsOk, NEW c \in Calls, NEW input, DOMAIN input = Slots, RawInput(input),
           NEW by, NEW model, model => input.metadata = NoValues, Begin(c, input, by, model),
           UNCHANGED config
    PROVE  CallsOk'
<1> DEFINE here == IF depth[c[1]] = 0 THEN NoContext ELSE scope[c[1]][depth[c[1]]]
           k == [at |-> "actor", ref |-> depth[c[1]], origin |-> here, seen |-> {here}, input |-> input, by |-> by, model |-> model,
                 actor |-> System, request |-> NoRequest, tenant |-> NoTenant, stream |-> "default",
                 event |-> input, plain |-> input, key |-> NoKey, store |-> Nowhere]
           new == IF by = NoActor THEN k ELSE Resolved(k, here, by)
<1>1. call' = [call EXCEPT ![c] = new]
  BY DEF Begin
<1>2. DOMAIN k = CallFields /\ k.at = "actor" /\ k.input = input /\ k.event = input /\ k.model = model
  BY DEF CallFields
<1> HIDE DEF k
<1>3. CallOk(k) /\ PlainOk(k, config.guarantee)
  BY <1>2 DEF CallOk, PlainOk, Assembled
<1>4. CallOk(Resolved(k, here, by)) /\ PlainOk(Resolved(k, here, by), config.guarantee)
  BY <1>2, ResolvedIsOk
<1>5. CallOk(new) /\ PlainOk(new, config.guarantee)
  BY <1>3, <1>4
<1> HIDE DEF new
<1> QED BY <1>1, <1>5 DEF CallsOk

LEMMA SubmitPreserves ==
    ASSUME CallsOk, NEW c \in Calls, Submit(c)
    PROVE  CallsOk'
<1> DEFINE k == call[c]
           key == IF ~HasSubject(k) THEN NoKey ELSE IF keys[SubjectOf(k)] # NoKey THEN keys[SubjectOf(k)] ELSE made + 1
           sealed == [s \in Slots |-> IF key = NoKey THEN k.event[s] ELSE Encrypt(k.event[s], key)]
           assembled == [k EXCEPT !.key = key, !.plain = k.event, !.event = [s \in Slots |-> MaybeTruncate(sealed[s])]]
           failed == [k EXCEPT !.at = "failed"]
<1>1. CallOk(k) /\ PlainOk(k, config.guarantee) /\ k.at = "encrypting" /\ UNCHANGED config
  BY DEF Submit, CallsOk, NoCall
<1>2. PICK inTransaction \in BOOLEAN :
        \/ call' = [call EXCEPT ![c] = failed]
        \/ call' = [call EXCEPT ![c] = Delivered(Submitted(assembled, inTransaction))]
  BY DEF Submit
<1>3. AllClean(k.event, k.model) /\ DOMAIN k = CallFields /\ RawInput(k.input) /\ DOMAIN k.event = Slots
  BY <1>1 DEF CallOk
<1>4. CallOk(failed) /\ PlainOk(failed, config.guarantee)
  <2>1. /\ DOMAIN failed = CallFields /\ failed.at = "failed" /\ failed.input = k.input
        /\ failed.event = k.event /\ failed.model = k.model
    BY <1>3 DEF CallFields
  <2>2. k.model => k.input.metadata = NoValues
    BY <1>1 DEF PlainOk
  <2> HIDE DEF failed, k
  <2> QED BY <2>1, <2>2, <1>3 DEF CallOk, PlainOk, Assembled
<1>5. \A s \in Slots : Sealed(sealed[s], Global) /\ (k.model => Sealed(sealed[s], Local))
  BY <1>3, UncodedIsSealed, EncryptSeals DEF AllClean
<1>6. /\ DOMAIN assembled = CallFields /\ assembled.at = "encrypting" /\ assembled.input = k.input
      /\ assembled.model = k.model /\ assembled.event = [s \in Slots |-> MaybeTruncate(sealed[s])]
  BY <1>1, <1>3 DEF CallFields
<1>7. PlainInput(k) => /\ \A s \in Slots : Codable(sealed[s])
                       /\ Routed(sealed.metadata, k.input.metadata)
  <2>1. SUFFICES ASSUME PlainInput(k)
                 PROVE  (\A s \in Slots : Codable(sealed[s])) /\ Routed(sealed.metadata, k.input.metadata)
    OBVIOUS
  <2>2. (\A s \in Slots : Codable(k.event[s])) /\ SameStore(k.event.metadata, k.input.metadata)
    BY <1>1, <2>1 DEF PlainOk
  <2>3. \A s \in Slots : Codable(sealed[s])
    BY <2>2, EncryptKeeps
  <2>4. sealed.metadata = IF key = NoKey THEN k.event.metadata ELSE Encrypt(k.event.metadata, key)
    BY DEF Slots
  <2>5. Codable(k.event.metadata)
    BY <2>2 DEF Slots
  <2>6. Routed(sealed.metadata, k.input.metadata)
    BY <2>2, <2>4, <2>5, EncryptKeeps, SMTT(20) DEF Routed
  <2> QED BY <2>3, <2>6
<1> HIDE DEF sealed
<1>8. AllSealed(assembled.event, assembled.model)
  BY <1>5, <1>6, TruncateSeals DEF AllSealed
<1>9. PlainInput(k) => /\ \A s \in Slots : Codable(assembled.event[s])
                       /\ Routed(assembled.event.metadata, k.input.metadata)
  BY <1>6, <1>7, TruncateKeeps DEF Slots
<1> DEFINE submitted == Submitted(assembled, inTransaction)
<1> HIDE DEF assembled
<1>10. /\ DOMAIN submitted = CallFields /\ submitted.at \in {"buffered", "failed", "intent"}
       /\ submitted.input = k.input /\ submitted.model = k.model /\ DOMAIN submitted.event = Slots
       /\ \/ submitted.event = assembled.event
          \/ submitted.event = [s \in Slots |-> JsonClone(assembled.event[s])]
  BY <1>6 DEF Submitted, CallFields
<1>11. AllSealed(submitted.event, submitted.model)
  BY <1>6, <1>8, <1>10, CloneSeals DEF AllSealed
<1>12. PlainInput(k) => /\ \A s \in Slots : Codable(submitted.event[s])
                        /\ Routed(submitted.event.metadata, k.input.metadata)
  BY <1>10, <1>9, CloneKeeps DEF Slots
<1>13. submitted.at # "intent" \/ config.guarantee = "transactional-outbox"
  BY <1>6 DEF Submitted, CallFields
<1> DEFINE delivered == Delivered(submitted)
<1> HIDE DEF submitted
<1>14. /\ DOMAIN delivered = CallFields /\ delivered.at \in {"failed", "stored", "undeliverable"}
       /\ delivered.input = k.input /\ delivered.model = k.model /\ delivered.event = submitted.event
  BY <1>10 DEF Delivered, CallFields
<1>15. /\ delivered.at = "failed" \/ submitted.at # "failed"
       /\ submitted.at # "failed" =>
            LET store == IF submitted.at = "intent" THEN Default ELSE Route(submitted.event.metadata)
            IN  store \in Stores /\ (\A s \in Slots : Hashable(submitted.event[s])) =>
                  delivered.at = "stored" /\ delivered.store = store
  BY <1>10 DEF Delivered, CallFields
<1> HIDE DEF delivered
<1>16. CallOk(delivered)
  BY <1>3, <1>10, <1>11, <1>14 DEF CallOk
<1>17. PlainOk(delivered, config.guarantee)
  <2>1. delivered.model => delivered.input.metadata = NoValues
    BY <1>1, <1>10, <1>14 DEF PlainOk
  <2>2. ASSUME Assembled(delivered), PlainInput(delivered)
        PROVE  /\ delivered.at = "stored"
               /\ ~IsTruncated(delivered.event.metadata) =>
                    \/ delivered.store = Route(delivered.input.metadata)
                    \/ config.guarantee = "transactional-outbox" \/ AuditStore \in Fields
    <3>1. PlainInput(k) /\ submitted.at # "failed"
      BY <2>2, <1>10, <1>14, <1>15 DEF PlainInput, Assembled
    <3>2. \A s \in Slots : Hashable(submitted.event[s])
      BY <1>12, <3>1, CodableIsHashable
    <3>3. Routed(submitted.event.metadata, k.input.metadata)
      BY <1>12, <3>1
    <3>4. NamesStore(k.input.metadata)
      BY <3>1 DEF PlainInput
    <3>5. /\ Route(submitted.event.metadata) \in Stores
          /\ ~IsTruncated(submitted.event.metadata) /\ AuditStore \notin Fields =>
               Route(submitted.event.metadata) = Route(k.input.metadata)
      BY <3>3, <3>4, RouteOfRouted
    <3> QED BY <3>1, <3>2, <3>5, <1>10, <1>14, <1>13, <1>15, ValuesAssumption
  <2> QED BY <2>1, <2>2, <1>14 DEF PlainOk
<1>18. call' = [call EXCEPT ![c] = failed] \/ call' = [call EXCEPT ![c] = delivered]
  BY <1>2 DEF delivered, submitted
<1> HIDE DEF failed
<1> QED BY <1>1, <1>4, <1>16, <1>18, <1>17 DEF CallsOk

-----------------------------------------------------------------------------
(* The invariant.                                                            *)

LEMMA TypedInit == ASSUME Init PROVE IInv
<1>1. CallsOk
  BY DEF Init, CallsOk
<1>2. RowsOk
  BY NoValuesIsRaw DEF Init, RowsOk, RowFields, RawSnapshot, NoSnapshot
<1> QED BY <1>1, <1>2 DEF Init, IInv

\* A call after a context object has changed.
LEMMA SeenIs ==
    ASSUME NEW t, NEW d, NEW context, call' = Seen(t, d, context), NEW c \in Calls
    PROVE  \/ call'[c] = call[c] /\ ~(c[1] = t /\ call[c].at = "actor" /\ call[c].ref = d)
           \/ /\ c[1] = t /\ call[c].at = "actor" /\ call[c].ref = d
              /\ call'[c] = [call[c] EXCEPT !.seen = @ \cup {context}]
BY DEF Seen

LEMMA TypedNext == ASSUME IInv, [Next]_vars PROVE IInv'
<1> USE DEF IInv
<1>1. ASSUME UNCHANGED <<config, call, row>> PROVE IInv'
  BY <1>1 DEF CallsOk, RowsOk
<1>2. CASE Start \/ Shutdown \/ UNCHANGED vars
  BY <1>1, <1>2 DEF Start, Shutdown, vars
<1>3. CASE \E t \in Requests \cap config.loggers : Handle(t)
  BY <1>1, <1>3 DEF Handle, Run
<1>4. CASE \E t \in Requests \cap config.loggers : AuthEvent(t)
  <2>1. PICK t \in Requests : AuthEvent(t)
    BY <1>4
  <2>2. PICK by : Begin(<<t, "auth">>, AuthInput, by, FALSE)
    BY <2>1 DEF AuthEvent
  <2>3. <<t, "auth">> \in Calls
    BY DEF Calls, Tasks
  <2>4. DOMAIN AuthInput = Slots /\ RawInput(AuthInput)
    BY InputsAssumption DEF RawInput
  <2>5. UNCHANGED <<config, row>>
    BY <1>4 DEF AuthEvent
  <2>6. CallsOk'
    BY <2>2, <2>3, <2>4, <2>5, BeginPreserves
  <2> QED BY <2>5, <2>6 DEF RowsOk
<1>5. CASE \E t \in config.loggers : WithinContext(t) \/ Leave(t)
  BY <1>1, <1>5 DEF WithinContext, Leave, Run
<1>6. CASE \E t \in config.patchers : Set(t)
  <2>1. PICK t, d, context : call' = Seen(t, d, context) /\ UNCHANGED <<config, row>>
    BY <1>6 DEF Set
  <2>2. ASSUME NEW c \in Calls PROVE call'[c] = NoCall \/ (CallOk(call'[c]) /\ PlainOk(call'[c], config.guarantee))
    <3>1. PICK k, new : k = call[c] /\ new = call'[c]
      OBVIOUS
    <3>2. k = NoCall \/ (CallOk(k) /\ PlainOk(k, config.guarantee))
      BY <3>1 DEF CallsOk
    <3>3. CASE new = k
      BY <3>1, <3>2, <3>3
    <3>4. CASE new # k
      <4>1. k.at = "actor" /\ new = [k EXCEPT !.seen = @ \cup {context}]
        BY <2>1, <3>1, <3>4, SeenIs
      <4>2. CallOk(k) /\ PlainOk(k, config.guarantee)
        BY <3>2, <4>1 DEF NoCall
      <4>3. /\ DOMAIN new = CallFields /\ new.at = "actor" /\ new.input = k.input /\ new.event = k.event
            /\ new.model = k.model
        BY <4>1, <4>2 DEF CallOk, CallFields
      <4>4. CallOk(new) /\ PlainOk(new, config.guarantee)
        BY <4>2, <4>3 DEF CallOk, PlainOk, Assembled
      <4> QED BY <3>1, <4>4
    <3> QED BY <3>3, <3>4
  <2>3. DOMAIN call' = Calls
    BY <2>1 DEF Seen
  <2> QED BY <2>1, <2>2, <2>3 DEF CallsOk, RowsOk
<1>7. CASE \E t \in config.loggers : Log(t)
  <2>1. PICK t \in Tasks : Log(t)
    BY <1>7, ConfigsAssumption
  <2>2. PICK input \in Inputs : \E by : Begin(<<t, "own">>, input, by, FALSE)
    BY <2>1 DEF Log
  <2>3. PICK by : Begin(<<t, "own">>, input, by, FALSE)
    BY <2>2
  <2>4. <<t, "own">> \in Calls
    BY DEF Calls
  <2>5. DOMAIN input = Slots /\ RawInput(input)
    BY InputsAssumption DEF RawInput
  <2>6. UNCHANGED <<config, row>>
    BY <1>7 DEF Log
  <2>7. CallsOk'
    BY <2>3, <2>4, <2>5, <2>6, BeginPreserves
  <2> QED BY <2>6, <2>7 DEF RowsOk
<1>8. CASE \E t \in config.savers : Assign(t) \/ Update(t)
  <2>1. PICK t \in Tasks : Assign(t) \/ Update(t)
    BY <1>8, ConfigsAssumption
  <2>2. UNCHANGED <<config, call>>
    BY <2>1 DEF Assign, Update
  <2>3. DOMAIN row' = Tasks
    BY <2>1 DEF Assign, Update, RowsOk
  <2>4. \A u \in Tasks : DOMAIN row'[u] = RowFields /\ row'[u].snapshot = row[u].snapshot
    BY <2>1 DEF Assign, Update, RowsOk, RowFields
  <2> QED BY <2>2, <2>3, <2>4 DEF CallsOk, RowsOk
<1>9. CASE \E t \in config.savers : BeforeUpdate(t)
  <2>1. PICK t \in Tasks : BeforeUpdate(t)
    BY <1>9, ConfigsAssumption
  <2>2. UNCHANGED <<config, call>>
    BY <2>1 DEF BeforeUpdate
  <2>3. RawSnapshot(SnapshotOf(row[t]))
    BY SnapshotIsRaw DEF SnapshotOf
  <2>4. DOMAIN row' = Tasks
    BY <2>1 DEF BeforeUpdate, RowsOk
  <2>5. \A u \in Tasks : /\ DOMAIN row'[u] = RowFields
                         /\ row'[u].snapshot = IF u = t THEN SnapshotOf(row[t]) ELSE row[u].snapshot
    BY <2>1 DEF BeforeUpdate, RowsOk, RowFields
  <2> QED BY <2>2, <2>3, <2>4, <2>5 DEF CallsOk, RowsOk
<1>10. CASE \E t \in config.savers : AfterUpdate(t)
  <2>1. PICK t \in Tasks : AfterUpdate(t)
    BY <1>10, ConfigsAssumption
  <2> DEFINE input == [s \in Slots |-> IF s = "metadata" THEN NoValues ELSE row[t].snapshot[s]]
  <2>2. call' = call \/ Begin(<<t, "model">>, input, NoActor, TRUE)
    BY <2>1 DEF AfterUpdate
  <2>3. <<t, "model">> \in Calls
    BY DEF Calls
  <2>4. DOMAIN input = Slots /\ RawInput(input)
    BY NoValuesIsRaw DEF RawInput, RowsOk, RawSnapshot, Slots
  <2>5. input.metadata = NoValues
    BY DEF Slots
  <2>6. config' = config /\ DOMAIN row' = Tasks
    BY <2>1 DEF AfterUpdate, RowsOk
  <2>7. CallsOk'
    BY <2>2, <2>3, <2>4, <2>5, <2>6, BeginPreserves DEF CallsOk
  <2>8. \A u \in Tasks : /\ DOMAIN row'[u] = RowFields
                         /\ row'[u].snapshot = IF u = t THEN NoSnapshot ELSE row[u].snapshot
    BY <2>1 DEF AfterUpdate, RowsOk, RowFields
  <2> QED BY <2>6, <2>7, <2>8, NoValuesIsRaw DEF RowsOk, RawSnapshot, NoSnapshot
<1>11. CASE \E c \in Calls : ResolveActor(c)
  <2>1. PICK c \in Calls : ResolveActor(c)
    BY <1>11
  <2>2. PICK actor : call' = [call EXCEPT ![c] = Resolved(call[c], ContextOf(c), actor)]
    BY <2>1 DEF ResolveActor, CallsOk
  <2>3. CallOk(call[c]) /\ PlainOk(call[c], config.guarantee)
    BY <2>1 DEF ResolveActor, CallsOk, NoCall
  <2>4. LET r == Resolved(call[c], ContextOf(c), actor) IN CallOk(r) /\ PlainOk(r, config.guarantee)
    BY <2>3, ResolvedIsOk DEF CallOk, PlainOk
  <2>5. UNCHANGED <<config, row>>
    BY <2>1 DEF ResolveActor
  <2> QED BY <2>2, <2>4, <2>5 DEF CallsOk, RowsOk
<1>12. CASE \E c \in Calls : Submit(c)
  <2>1. UNCHANGED <<config, row>>
    BY <1>12 DEF Submit
  <2> QED BY <2>1, <1>12, SubmitPreserves DEF RowsOk
<1>13. CASE \E s \in Subjects : Forget(s)
  BY <1>1, <1>13 DEF Forget
<1> QED BY <1>2, <1>3, <1>4, <1>5, <1>7, <1>8, <1>9, <1>10, <1>11, <1>12, <1>13, <1>6 DEF Next

LEMMA Invariance == Spec => []IInv
BY TypedInit, TypedNext, PTL DEF Spec

\* Whatever the patterns, payloads and interleavings, no event that is submitted has a
\* value that a pattern of the configuration or of its model names, neither in clear nor
\* inside a ciphertext (redactor.ts:60-98, assembler.ts:144-162, auditable.ts:121-130).
THEOREM SecretsStaySealed == Spec => []SecretsAreSealed
<1>1. IInv => SecretsAreSealed
  BY DEF IInv, CallsOk, CallOk, AllSealed, SecretsAreSealed
<1> QED BY <1>1, Invariance, PTL

\* An event of JSON values and dates that names no unknown store can be hashed by every
\* store, whatever was redacted, encrypted, truncated or cloned, and goes to the store it
\* names (canonical_json.ts:7-60, store_manager.ts:15-39, pipeline.ts:276-285).
THEOREM PlainEventsAlwaysArrive == Spec => []PlainEventsArrive
<1>1. IInv => PlainEventsArrive
  BY DEF IInv, CallsOk, PlainOk, PlainInput, PlainEventsArrive
<1> QED BY <1>1, Invariance, PTL

-----------------------------------------------------------------------------
(* What an event tells.  EventsAreTrue is not inductive: a call that waits must have seen    *)
(* what its context object is by now, what the stream was taken from must be known, and a    *)
(* snapshot must tell the change from the row to what the before hook found until the after  *)
(* hook takes it, whatever the statement will write.                                         *)

ContextFields == {"request", "tenant", "actor"}

ScopesOk ==
    /\ DOMAIN depth = Tasks /\ DOMAIN scope = Tasks
    /\ \A t \in Tasks : /\ depth[t] \in 0..2 /\ DOMAIN scope[t] = 1..2
                        /\ \A d \in 1..2 : scope[t][d] = NotEntered \/ DOMAIN scope[t][d] = ContextFields
                        /\ \A d \in 1..depth[t] : DOMAIN scope[t][d] = ContextFields

\* The values tell a change, whatever is set after the before hook.
Tells(values, old, hooked) == \A new : TellsChange(values, old, hooked, new)

RowTells(r) ==
    /\ r.phase = "saving" => Tells(r.snapshot, r.original, r.hooked)
    /\ r.phase = "saved" => TellsChange(r.snapshot, r.saved[1], r.saved[2], r.saved[3])

RowsTell == \A t \in Tasks : RowTells(row[t])

\* The context object of a call k of task t among those of the tasks, sc.
Held(k, t, sc) == IF k.ref = 0 THEN NoContext ELSE sc[t][k.ref]

SeenOk(k, t, sc) ==
    k.at = "actor" => /\ k.ref \in 0..2 /\ (k.ref # 0 => DOMAIN sc[t][k.ref] = ContextFields)
                      /\ Held(k, t, sc) \in k.seen

ContextTold(k, t) ==
    /\ k.at = "actor" => k.by = NoActor
    /\ k.at \in {"encrypting", "stored", "undeliverable"} =>
         /\ TellsContext(k, t)
         /\ k.stream = StreamOf(k.tenant) /\ (config.streamBy = "tenant" => k.tenant # NoTenant)

\* The event of a model, where r is the row.
ChangeTold(k, r) == r.phase = "over" /\ TellsChange(k.input, r.saved[1], r.saved[2], r.saved[3])

EventsTold ==
    \A c \in Calls : call[c] # NoCall =>
        /\ SeenOk(call[c], c[1], scope) /\ ContextTold(call[c], c[1])
        /\ c[2] = "model" => ChangeTold(call[c], row[c[1]])

\* No change without an event.
ChangesTold == \A t \in Tasks : row[t].phase = "over" /\ Changed(row[t].saved) => call[<<t, "model">>] # NoCall

EventInv == ScopesOk /\ RowsTell /\ EventsTold

\* What a snapshot tells.
LEMMA SnapshotTells ==
    ASSUME NEW r PROVE Tells(BuildUpdateSnapshot(r), r.original, r.attributes)
<1> DEFINE columns == IF config.snapshot = "full" THEN Columns ELSE Dirty(r)
           told == columns \ (Hidden \cup Excluded)
           values == BuildUpdateSnapshot(r)
           Value(source, f) == Clear(IF source[f] \in Dates THEN Iso ELSE source[f])
<1>1. columns \subseteq Columns /\ {f \in Columns : r.original[f] # r.attributes[f]} \subseteq columns
  BY DEF Dirty
<1> HIDE DEF columns
<1>2. ASSUME NEW source
      PROVE  /\ \A f : <<Field(f)>> \in DOMAIN SerializeModel(source, columns) <=> f \in told
             /\ \A f \in told : SerializeModel(source, columns)[<<Field(f)>>] = Value(source, f)
  <2>1. DOMAIN SerializeModel(source, columns) = {<<Field(k)>> : k \in told}
    BY DEF SerializeModel
  <2>2. \A f, k : <<Field(f)>> = <<Field(k)>> => f = k
    BY DEF Field
  <2>3. \A f : <<Field(f)>>[1].key = f
    BY DEF Field
  <2>4. ASSUME NEW f \in told PROVE SerializeModel(source, columns)[<<Field(f)>>] = Value(source, f)
    <3>1. <<Field(f)>> \in {<<Field(k)>> : k \in told}
      OBVIOUS
    <3>2. SerializeModel(source, columns)[<<Field(f)>>] = Value(source, <<Field(f)>>[1].key)
      BY <3>1 DEF SerializeModel
    <3> QED BY <2>3, <3>2
  <2> HIDE DEF told
  <2> QED BY <2>1, <2>2, <2>4
<1>3. /\ values.oldValues = SerializeModel(r.original, columns)
      /\ values.newValues = SerializeModel(r.attributes, columns)
  BY DEF BuildUpdateSnapshot, columns
<1> HIDE DEF values
<1>4. {f \in Columns : <<Field(f)>> \in DOMAIN values.newValues} = told
  BY <1>1, <1>2, <1>3
<1>5. /\ {f \in Columns \ (Hidden \cup Excluded) : r.original[f] # r.attributes[f]} \subseteq told
      /\ told \cap (Hidden \cup Excluded) = {}
  BY <1>1
<1>6. ASSUME NEW f \in told
      PROVE  /\ r.attributes[f] \notin Dates => values.newValues[<<Field(f)>>].of = r.attributes[f]
             /\ r.original[f] \notin Dates => values.oldValues[<<Field(f)>>].of = r.original[f]
  <2>1. /\ values.newValues[<<Field(f)>>] = Value(r.attributes, f)
        /\ values.oldValues[<<Field(f)>>] = Value(r.original, f)
    BY <1>2, <1>3
  <2>2. ASSUME NEW source, source[f] \notin Dates PROVE Value(source, f).of = source[f]
    BY <2>2 DEF Clear, Leaf
  <2> HIDE DEF Value
  <2> QED BY <2>1, <2>2
<1> HIDE DEF told
<1>7. ASSUME NEW new PROVE TellsChange(values, r.original, r.attributes, new)
  <2>1. PICK settled : settled = {f \in Columns : r.attributes[f] = new[f]}
    OBVIOUS
  <2>2. {f \in settled \ (Hidden \cup Excluded) : r.original[f] # new[f]} \subseteq told
    BY <1>5, <2>1
  <2>3. ASSUME NEW f \in told \cap settled
        PROVE  /\ new[f] \notin Dates => values.newValues[<<Field(f)>>].of = new[f]
               /\ r.original[f] \notin Dates => values.oldValues[<<Field(f)>>].of = r.original[f]
    <3>1. f \in told /\ r.attributes[f] = new[f]
      BY <2>1, <2>3
    <3> QED BY <1>6, <3>1
  <2> QED BY <1>4, <1>5, <2>1, <2>2, <2>3 DEF TellsChange
<1> QED BY <1>7 DEF values, Tells

\* Between the two awaits.
LEMMA ResolvedKeeps ==
    ASSUME NEW k, DOMAIN k = CallFields, NEW context, NEW actor, NEW r, r = Resolved(k, context, actor)
    PROVE  /\ DOMAIN r = CallFields /\ r.at \in {"failed", "encrypting"}
           /\ r.ref = k.ref /\ r.origin = k.origin /\ r.seen = k.seen /\ r.input = k.input /\ r.by = k.by /\ r.model = k.model
           /\ r.key = k.key
           /\ r.at = "encrypting" =>
                /\ r.actor = actor /\ r.request = context.request /\ r.tenant = context.tenant
                /\ r.tenant # BadTenant
                /\ r.stream = StreamOf(r.tenant) /\ (config.streamBy = "tenant" => r.tenant # NoTenant)
                /\ \A s \in Slots : r.event[s] = RedactAll(k.input[s], k)
<1>1. CASE r = [k EXCEPT !.at = "failed"]
  <2>1. /\ DOMAIN r = CallFields /\ r.at = "failed" /\ r.ref = k.ref /\ r.origin = k.origin /\ r.seen = k.seen
        /\ r.input = k.input /\ r.by = k.by /\ r.model = k.model /\ r.key = k.key
    BY <1>1 DEF CallFields
  <2> QED BY <2>1
<1>2. CASE r # [k EXCEPT !.at = "failed"]
  <2>1. /\ context.tenant # BadTenant /\ ~(config.streamBy = "tenant" /\ context.tenant = NoTenant)
        /\ r = [k EXCEPT !.at = "encrypting", !.actor = actor, !.request = context.request,
                         !.tenant = context.tenant,
                         !.stream = StreamOf(context.tenant),
                         !.event = [s \in Slots |-> RedactAll(k.input[s], k)]]
    BY <1>2 DEF Resolved
  <2>2. /\ DOMAIN r = CallFields /\ r.at = "encrypting" /\ r.ref = k.ref /\ r.origin = k.origin /\ r.seen = k.seen
        /\ r.input = k.input /\ r.by = k.by /\ r.model = k.model /\ r.key = k.key
        /\ r.actor = actor /\ r.request = context.request /\ r.tenant = context.tenant
        /\ r.stream = StreamOf(context.tenant)
        /\ r.event = [s \in Slots |-> RedactAll(k.input[s], k)]
    BY <2>1 DEF CallFields
  <2> QED BY <2>1, <2>2
<1> QED BY <1>1, <1>2

\* From the second await on.
LEMMA SubmitMakes ==
    ASSUME CallsOk, NEW c \in Calls, Submit(c)
    PROVE  LET k == call[c]
               key == IF ~HasSubject(k) THEN NoKey
                      ELSE IF keys[SubjectOf(k)] # NoKey THEN keys[SubjectOf(k)] ELSE made + 1
               sealed == [s \in Slots |-> IF key = NoKey THEN k.event[s] ELSE Encrypt(k.event[s], key)]
           IN  \E new :
                 /\ call' = [call EXCEPT ![c] = new]
                 /\ DOMAIN new = CallFields /\ new.at \in {"failed", "stored", "undeliverable"}
                 /\ new.ref = k.ref /\ new.origin = k.origin /\ new.seen = k.seen
                 /\ new.input = k.input /\ new.by = k.by
                 /\ new.model = k.model /\ new.actor = k.actor /\ new.request = k.request
                 /\ new.tenant = k.tenant /\ new.stream = k.stream
                 /\ new.key = key \/ (new.key = k.key /\ new.at = "failed")
                 /\ Assembled(new) =>
                      /\ new.plain = k.event
                      /\ \/ \A s \in Slots : new.event[s] = MaybeTruncate(sealed[s])
                         \/ \A s \in Slots : new.event[s] = JsonClone(MaybeTruncate(sealed[s]))
<1> DEFINE k == call[c]
           key == IF ~HasSubject(k) THEN NoKey ELSE IF keys[SubjectOf(k)] # NoKey THEN keys[SubjectOf(k)] ELSE made + 1
           sealed == [s \in Slots |-> IF key = NoKey THEN k.event[s] ELSE Encrypt(k.event[s], key)]
           cut == [s \in Slots |-> MaybeTruncate(sealed[s])]
           assembled == [k EXCEPT !.key = key, !.plain = k.event, !.event = cut]
           failed == [k EXCEPT !.at = "failed"]
           Same(new) == /\ new.ref = k.ref /\ new.origin = k.origin /\ new.seen = k.seen
                         /\ new.input = k.input /\ new.by = k.by
                         /\ new.model = k.model /\ new.actor = k.actor /\ new.request = k.request
                         /\ new.tenant = k.tenant /\ new.stream = k.stream
<1>1. CallOk(k) /\ k.at = "encrypting"
  BY DEF Submit, CallsOk, NoCall
<1>2. DOMAIN k = CallFields
  BY <1>1 DEF CallOk
<1>3. PICK inTransaction \in BOOLEAN :
        \/ call' = [call EXCEPT ![c] = failed]
        \/ call' = [call EXCEPT ![c] = Delivered(Submitted(assembled, inTransaction))]
  BY DEF Submit
<1>4. /\ DOMAIN failed = CallFields /\ failed.at = "failed" /\ Same(failed) /\ failed.key = k.key
  BY <1>2 DEF CallFields
<1>5. /\ DOMAIN assembled = CallFields /\ Same(assembled) /\ assembled.key = key
      /\ assembled.plain = k.event /\ assembled.event = cut
  <2> HIDE DEF k, key, cut
  <2> QED BY <1>2 DEF CallFields
<1> DEFINE submitted == Submitted(assembled, inTransaction)
<1> HIDE DEF assembled, cut, key, failed
<1>6. /\ DOMAIN submitted = CallFields /\ Same(submitted) /\ submitted.key = key /\ submitted.plain = k.event
      /\ submitted.at \in {"buffered", "failed", "intent"}
      /\ submitted.event = cut \/ submitted.event = [s \in Slots |-> JsonClone(cut[s])]
  <2>1. CASE submitted = [assembled EXCEPT !.at = "buffered"] \/ submitted = [assembled EXCEPT !.at = "failed"]
    BY <1>5, <2>1 DEF CallFields
  <2>2. CASE submitted = [assembled EXCEPT !.at = "intent", !.event = [s \in Slots |-> JsonClone(assembled.event[s])]]
    BY <1>5, <2>2 DEF CallFields
  <2> QED BY <2>1, <2>2 DEF Submitted
<1> DEFINE delivered == Delivered(submitted)
<1> HIDE DEF submitted
<1>7. /\ DOMAIN delivered = CallFields /\ Same(delivered) /\ delivered.key = key /\ delivered.plain = k.event
      /\ delivered.at \in {"failed", "stored", "undeliverable"} /\ delivered.event = submitted.event
  <2>1. CASE delivered = submitted /\ submitted.at = "failed"
    BY <1>6, <2>1
  <2>2. CASE delivered = [submitted EXCEPT !.at = "undeliverable"]
    BY <1>6, <2>2 DEF CallFields
  <2>3. CASE \E store : delivered = [submitted EXCEPT !.at = "stored", !.store = store]
    BY <1>6, <2>3 DEF CallFields
  <2> QED BY <1>6, <2>1, <2>2, <2>3 DEF Delivered
<1> HIDE DEF delivered
<1>8. \/ \A s \in Slots : delivered.event[s] = MaybeTruncate(sealed[s])
      \/ \A s \in Slots : delivered.event[s] = JsonClone(MaybeTruncate(sealed[s]))
  BY <1>6, <1>7 DEF cut
<1> HIDE DEF sealed
<1>9. CASE call' = [call EXCEPT ![c] = failed]
  BY <1>4, <1>9 DEF Assembled, sealed, key
<1>10. CASE call' = [call EXCEPT ![c] = delivered]
  BY <1>7, <1>8, <1>10 DEF sealed, key
<1> QED BY <1>3, <1>9, <1>10 DEF delivered, submitted

LEMMA EventInit == ASSUME Init PROVE EventInv
<1>1. ScopesOk
  BY DEF Init, ScopesOk
<1>2. RowsTell
  BY DEF Init, RowsTell, RowTells
<1>3. EventsTold
  BY DEF Init, EventsTold
<1> QED BY <1>1, <1>2, <1>3 DEF EventInv

\* A step of one call; a call that it starts, by a task, takes hold of the task's context.
LEMMA CallTells ==
    ASSUME CallsOk, EventInv, NEW c \in Calls, NEW new, call' = [call EXCEPT ![c] = new],
           UNCHANGED <<config, depth, scope>>,
           SeenOk(new, c[1], scope), ContextTold(new, c[1]),
           c[2] = "model" => ChangeTold(new, row'[c[1]]),
           \A e \in Calls : call[e] # NoCall /\ e[2] = "model" => row'[e[1]] = row[e[1]]
    PROVE  EventsTold'
<1>1. /\ call'[c] = new /\ \A e \in Calls \ {c} : call'[e] = call[e]
      /\ DOMAIN call = Calls
  BY DEF CallsOk
<1>2. \A k, t : ContextTold(k, t)' <=> ContextTold(k, t)
  BY DEF ContextTold, TellsContext, ActorsOf, UserActors, StreamOf
<1>3. SUFFICES ASSUME NEW e \in Calls, call'[e] # NoCall
               PROVE  /\ SeenOk(call'[e], e[1], scope) /\ ContextTold(call'[e], e[1])
                      /\ e[2] = "model" => ChangeTold(call'[e], row'[e[1]])
  BY <1>2, ZenonT(40) DEF EventsTold, SeenOk, Held, ChangeTold, TellsChange
<1>4. CASE e = c
  BY <1>1, <1>4
<1>5. CASE e # c
  BY <1>1, <1>3, <1>5 DEF EventInv, EventsTold
<1> QED BY <1>4, <1>5

LEMMA BeginTells ==
    ASSUME CallsOk, EventInv, NEW c \in Calls, c[1] \in Tasks, NEW input, DOMAIN input = Slots,
           NEW by, NEW model, Begin(c, input, by, model), UNCHANGED <<config, depth, scope>>,
           NEW r1, r1 = row'[c[1]],
           c[2] = "model" => r1.phase = "over" /\ TellsChange(input, r1.saved[1], r1.saved[2], r1.saved[3]),
           \A e \in Calls : call[e] # NoCall /\ e[2] = "model" => row'[e[1]] = row[e[1]]
    PROVE  EventsTold'
<1> DEFINE t == c[1]
           here == IF depth[t] = 0 THEN NoContext ELSE scope[t][depth[t]]
           k == [at |-> "actor", ref |-> depth[t], origin |-> here, seen |-> {here}, input |-> input, by |-> by, model |-> model,
                 actor |-> System, request |-> NoRequest, tenant |-> NoTenant, stream |-> "default",
                 event |-> input, plain |-> input, key |-> NoKey, store |-> Nowhere]
           new == IF by = NoActor THEN k ELSE Resolved(k, here, by)
<1>1. call' = [call EXCEPT ![c] = new]
  BY DEF Begin
<1>2. /\ DOMAIN k = CallFields /\ k.at = "actor" /\ k.ref = depth[t] /\ k.origin = here /\ k.seen = {here}
      /\ k.input = input /\ k.by = by
  BY DEF CallFields
<1>3. depth[t] \in 0..2 /\ (depth[t] # 0 => DOMAIN scope[t][depth[t]] = ContextFields)
  BY DEF EventInv, ScopesOk
<1> HIDE DEF k
<1>4. SeenOk(k, t, scope)
  BY <1>2, <1>3 DEF SeenOk, Held
<1>5. PICK r : r = Resolved(k, here, by)
  OBVIOUS
<1>6. DOMAIN k = CallFields
  BY <1>2
<1> HIDE DEF here
<1>7. /\ r.at \in {"failed", "encrypting"}
      /\ r.ref = k.ref /\ r.origin = k.origin /\ r.seen = k.seen /\ r.input = k.input /\ r.by = k.by
      /\ r.at = "encrypting" =>
            /\ r.actor = by /\ r.request = here.request /\ r.tenant = here.tenant
            /\ r.tenant # BadTenant
            /\ r.stream = StreamOf(r.tenant) /\ (config.streamBy = "tenant" => r.tenant # NoTenant)
  BY <1>5, <1>6, ResolvedKeeps
<1>8. new = IF by = NoActor THEN k ELSE r
  BY <1>5
<1> HIDE DEF new
<1>9. new.ref = k.ref /\ new.origin = k.origin /\ new.seen = k.seen /\ new.input = k.input /\ new.by = by
  BY <1>2, <1>7, <1>8
<1>10. SeenOk(new, t, scope)
  BY <1>2, <1>4, <1>9 DEF SeenOk, Held
<1>11. ContextTold(new, t)
  <2>1. CASE by = NoActor
    BY <1>2, <1>8, <2>1 DEF ContextTold
  <2>2. CASE by # NoActor
    BY <1>2, <1>7, <1>8, <2>2 DEF ContextTold, TellsContext
  <2> QED BY <2>1, <2>2
<1>12. c[2] = "model" => ChangeTold(new, row'[t])
  BY <1>2, <1>9 DEF ChangeTold
<1>13. call' = [call EXCEPT ![c] = new]
  BY <1>1 DEF new
<1> QED BY <1>10, <1>11, <1>12, <1>13, CallTells

\* A step beside the calls and the rows, which enters or leaves a context.
LEMMA ContextsTell ==
    ASSUME EventInv, ScopesOk', UNCHANGED <<config, call, row>>,
           \A t \in Tasks, d \in 1..2 : DOMAIN scope[t][d] = ContextFields => scope'[t][d] = scope[t][d]
    PROVE  EventInv'
<1>1. RowsTell'
  BY DEF EventInv, RowsTell
<1>2. ASSUME NEW c \in Calls, call[c] # NoCall PROVE SeenOk(call[c], c[1], scope')
  <2>1. SeenOk(call[c], c[1], scope) /\ c[1] \in Tasks
    BY <1>2 DEF EventInv, EventsTold, Calls
  <2> QED BY <2>1 DEF SeenOk, Held
<1>3. \A k, t : ContextTold(k, t)' <=> ContextTold(k, t)
  BY DEF ContextTold, TellsContext, ActorsOf, UserActors, StreamOf
<1>4. EventsTold'
  BY <1>2, <1>3, ZenonT(40) DEF EventInv, EventsTold, SeenOk, Held, ChangeTold, TellsChange
<1> QED BY <1>1, <1>4 DEF EventInv

\* A call that is under way stays known.
LEMMA CallsStay == ASSUME IInv, [Next]_vars, NEW c \in Calls, call[c] # NoCall PROVE call'[c] # NoCall
<1>1. DOMAIN call = Calls /\ \A k : DOMAIN k = CallFields => k # NoCall
  BY DEF IInv, CallsOk, CallFields, NoCall
<1>2. CASE UNCHANGED call
  BY <1>2
<1>3. ASSUME NEW e \in Calls, NEW new, DOMAIN new = CallFields, call' = [call EXCEPT ![e] = new] PROVE call'[c] # NoCall
  BY <1>1, <1>3
<1>4. ASSUME NEW e \in Calls, NEW input, NEW by, NEW model, Begin(e, input, by, model) PROVE call'[c] # NoCall
  <2>1. call[e] = NoCall /\ \E new : call' = [call EXCEPT ![e] = new]
    BY <1>4 DEF Begin
  <2> QED BY <1>1, <2>1
<1>5. CASE \E e \in Calls : ResolveActor(e)
  <2>1. PICK e \in Calls : ResolveActor(e)
    BY <1>5
  <2>2. PICK actor, new : /\ call[e].at = "actor" /\ new = Resolved(call[e], ContextOf(e), actor)
                          /\ call' = [call EXCEPT ![e] = new]
    BY <1>1, <2>1 DEF ResolveActor
  <2>3. DOMAIN call[e] = CallFields
    BY <2>2 DEF IInv, CallsOk, CallOk, NoCall
  <2>4. DOMAIN new = CallFields
    BY <2>2, <2>3, ResolvedKeeps
  <2> QED BY <1>3, <2>2, <2>4
<1>6. CASE \E e \in Calls : Submit(e)
  BY <1>3, <1>6, SubmitMakes DEF IInv
<1>7. CASE \E t \in config.patchers : Set(t)
  <2>1. PICK t, d, context : call' = Seen(t, d, context)
    BY <1>7 DEF Set
  <2>2. DOMAIN call[c] = CallFields
    BY DEF IInv, CallsOk, CallOk
  <2>3. call'[c] = call[c] \/ call'[c] = [call[c] EXCEPT !.seen = @ \cup {context}]
    BY <2>1, SeenIs
  <2> QED BY <1>1, <2>2, <2>3
<1>8. CASE \/ \E t \in config.loggers : Log(t)
           \/ \E t \in Requests \cap config.loggers : AuthEvent(t)
           \/ \E t \in config.savers : AfterUpdate(t)
  <2>1. \A t \in config.loggers \cup config.savers : t \in Tasks
    BY ConfigsAssumption DEF IInv
  <2>2. \A t \in Tasks : <<t, "own">> \in Calls /\ <<t, "auth">> \in Calls /\ <<t, "model">> \in Calls
    BY DEF Calls
  <2> QED BY <1>2, <1>4, <1>8, <2>1, <2>2 DEF Log, AuthEvent, AfterUpdate
<1> QED BY <1>2, <1>5, <1>6, <1>7, <1>8
        DEF Next, vars, Start, Shutdown, Handle, WithinContext, Run, Leave, Assign, BeforeUpdate, Update, Forget

\* What the statement changes has an event when the after hook has taken the snapshot.
LEMMA ChangesNext == ASSUME IInv, EventInv, ChangesTold, [Next]_vars PROVE ChangesTold'
<1>1. DOMAIN row = Tasks /\ \A t \in Tasks : DOMAIN row[t] = RowFields
  BY DEF IInv, RowsOk
<1>2. ASSUME NEW t \in Tasks PROVE row'[t].phase = "over" /\ Changed(row'[t].saved) => call'[<<t, "model">>] # NoCall
  <2>1. PICK c \in Calls : c = <<t, "model">>
    BY DEF Calls
  <2>2. CASE row'[t] = row[t]
    BY <2>1, <2>2, CallsStay DEF ChangesTold
  <2>3. CASE AfterUpdate(t)
    <3>1. PICK r, values : r = row[t] /\ values = r.snapshot
      OBVIOUS
    <3>2. /\ r.phase = "saved" /\ row' = [row EXCEPT ![t].snapshot = NoSnapshot, ![t].phase = "over"]
          /\ DOMAIN values.newValues = {} \/ \E input : Begin(c, input, NoActor, TRUE)
      BY <2>1, <2>3, <3>1 DEF AfterUpdate
    <3>3. row'[t].saved = r.saved
      BY <1>1, <3>1, <3>2 DEF RowFields
    <3>4. TellsChange(values, r.saved[1], r.saved[2], r.saved[3])
      BY <3>1, <3>2 DEF EventInv, RowsTell, RowTells
    <3>5. ASSUME Changed(r.saved) PROVE DOMAIN values.newValues # {}
      <4>1. PICK f \in Columns \ (Hidden \cup Excluded) : r.saved[2][f] = r.saved[3][f] /\ r.saved[1][f] # r.saved[3][f]
        BY <3>5 DEF Changed
      <4> QED BY <3>4, <4>1 DEF TellsChange
    <3>6. ASSUME NEW input, Begin(c, input, NoActor, TRUE) PROVE call'[c] # NoCall
      <4>1. DOMAIN call = Calls
        BY DEF IInv, CallsOk
      <4>2. PICK here : call' = [call EXCEPT ![c] =
              [at |-> "actor", ref |-> depth[c[1]], origin |-> here, seen |-> {here}, input |-> input, by |-> NoActor,
               model |-> TRUE, actor |-> System, request |-> NoRequest, tenant |-> NoTenant, stream |-> "default",
               event |-> input, plain |-> input, key |-> NoKey, store |-> Nowhere]]
        BY <3>6 DEF Begin
      <4> QED BY <4>1, <4>2 DEF NoCall
    <3> QED BY <2>1, <3>2, <3>3, <3>5, <3>6
  <2>4. CASE Assign(t) \/ BeforeUpdate(t) \/ Update(t)
    <3>1. row'[t].phase \in {"idle", "saving", "saved"} \/ (row'[t].phase = row[t].phase /\ row[t].phase # "over")
      BY <1>1, <2>4 DEF Assign, BeforeUpdate, Update, RowFields
    <3> QED BY <3>1
  <2>5. CASE \E u \in Tasks \ {t} : Assign(u) \/ BeforeUpdate(u) \/ Update(u) \/ AfterUpdate(u)
    <3>1. row'[t] = row[t]
      BY <1>1, <2>5 DEF Assign, BeforeUpdate, Update, AfterUpdate
    <3> QED BY <2>2, <3>1
  <2>6. \A u \in config.savers : u \in Tasks
    BY ConfigsAssumption DEF IInv
  <2>7. CASE UNCHANGED row
    BY <2>2, <2>7
  <2> QED BY <2>3, <2>4, <2>5, <2>6, <2>7
          DEF Next, vars, Start, Shutdown, Handle, WithinContext, Run, Leave, Set, Log, AuthEvent, ResolveActor, Submit, Forget
<1>3. \A t \in Tasks : Changed(row'[t].saved) <=> Changed(row[t].saved)'
  BY DEF Changed
<1> QED BY <1>2, <1>3 DEF ChangesTold

LEMMA EventNext == ASSUME IInv, EventInv, [Next]_vars PROVE EventInv'
<1>1. CallsOk /\ RowsOk /\ config \in Configs /\ ScopesOk /\ RowsTell /\ EventsTold
  BY DEF IInv, EventInv
<1>2. ASSUME UNCHANGED <<config, call, row, depth, scope>> PROVE EventInv'
  <2>1. ScopesOk'
    BY <1>1, <1>2 DEF ScopesOk
  <2> QED BY <1>2, <2>1, ContextsTell
<1>3. CASE \/ Start \/ Shutdown \/ UNCHANGED vars
           \/ \E s \in Subjects : Forget(s)
  BY <1>2, <1>3 DEF Start, Shutdown, vars, Forget
<1>4. \A t \in config.loggers \cup config.patchers \cup config.savers : t \in Tasks
  BY <1>1, ConfigsAssumption
<1>5. ASSUME NEW t \in Tasks, NEW context, DOMAIN context = ContextFields, Run(t, context),
             scope[t][depth[t] + 1] = NotEntered, depth[t] \in 0..1
      PROVE  EventInv'
  <2>1. /\ depth' = [depth EXCEPT ![t] = depth[t] + 1]
        /\ scope' = [scope EXCEPT ![t][depth[t] + 1] = context]
        /\ UNCHANGED <<config, call, row>>
    BY <1>5 DEF Run
  <2>2. /\ depth'[t] = depth[t] + 1 /\ \A u \in Tasks \ {t} : depth'[u] = depth[u] /\ scope'[u] = scope[u]
        /\ DOMAIN scope'[t] = 1..2 /\ scope'[t][depth[t] + 1] = context
        /\ \A d \in (1..2) \ {depth[t] + 1} : scope'[t][d] = scope[t][d]
        /\ DOMAIN depth' = Tasks /\ DOMAIN scope' = Tasks
    BY <1>1, <1>5, <2>1 DEF ScopesOk
  <2>3. ScopesOk'
    <3>1. ASSUME NEW d \in 1..depth'[t] PROVE DOMAIN scope'[t][d] = ContextFields
      <4>1. d = depth[t] + 1 \/ d \in 1..depth[t]
        BY <1>5, <2>2
      <4> QED BY <1>1, <1>5, <2>2, <4>1 DEF ScopesOk
    <3>2. ASSUME NEW d \in 1..2 PROVE scope'[t][d] = NotEntered \/ DOMAIN scope'[t][d] = ContextFields
      BY <1>1, <1>5, <2>2 DEF ScopesOk
    <3> QED BY <1>1, <1>5, <2>2, <3>1, <3>2 DEF ScopesOk
  <2>4. DOMAIN NotEntered # ContextFields
    BY DEF NotEntered, ContextFields
  <2>5. ASSUME NEW u \in Tasks, NEW d \in 1..2, DOMAIN scope[u][d] = ContextFields
        PROVE  scope'[u][d] = scope[u][d]
    BY <1>5, <2>2, <2>4, <2>5
  <2> QED BY <2>1, <2>3, <2>5, ContextsTell
<1>6. CASE \E t \in Requests \cap config.loggers : Handle(t)
  <2>1. PICK t \in Requests, tenant \in Resolvable :
           /\ depth[t] = 0 /\ scope[t][1] = NotEntered
           /\ Run(t, [request |-> t, tenant |-> tenant, actor |-> Lazy])
    BY <1>6 DEF Handle
  <2>2. t \in Tasks /\ DOMAIN [request |-> t, tenant |-> tenant, actor |-> Lazy] = ContextFields
    BY DEF Tasks, ContextFields
  <2> QED BY <1>5, <2>1, <2>2
<1>7. CASE \E t \in config.loggers : WithinContext(t)
  <2>1. PICK t \in Tasks, s \in Scopes :
           /\ depth[t] \in 0..1 /\ scope[t][depth[t] + 1] = NotEntered
           /\ Run(t, [request |-> NoRequest, tenant |-> s.tenant, actor |-> s.actor])
    BY <1>7, <1>4 DEF WithinContext
  <2>2. DOMAIN [request |-> NoRequest, tenant |-> s.tenant, actor |-> s.actor] = ContextFields
    BY DEF ContextFields
  <2> QED BY <1>5, <2>1, <2>2
<1>8. CASE \E t \in config.loggers : Leave(t)
  <2>1. PICK t \in Tasks : depth[t] > 0 /\ depth' = [depth EXCEPT ![t] = @ - 1]
    BY <1>8, <1>4 DEF Leave
  <2>2. UNCHANGED <<config, call, row, scope>>
    BY <1>8, <1>4 DEF Leave
  <2>3. ScopesOk'
    BY <1>1, <2>1, <2>2 DEF ScopesOk
  <2> QED BY <2>2, <2>3, ContextsTell
<1>9. CASE \E t \in config.patchers : Set(t)
  <2>1. PICK t \in Tasks, d \in 1..2, patch \in Patches :
          /\ scope[t][d] # NotEntered
          /\ scope' = [scope EXCEPT ![t][d] = Patched(scope[t][d], patch)]
          /\ call' = Seen(t, d, Patched(scope[t][d], patch))
          /\ UNCHANGED <<config, row, depth>>
    BY <1>9, <1>4 DEF Set
  <2>2. PICK context :
           /\ scope[t][d] # NotEntered /\ context = Patched(scope[t][d], patch)
           /\ scope' = [scope EXCEPT ![t][d] = context] /\ call' = Seen(t, d, context)
           /\ UNCHANGED <<config, row, depth>>
    BY <2>1
  <2>3. DOMAIN scope[t][d] = ContextFields /\ DOMAIN context = ContextFields /\ DOMAIN scope[t] = 1..2
    BY <1>1, <2>2 DEF ScopesOk, Patched
  <2>4. /\ DOMAIN scope' = Tasks /\ \A u \in Tasks \ {t} : scope'[u] = scope[u]
        /\ DOMAIN scope'[t] = 1..2 /\ scope'[t][d] = context
        /\ \A e \in (1..2) \ {d} : scope'[t][e] = scope[t][e]
    BY <1>1, <2>2, <2>3 DEF ScopesOk
  <2>5. ASSUME NEW u \in Tasks
        PROVE  /\ depth'[u] \in 0..2 /\ DOMAIN scope'[u] = 1..2
               /\ \A e \in 1..2 : scope'[u][e] = NotEntered \/ DOMAIN scope'[u][e] = ContextFields
               /\ \A e \in 1..depth'[u] : DOMAIN scope'[u][e] = ContextFields
    BY <1>1, <2>2, <2>3, <2>4 DEF ScopesOk
  <2>6. ScopesOk'
    BY <1>1, <2>2, <2>4, <2>5 DEF ScopesOk
  <2>7. RowsTell'
    BY <1>1, <2>2 DEF RowsTell
  <2>8. ASSUME NEW c \in Calls, call'[c] # NoCall
        PROVE  /\ SeenOk(call'[c], c[1], scope') /\ ContextTold(call'[c], c[1])
               /\ c[2] = "model" => ChangeTold(call'[c], row[c[1]])
    <3>1. PICK k, new : k = call[c] /\ new = call'[c]
      OBVIOUS
    <3>2. \/ new = k /\ ~(c[1] = t /\ k.at = "actor" /\ k.ref = d)
          \/ /\ c[1] = t /\ k.at = "actor" /\ k.ref = d
             /\ new = [k EXCEPT !.seen = @ \cup {context}]
      BY <2>2, <3>1, SeenIs
    <3>3. k # NoCall /\ DOMAIN k = CallFields
      BY <1>1, <2>8, <3>1, <3>2 DEF CallsOk, CallOk, NoCall
    <3>4. SeenOk(k, c[1], scope) /\ ContextTold(k, c[1]) /\ (c[2] = "model" => ChangeTold(k, row[c[1]])) /\ c[1] \in Tasks
      BY <1>1, <3>1, <3>3 DEF EventsTold, Calls
    <3>5. CASE new = k /\ ~(c[1] = t /\ k.at = "actor" /\ k.ref = d)
      <4>1. SeenOk(k, c[1], scope')
        BY <2>4, <3>4, <3>5 DEF SeenOk, Held
      <4> QED BY <3>1, <3>4, <3>5, <4>1
    <3>6. CASE c[1] = t /\ k.at = "actor" /\ k.ref = d /\ new = [k EXCEPT !.seen = @ \cup {context}]
      <4>1. /\ new.at = "actor" /\ new.ref = d /\ new.by = k.by /\ new.input = k.input /\ new.seen = k.seen \cup {context}
        BY <3>3, <3>6 DEF CallFields
      <4>2. SeenOk(new, t, scope')
        BY <2>3, <2>4, <4>1 DEF SeenOk, Held
      <4>3. ContextTold(new, t)
        BY <3>4, <3>6, <4>1 DEF ContextTold
      <4>4. c[2] = "model" => ChangeTold(new, row[c[1]])
        BY <3>4, <4>1 DEF ChangeTold
      <4> QED BY <3>1, <3>6, <4>2, <4>3, <4>4
    <3> QED BY <3>2, <3>5, <3>6
  <2>9. \A k, u : ContextTold(k, u)' <=> ContextTold(k, u)
    BY <2>2 DEF ContextTold, TellsContext, ActorsOf, UserActors, StreamOf
  <2>10. EventsTold'
    BY <2>2, <2>8, <2>9, ZenonT(40) DEF EventsTold, SeenOk, Held, ChangeTold, TellsChange
  <2> QED BY <2>6, <2>7, <2>10 DEF EventInv
<1>10. ASSUME UNCHANGED <<depth, scope>> PROVE ScopesOk'
  BY <1>1, <1>10 DEF ScopesOk
<1>11. ASSUME UNCHANGED <<config, row>> PROVE RowsTell'
  BY <1>1, <1>11 DEF RowsTell
<1>12. CASE \E t \in config.loggers : Log(t)
  <2>1. PICK t \in Tasks : Log(t)
    BY <1>12, <1>4
  <2>2. PICK input \in Inputs, by \in Persons \cup {NoActor} : Begin(<<t, "own">>, input, by, FALSE)
    BY <2>1 DEF Log
  <2>3. UNCHANGED <<config, depth, scope, row>>
    BY <2>1 DEF Log
  <2>4. <<t, "own">> \in Calls /\ <<t, "own">>[1] \in Tasks /\ <<t, "own">>[2] # "model" /\ DOMAIN input = Slots
    BY InputsAssumption DEF Calls
  <2>5. EventsTold'
    BY <1>1, <2>2, <2>3, <2>4, BeginTells
  <2> QED BY <1>10, <1>11, <2>3, <2>5 DEF EventInv
<1>13. CASE \E t \in Requests \cap config.loggers : AuthEvent(t)
  <2>1. PICK t \in Requests : AuthEvent(t)
    BY <1>13
  <2>2. PICK by : Begin(<<t, "auth">>, AuthInput, by, FALSE)
    BY <2>1 DEF AuthEvent
  <2>3. UNCHANGED <<config, depth, scope, row>>
    BY <2>1 DEF AuthEvent
  <2>4. <<t, "auth">> \in Calls /\ <<t, "auth">>[1] \in Tasks /\ <<t, "auth">>[2] # "model"
        /\ DOMAIN AuthInput = Slots
    BY InputsAssumption DEF Calls, Tasks
  <2>5. EventsTold'
    BY <1>1, <2>2, <2>3, <2>4, BeginTells
  <2> QED BY <1>10, <1>11, <2>3, <2>5 DEF EventInv
<1>14. ASSUME NEW t \in Tasks, NEW r, row' = [row EXCEPT ![t] = r], row[t].phase # "over",
              RowTells(r),
              UNCHANGED <<config, depth, scope>>
       PROVE  /\ RowsTell' /\ row'[t] = r
              /\ \A c \in Calls : call[c] # NoCall /\ c[2] = "model" => c[1] # t /\ row'[c[1]] = row[c[1]]
  <2>1. row'[t] = r /\ \A u \in Tasks \ {t} : row'[u] = row[u]
    BY <1>1, <1>14 DEF RowsOk
  <2>2. \A u \in Tasks : RowTells(row'[u])
    BY <1>1, <1>14, <2>1 DEF RowsTell
  <2>3. RowsTell'
    BY <2>2, ZenonT(40) DEF RowsTell, RowTells, Tells, TellsChange
  <2>4. \A c \in Calls : call[c] # NoCall /\ c[2] = "model" => c[1] # t /\ c[1] \in Tasks
    BY <1>1, <1>14 DEF EventsTold, ChangeTold, Calls
  <2> QED BY <2>1, <2>3, <2>4
<1>15. ASSUME NEW t \in Tasks, NEW r, row' = [row EXCEPT ![t] = r], row[t].phase # "over",
              RowTells(r),
              UNCHANGED <<config, call, depth, scope>>
       PROVE  EventInv'
  <2>1. /\ RowsTell'
        /\ \A c \in Calls : call[c] # NoCall /\ c[2] = "model" => row'[c[1]] = row[c[1]]
    BY <1>14, <1>15
  <2>2. EventsTold'
    <3>1. \A k, u : ContextTold(k, u)' <=> ContextTold(k, u)
      BY <1>15 DEF ContextTold, TellsContext, ActorsOf, UserActors, StreamOf
    <3>2. \A c \in Calls : call[c] # NoCall /\ c[2] = "model" => ChangeTold(call[c], row'[c[1]])
      BY <1>1, <2>1 DEF EventsTold
    <3> QED BY <1>1, <1>15, <3>1, <3>2, ZenonT(40) DEF EventsTold, SeenOk, Held, ChangeTold, TellsChange
  <2> QED BY <1>10, <1>15, <2>1, <2>2 DEF EventInv
<1>16. ASSUME NEW t \in Tasks PROVE DOMAIN row[t] = RowFields /\ DOMAIN row = Tasks
  BY <1>1 DEF RowsOk
<1>17. CASE \E t \in config.savers : Assign(t)
  <2>1. PICK t \in Tasks, a \in Rows :
           /\ row[t].phase # "over" /\ row' = [row EXCEPT ![t].attributes = a]
           /\ UNCHANGED <<config, call, depth, scope>>
    BY <1>4, <1>17 DEF Assign
  <2>2. PICK r : r = [row[t] EXCEPT !.attributes = a]
    OBVIOUS
  <2>3. /\ row' = [row EXCEPT ![t] = r] /\ r.phase = row[t].phase /\ r.snapshot = row[t].snapshot
        /\ r.original = row[t].original /\ r.hooked = row[t].hooked /\ r.saved = row[t].saved
    BY <1>16, <2>1, <2>2 DEF RowFields
  <2>4. RowTells(r)
    BY <1>1, <2>3 DEF RowsTell, RowTells
  <2> QED BY <1>15, <2>1, <2>3, <2>4
<1>18. CASE \E t \in config.savers : BeforeUpdate(t)
  <2>1. PICK t \in Tasks :
           /\ row[t].phase = "idle"
           /\ row' = [row EXCEPT ![t].snapshot = SnapshotOf(row[t]), ![t].hooked = row[t].attributes,
                                 ![t].phase = "saving"]
           /\ UNCHANGED <<config, call, depth, scope>>
    BY <1>4, <1>18 DEF BeforeUpdate
  <2>2. PICK r : r = [row[t] EXCEPT !.snapshot = SnapshotOf(row[t]), !.hooked = row[t].attributes, !.phase = "saving"]
    OBVIOUS
  <2>3. /\ row' = [row EXCEPT ![t] = r] /\ r.phase = "saving" /\ r.snapshot = BuildUpdateSnapshot(row[t])
        /\ r.original = row[t].original /\ r.hooked = row[t].attributes
    BY <1>16, <2>1, <2>2 DEF RowFields, SnapshotOf
  <2>4. RowTells(r)
    BY <2>3, SnapshotTells DEF RowTells
  <2> QED BY <1>15, <2>1, <2>3, <2>4
<1>19. CASE \E t \in config.savers : Update(t)
  <2>1. PICK t \in Tasks : Update(t)
    BY <1>4, <1>19
  <2>2. row[t].phase = "saving" /\ UNCHANGED <<config, call, depth, scope>>
    BY <2>1 DEF Update
  <2>3. CASE row' = [row EXCEPT ![t].phase = "saved", ![t].original = row[t].attributes,
                                ![t].saved = <<row[t].original, row[t].hooked, row[t].attributes>>]
    <3>1. PICK r : r = [row[t] EXCEPT !.phase = "saved", !.original = row[t].attributes,
                                      !.saved = <<row[t].original, row[t].hooked, row[t].attributes>>]
      OBVIOUS
    <3>2. row' = [row EXCEPT ![t] = r] /\ r.phase = "saved" /\ r.snapshot = row[t].snapshot
          /\ r.saved = <<row[t].original, row[t].hooked, row[t].attributes>>
      BY <1>16, <2>3, <3>1 DEF RowFields
    <3>3. r.saved[1] = row[t].original /\ r.saved[2] = row[t].hooked /\ r.saved[3] = row[t].attributes
      BY <3>2
    <3>4. TellsChange(row[t].snapshot, row[t].original, row[t].hooked, row[t].attributes)
      <4>1. Tells(row[t].snapshot, row[t].original, row[t].hooked)
        BY <1>1, <2>2 DEF RowsTell, RowTells
      <4> QED BY <4>1 DEF Tells
    <3>5. RowTells(r)
      BY <3>2, <3>3, <3>4 DEF RowTells
    <3> QED BY <1>15, <2>2, <3>2, <3>5
  <2>4. CASE \/ row' = [row EXCEPT ![t].phase = "idle"]
             \/ row' = [row EXCEPT ![t].phase = "idle", ![t].failed = TRUE]
    <3>1. PICK r : /\ row' = [row EXCEPT ![t] = r] /\ r.phase = "idle"
      BY <1>16, <2>4 DEF RowFields
    <3>2. RowTells(r)
      BY <3>1 DEF RowTells
    <3> QED BY <1>15, <2>2, <3>1, <3>2
  <2> QED BY <2>1, <2>3, <2>4 DEF Update
<1>20. CASE \E t \in config.savers : AfterUpdate(t)
  <2>1. PICK t \in Tasks : AfterUpdate(t)
    BY <1>4, <1>20
  <2>2. /\ row[t].phase = "saved" /\ row' = [row EXCEPT ![t].snapshot = NoSnapshot, ![t].phase = "over"]
        /\ UNCHANGED <<config, depth, scope>>
    BY <2>1 DEF AfterUpdate
  <2>3. PICK r : r = [row[t] EXCEPT !.snapshot = NoSnapshot, !.phase = "over"]
    OBVIOUS
  <2>4. row' = [row EXCEPT ![t] = r] /\ r.phase = "over" /\ r.saved = row[t].saved
    BY <1>16, <2>2, <2>3 DEF RowFields
  <2>5. RowTells(r)
    BY <2>4 DEF RowTells
  <2>6. /\ RowsTell' /\ row'[t] = r
        /\ \A c \in Calls : call[c] # NoCall /\ c[2] = "model" => c[1] # t /\ row'[c[1]] = row[c[1]]
    BY <1>14, <2>2, <2>4, <2>5
  <2>7. CASE UNCHANGED call
    BY <1>15, <2>2, <2>4, <2>7, <2>5
  <2>8. CASE ~UNCHANGED call
    <3>1. PICK input : /\ input = [s \in Slots |-> IF s = "metadata" THEN NoValues ELSE row[t].snapshot[s]]
                       /\ Begin(<<t, "model">>, input, NoActor, TRUE)
      BY <2>1, <2>8 DEF AfterUpdate
    <3>2. /\ DOMAIN input = Slots /\ input.oldValues = row[t].snapshot.oldValues
          /\ input.newValues = row[t].snapshot.newValues
      BY <3>1 DEF Slots
    <3>3. TellsChange(row[t].snapshot, row[t].saved[1], row[t].saved[2], row[t].saved[3])
      BY <1>1, <2>2 DEF RowsTell, RowTells
    <3>4. TellsChange(input, row[t].saved[1], row[t].saved[2], row[t].saved[3])
      BY <3>2, <3>3 DEF TellsChange
    <3>5. PICK c \in Calls : c = <<t, "model">>
      BY DEF Calls
    <3>6. c[1] = t /\ c[2] = "model" /\ Begin(c, input, NoActor, TRUE)
      BY <3>1, <3>5
    <3>7. r.phase = "over" /\ TellsChange(input, r.saved[1], r.saved[2], r.saved[3]) /\ r = row'[c[1]]
      BY <2>4, <2>6, <3>4, <3>6
    <3>8. EventsTold'
      BY <1>1, <2>2, <2>6, <3>2, <3>6, <3>7, BeginTells DEF EventInv
    <3> QED BY <1>10, <2>2, <2>6, <3>8 DEF EventInv
  <2> QED BY <2>7, <2>8
<1>21. CASE \E c \in Calls : ResolveActor(c)
  <2>1. PICK c \in Calls : ResolveActor(c)
    BY <1>21
  <2>2. PICK k, context : k = call[c] /\ context = ContextOf(c)
    OBVIOUS
  <2>3. k.at = "actor" /\ UNCHANGED <<config, depth, scope, row>>
    BY <2>1, <2>2 DEF ResolveActor
  <2>4. k # NoCall /\ DOMAIN k = CallFields
    BY <1>1, <2>2, <2>3 DEF NoCall, CallsOk, CallOk
  <2>5. SeenOk(k, c[1], scope) /\ ContextTold(k, c[1]) /\ (c[2] = "model" => ChangeTold(k, row[c[1]]))
    BY <1>1, <2>2, <2>4 DEF EventsTold
  <2>6. PICK actor \in ActorsOf(k.origin.actor, c[1]) :
           call' = [call EXCEPT ![c] = Resolved(k, context, actor)]
    BY <2>1, <2>2, <1>1 DEF ResolveActor, CallsOk
  <2>7. PICK r : r = Resolved(k, context, actor)
    OBVIOUS
  <2>8. /\ r.at \in {"failed", "encrypting"}
        /\ r.ref = k.ref /\ r.origin = k.origin /\ r.seen = k.seen /\ r.input = k.input /\ r.by = k.by
        /\ r.at = "encrypting" =>
              /\ r.actor = actor /\ r.request = context.request /\ r.tenant = context.tenant
              /\ r.tenant # BadTenant
              /\ r.stream = StreamOf(r.tenant) /\ (config.streamBy = "tenant" => r.tenant # NoTenant)
    BY <2>4, <2>7, ResolvedKeeps
  <2>9. context \in k.seen
    BY <2>2, <2>3, <2>5 DEF ContextOf, SeenOk, Held
  <2>10. k.by = NoActor
    BY <2>3, <2>5 DEF ContextTold
  <2>11. SeenOk(r, c[1], scope)
    BY <2>8 DEF SeenOk
  <2>12. ContextTold(r, c[1])
    BY <2>6, <2>8, <2>9, <2>10 DEF ContextTold, TellsContext
  <2>13. c[2] = "model" => ChangeTold(r, row'[c[1]])
    BY <2>3, <2>5, <2>8 DEF ChangeTold
  <2>14. EventsTold'
    <3>1. call' = [call EXCEPT ![c] = r]
      BY <2>6, <2>7
    <3> QED BY <1>1, <2>3, <2>11, <2>12, <2>13, <3>1, CallTells DEF EventInv
  <2> QED BY <1>10, <1>11, <2>3, <2>14 DEF EventInv
<1>22. CASE \E c \in Calls : Submit(c)
  <2>1. PICK c \in Calls : Submit(c)
    BY <1>22
  <2>2. PICK k : k = call[c]
    OBVIOUS
  <2>3. k.at = "encrypting" /\ UNCHANGED <<config, depth, scope, row>>
    BY <2>1, <2>2 DEF Submit
  <2>4. SeenOk(k, c[1], scope) /\ ContextTold(k, c[1]) /\ (c[2] = "model" => ChangeTold(k, row[c[1]]))
    BY <1>1, <2>2, <2>3 DEF EventsTold, NoCall
  <2>5. PICK r : /\ call' = [call EXCEPT ![c] = r]
                 /\ r.ref = k.ref /\ r.origin = k.origin /\ r.seen = k.seen /\ r.input = k.input /\ r.by = k.by
                 /\ r.actor = k.actor /\ r.request = k.request /\ r.tenant = k.tenant /\ r.stream = k.stream
                 /\ r.at \in {"failed", "stored", "undeliverable"}
    BY <1>1, <2>1, <2>2, SubmitMakes
  <2>6. SeenOk(r, c[1], scope)
    BY <2>5 DEF SeenOk
  <2>7. ContextTold(r, c[1])
    BY <2>3, <2>4, <2>5 DEF ContextTold, TellsContext
  <2>8. c[2] = "model" => ChangeTold(r, row'[c[1]])
    BY <2>3, <2>4, <2>5 DEF ChangeTold
  <2>9. EventsTold'
    BY <1>1, <2>3, <2>5, <2>6, <2>7, <2>8, CallTells DEF EventInv
  <2> QED BY <1>10, <1>11, <2>3, <2>9 DEF EventInv
<1> QED
  BY <1>3, <1>6, <1>7, <1>8, <1>9, <1>12, <1>13, <1>17, <1>18, <1>19, <1>20, <1>21, <1>22 DEF Next

\* Whatever contexts are entered, left and patched by whom, also while the actor of an
\* event is looked up, an event tells the request and tenant its context object had and
\* the actor of the context it began in, in no other tenant's chain; and what a statement
\* changes in audited columns that no hook sets after the snapshot has an event that tells
\* it, also after a save that was rejected (assembler.ts:34-142, audit_context.ts:17-31,
\* auditable.ts:48-72, 163-215).
THEOREM EventsTellTheTruth == Spec => []EventsAreTrue
<1>1. Init => IInv /\ EventInv /\ ChangesTold
  <2>1. Init => ChangesTold
    BY DEF Init, ChangesTold
  <2> QED BY <2>1, TypedInit, EventInit
<1>2. IInv /\ EventInv /\ ChangesTold /\ [Next]_vars => (IInv /\ EventInv /\ ChangesTold)'
  BY TypedNext, EventNext, ChangesNext
<1>3. EventInv /\ ChangesTold => EventsAreTrue
  <2>1. SUFFICES ASSUME EventInv, ChangesTold PROVE EventsAreTrue
    OBVIOUS
  <2>2. ASSUME NEW c \in Calls, call[c] # NoCall, Assembled(call[c])
        PROVE  /\ TellsContext(call[c], c[1]) /\ call[c].stream = StreamOf(call[c].tenant)
               /\ config.streamBy = "tenant" => call[c].tenant # NoTenant
               /\ c[2] = "model" => ChangeTold(call[c], row[c[1]])
    BY <2>1, <2>2 DEF EventInv, EventsTold, ContextTold, Assembled
  <2>3. ASSUME NEW c \in Calls, call[c] # NoCall, Assembled(call[c]), config.streamBy = "tenant",
               NEW d \in Calls, call[d] # NoCall, Assembled(call[d])
        PROVE  TenantsApart(call[c], call[d])
    BY <2>2, <2>3 DEF TenantsApart, StreamOf
  <2> QED BY <2>1, <2>2, <2>3 DEF EventsAreTrue, ChangesTold, ChangeTold
<1> QED BY <1>1, <1>2, <1>3, PTL DEF Spec

-----------------------------------------------------------------------------
(* What can be read again.                                                                   *)

\* A payload is a function, which two payloads with the same leaves have to be to be equal.
IsAFcn(payload) == payload = [p \in DOMAIN payload |-> payload[p]]

LEMMA HeadAndTail ==
    ASSUME NEW x \in Paths
    PROVE  /\ SubSeq(x, 1, 1) \in Paths /\ Len(SubSeq(x, 1, 1)) = 1
           /\ Tail(x) = SubSeq(x, 2, Len(x)) /\ SubSeq(x, 1, 1) \o Tail(x) = x
           /\ Len(x) = 1 => SubSeq(x, 1, 1) = x
<1>1. x \in Seq(Steps) /\ x # <<>> /\ Len(x) \in Nat /\ Len(x) >= 1
  BY EmptySeq DEF Paths
<1>2. SubSeq(x, 1, 1) \in Paths /\ Len(SubSeq(x, 1, 1)) = 1
  <2>1. 1 \in 1..Len(x)
    BY <1>1
  <2> QED BY <2>1, Prefixes
<1>3. Tail(x) = SubSeq(x, 2, Len(x))
  BY <1>1, TailIsSubSeq
<1>4. SubSeq(x, 1, 1) \o SubSeq(x, 2, Len(x)) = SubSeq(x, 1, Len(x))
  <2>1. 1 \in 1..Len(x) + 1 /\ 1 \in 1 - 1..Len(x) /\ Len(x) \in 1..Len(x)
    BY <1>1
  <2>2. SubSeq(x, 1, 1) \o SubSeq(x, 1 + 1, Len(x)) = SubSeq(x, 1, Len(x))
    BY <1>1, <2>1, ConcatAdjacentSubSeq
  <2> QED BY <2>2
<1>5. SubSeq(x, 1, Len(x)) = x
  BY <1>1, SubSeqFull
<1> QED BY <1>2, <1>3, <1>4, <1>5

LEMMA JoinedHead ==
    ASSUME NEW q \in Seq(Steps), Len(q) = 1, NEW s \in Seq(Steps)
    PROVE  SubSeq(q \o s, 1, 1) = q /\ Tail(q \o s) = s
<1>1. /\ q \o s \in Seq(Steps) /\ Len(q \o s) = 1 + Len(s) /\ Len(s) \in Nat
      /\ \A i \in 1..1 + Len(s) : (q \o s)[i] = IF i <= 1 THEN q[i] ELSE s[i - 1]
  <2>1. /\ q \o s \in Seq(Steps) /\ Len(q \o s) = Len(q) + Len(s)
        /\ \A i \in 1..Len(q) + Len(s) : (q \o s)[i] = IF i <= Len(q) THEN q[i] ELSE s[i - Len(q)]
    BY ConcatProperties
  <2>2. Len(s) \in Nat
    OBVIOUS
  <2> QED BY <2>1, <2>2
<1>2. SubSeq(q \o s, 1, 1) = q
  <2>1. 1 \in 1..Len(q)
    OBVIOUS
  <2>2. SubSeq(q \o s, 1, 1) = SubSeq(q, 1, 1)
    BY <2>1, SubSeqOfConcat1
  <2>3. SubSeq(q, 1, Len(q)) = q
    BY SubSeqFull
  <2> QED BY <2>2, <2>3
<1>3. /\ Tail(q \o s) \in Seq(Steps) /\ Len(Tail(q \o s)) = Len(s)
      /\ \A i \in 1..Len(s) : Tail(q \o s)[i] = (q \o s)[i + 1]
  <2>1. q \o s # <<>>
    BY <1>1
  <2> QED BY <1>1, <2>1, HeadTailProperties
<1>4. \A i \in 1..Len(s) : Tail(q \o s)[i] = s[i]
  BY <1>1, <1>3
<1>5. Tail(q \o s) = s
  BY <1>3, <1>4, SeqEqual
<1> QED BY <1>2, <1>5

\* What encryption leaves.
EncryptedAs(e, payload, key) ==
    /\ IsAFcn(e) /\ Ciphers(e) = Encrypted(payload)
    /\ DOMAIN e = Encrypted(payload) \cup {x \in DOMAIN payload : SubSeq(x, 1, 1) \notin Encrypted(payload)}
    /\ \A q \in Encrypted(payload) : /\ q \in Paths /\ Len(q) = 1 /\ q[1].key \in Fields
                                     /\ e[q].key = key /\ e[q].of = ValueAt(payload, q)
    /\ \A x \in DOMAIN e \ Encrypted(payload) : e[x] = payload[x]

LEMMA EncryptMakes ==
    ASSUME NEW payload, Uncoded(payload), NEW key
    PROVE  EncryptedAs(Encrypt(payload, key), payload, key)
<1>1. PICK e : e = Encrypt(payload, key)
  OBVIOUS
<1> DEFINE fields == Encrypted(payload)
<1>2. /\ DOMAIN e = fields \cup {x \in DOMAIN payload : SubSeq(x, 1, 1) \notin fields}
      /\ \A q \in DOMAIN e : e[q] = IF q \in fields THEN Leaf("cipher", ValueAt(payload, q), key) ELSE payload[q]
  BY <1>1 DEF Encrypt
<1>3. IsAFcn(e)
  BY <1>1 DEF Encrypt, IsAFcn
<1>4. ASSUME NEW q \in fields PROVE q \in Paths /\ Len(q) = 1 /\ q[1].key \in Fields
  <2>1. q \in Nodes(payload) /\ Len(q) = 1 /\ q[1].key \in Fields
    BY <1>4 DEF Encrypted
  <2>2. PICK x \in DOMAIN payload : q \in {SubSeq(x, 1, n) : n \in 1..Len(x)}
    BY <2>1 DEF Nodes
  <2>3. PICK n \in 1..Len(x) : q = SubSeq(x, 1, n)
    BY <2>2
  <2>4. x \in Paths
    BY DEF Uncoded
  <2> QED BY <2>1, <2>3, <2>4, Prefixes
<1> HIDE DEF fields
<1>5. \A q \in fields : e[q].kind = "cipher" /\ e[q].key = key /\ e[q].of = ValueAt(payload, q)
  <2>1. ASSUME NEW q \in fields PROVE e[q] = Leaf("cipher", ValueAt(payload, q), key)
    BY <1>2, <2>1
  <2>2. \A of : LET leaf == Leaf("cipher", of, key) IN leaf.kind = "cipher" /\ leaf.key = key /\ leaf.of = of
    BY DEF Leaf
  <2> QED BY <2>1, <2>2
<1>6. \A x \in DOMAIN e \ fields : x \in DOMAIN payload /\ e[x] = payload[x] /\ e[x].kind # "cipher"
  BY <1>2 DEF Uncoded
<1>7. Ciphers(e) = fields
  BY <1>2, <1>4, <1>5, <1>6 DEF Ciphers
<1>8. EncryptedAs(e, payload, key)
  BY <1>2, <1>3, <1>4, <1>5, <1>6, <1>7 DEF fields, EncryptedAs
<1> QED BY <1>1, <1>8

\* Who has the key gets back what was encrypted.
LEMMA DecryptAgrees ==
    ASSUME NEW payload, Uncoded(payload), NEW key, NEW d, d = Decrypt(Encrypt(payload, key), key)
    PROVE  IsAFcn(d) /\ DOMAIN d = DOMAIN payload /\ \A x \in DOMAIN payload : d[x] = payload[x]
<1>1. PICK e : e = Encrypt(payload, key)
  OBVIOUS
<1>2. EncryptedAs(e, payload, key)
  BY <1>1, EncryptMakes
<1>3. PICK fields : fields = Encrypted(payload)
  OBVIOUS
<1>4. /\ Ciphers(e) = fields
      /\ DOMAIN e = fields \cup {x \in DOMAIN payload : SubSeq(x, 1, 1) \notin fields}
      /\ \A q \in fields : /\ q \in Paths /\ Len(q) = 1 /\ q[1].key \in Fields
                           /\ e[q].key = key /\ e[q].of = ValueAt(payload, q)
      /\ \A x \in DOMAIN e \ fields : e[x] = payload[x]
  BY <1>2, <1>3 DEF EncryptedAs
<1>5. PICK own : own = {q \in Ciphers(e) : e[q].key = key}
  OBVIOUS
<1>6. own = fields
  BY <1>4, <1>5
<1>7. PICK inner : inner = UNION {{q \o s : s \in DOMAIN e[q].of} : q \in own}
  OBVIOUS
<1>8. d = Decrypt(e, key)
  BY <1>1
<1>9. d = [p \in (DOMAIN e \ own) \cup inner |->
              IF p \in DOMAIN e \ Ciphers(e) THEN e[p]
              ELSE IF p \in DOMAIN e \ own THEN Clear(Null)
              ELSE e[SubSeq(p, 1, 1)].of[Tail(p)]]
  BY <1>5, <1>7, <1>8 DEF Decrypt
<1>10. DOMAIN payload \subseteq Paths
  BY DEF Uncoded
<1>11. ASSUME NEW x \in DOMAIN payload, SubSeq(x, 1, 1) \in fields
       PROVE  /\ Tail(x) \in DOMAIN ValueAt(payload, SubSeq(x, 1, 1))
              /\ ValueAt(payload, SubSeq(x, 1, 1))[Tail(x)] = payload[x]
              /\ SubSeq(x, 1, 1) \o Tail(x) = x
  <2>1. Tail(x) = SubSeq(x, 2, Len(x)) /\ SubSeq(x, 1, 1) \o Tail(x) = x
    BY <1>10, <1>11, HeadAndTail
  <2>2. 2 \in 1..Len(x) + 1
    BY <1>10, <1>11, EmptySeq DEF Paths
  <2>3. Tail(x) \in Suffixes(payload)
    BY <1>11, <2>1, <2>2 DEF Suffixes
  <2> QED BY <1>11, <2>1, <2>3 DEF ValueAt
<1>12. inner = {x \in DOMAIN payload : SubSeq(x, 1, 1) \in fields}
  <2>1. ASSUME NEW x \in inner PROVE x \in DOMAIN payload /\ SubSeq(x, 1, 1) \in fields
    <3>1. PICK q \in fields : x \in {q \o s : s \in DOMAIN e[q].of}
      BY <1>6, <1>7, <2>1
    <3>2. PICK s \in DOMAIN ValueAt(payload, q) : x = q \o s
      BY <1>4, <3>1
    <3>3. s \in Suffixes(payload) /\ x \in DOMAIN payload
      BY <3>2 DEF ValueAt
    <3>4. PICK y \in DOMAIN payload : s \in {SubSeq(y, n, Len(y)) : n \in 1..Len(y) + 1}
      BY <3>3 DEF Suffixes
    <3>5. PICK n \in 1..Len(y) + 1 : s = SubSeq(y, n, Len(y))
      BY <3>4
    <3>6. y \in Seq(Steps) /\ Len(y) \in Nat
      BY <1>10 DEF Paths
    <3>7. n \in Int /\ Len(y) \in Int /\ \A i \in n..Len(y) : y[i] \in Steps
      BY <3>5, <3>6
    <3>8. s \in Seq(Steps)
      BY <3>5, <3>7, SubSeqProperties
    <3>9. q \in Seq(Steps) /\ Len(q) = 1
      BY <1>4 DEF Paths
    <3> QED BY <3>2, <3>3, <3>8, <3>9, JoinedHead
  <2>2. ASSUME NEW x \in DOMAIN payload, SubSeq(x, 1, 1) \in fields PROVE x \in inner
    <3>1. PICK q : q = SubSeq(x, 1, 1)
      OBVIOUS
    <3>2. q \in own /\ Tail(x) \in DOMAIN e[q].of /\ x = q \o Tail(x)
      BY <1>4, <1>6, <1>11, <2>2, <3>1
    <3>3. x \in {q \o s : s \in DOMAIN e[q].of}
      BY <3>2
    <3> QED BY <1>7, <3>2, <3>3
  <2> QED BY <2>1, <2>2
<1>13. \A x \in fields : SubSeq(x, 1, 1) = x
  BY <1>4, HeadAndTail
<1>14. DOMAIN d = DOMAIN payload
  BY <1>4, <1>6, <1>9, <1>12, <1>13, ZenonT(40)
<1>15. ASSUME NEW x \in DOMAIN payload PROVE d[x] = payload[x]
  <2>1. CASE SubSeq(x, 1, 1) \notin fields
    <3>1. x \in DOMAIN e \ Ciphers(e)
      BY <1>4, <1>13, <2>1
    <3> QED BY <1>4, <1>9, <1>14, <3>1
  <2>2. CASE SubSeq(x, 1, 1) \in fields
    <3>1. x \notin DOMAIN e \ fields
      BY <1>4, <2>2
    <3>2. d[x] = e[SubSeq(x, 1, 1)].of[Tail(x)]
      BY <1>4, <1>6, <1>9, <1>14, <3>1
    <3> QED BY <1>4, <1>11, <2>2, <3>2
  <2> QED BY <2>1, <2>2
<1>16. IsAFcn(d)
  BY <1>9 DEF IsAFcn
<1> QED BY <1>14, <1>15, <1>16

LEMMA DecryptReturns ==
    ASSUME NEW payload, Uncoded(payload), IsAFcn(payload), NEW key
    PROVE  Decrypt(Encrypt(payload, key), key) = payload
<1>1. PICK d : d = Decrypt(Encrypt(payload, key), key)
  OBVIOUS
<1>2. IsAFcn(d) /\ DOMAIN d = DOMAIN payload /\ \A x \in DOMAIN payload : d[x] = payload[x]
  BY <1>1, DecryptAgrees
<1>3. d = [p \in DOMAIN d |-> d[p]] /\ payload = [p \in DOMAIN payload |-> payload[p]]
  BY <1>2 DEF IsAFcn
<1>4. d = payload
  BY <1>2, <1>3
<1> QED BY <1>1, <1>4

\* Who has no key, or another, gets all but the encrypted fields.
LEMMA OthersReadTheRest ==
    ASSUME NEW payload, Uncoded(payload), NEW key, NEW other, other # key,
           NEW r, r = Read(Encrypt(payload, key), other)
    PROVE  \A p \in DOMAIN r :
              \/ r[p] \in {Forgotten, Clear(Null)} /\ p[1].key \in Fields
              \/ p \in DOMAIN payload /\ r[p] = payload[p] /\ SubSeq(p, 1, 1) \notin Encrypted(payload)
<1>1. PICK e : e = Encrypt(payload, key)
  OBVIOUS
<1>2. EncryptedAs(e, payload, key)
  BY <1>1, EncryptMakes
<1>3. PICK fields : fields = Encrypted(payload)
  OBVIOUS
<1>4. /\ Ciphers(e) = fields
      /\ DOMAIN e = fields \cup {x \in DOMAIN payload : SubSeq(x, 1, 1) \notin fields}
      /\ \A q \in fields : /\ q \in Paths /\ Len(q) = 1 /\ q[1].key \in Fields
                           /\ e[q].key = key /\ e[q].of = ValueAt(payload, q)
      /\ \A x \in DOMAIN e \ fields : e[x] = payload[x]
  BY <1>2, <1>3 DEF EncryptedAs
<1>5. \A p \in DOMAIN e \ fields : p \in DOMAIN payload /\ e[p] = payload[p] /\ SubSeq(p, 1, 1) \notin fields
  BY <1>4
<1>6. CASE other = NoKey
  <2>1. r = [q \in DOMAIN e |-> IF q \in fields THEN Forgotten ELSE e[q]]
    BY <1>1, <1>4, <1>6 DEF Read, MarkForgotten
  <2>2. DOMAIN r = DOMAIN e /\ \A p \in DOMAIN e : r[p] = IF p \in fields THEN Forgotten ELSE e[p]
    BY <2>1
  <2> QED BY <1>3, <1>4, <1>5, <2>2
<1>7. CASE other # NoKey
  <2>1. PICK own : own = {q \in Ciphers(e) : e[q].key = other}
    OBVIOUS
  <2>2. own = {}
    BY <1>4, <2>1
  <2>3. UNION {{q \o s : s \in DOMAIN e[q].of} : q \in own} = {}
    BY <2>2
  <2>4. r = [p \in (DOMAIN e \ own) \cup UNION {{q \o s : s \in DOMAIN e[q].of} : q \in own} |->
              IF p \in DOMAIN e \ Ciphers(e) THEN e[p]
              ELSE IF p \in DOMAIN e \ own THEN Clear(Null)
              ELSE e[SubSeq(p, 1, 1)].of[Tail(p)]]
    BY <1>1, <1>7, <2>1 DEF Read, Decrypt
  <2>5. DOMAIN r = DOMAIN e /\ \A p \in DOMAIN e : r[p] = IF p \in fields THEN Clear(Null) ELSE e[p]
    BY <1>4, <2>2, <2>3, <2>4
  <2> QED BY <1>3, <1>4, <1>5, <2>5
<1> QED BY <1>6, <1>7

\* A payload that is not truncated is what was to be submitted.
LEMMA SlotKeeps ==
    ASSUME NEW plain, Uncoded(plain), IsAFcn(plain), Codable(plain), NEW key,
           NEW sealed, sealed = IF key = NoKey THEN plain ELSE Encrypt(plain, key),
           NEW event, event = MaybeTruncate(sealed) \/ event = JsonClone(MaybeTruncate(sealed)),
           ~IsTruncated(event)
    PROVE  event = sealed
<1>1. IsAFcn(sealed) /\ Codable(sealed)
  <2>1. IsAFcn(Encrypt(plain, key)) /\ Codable(Encrypt(plain, key))
    BY EncryptMakes, EncryptKeeps DEF EncryptedAs
  <2> QED BY <2>1
<1>2. ASSUME NEW p, IsAFcn(p), \A x \in DOMAIN p : ~Holds(p[x], Odd \cup {Undefined}) PROVE JsonClone(p) = p
  <2>1. JsonClone(p) = [x \in DOMAIN p |-> p[x]]
    BY <1>2 DEF JsonClone
  <2> QED BY <1>2, <2>1 DEF IsAFcn
<1>3. CASE ~TooLong(sealed)
  <2>1. MaybeTruncate(sealed) = sealed
    BY <1>3 DEF MaybeTruncate
  <2>2. JsonClone(sealed) = sealed
    BY <1>1, <1>2 DEF Codable, Holds
  <2> QED BY <2>1, <2>2
<1>4. CASE TooLong(sealed)
  <2>1. PICK q, digest : q = <<Field(Truncated)>> /\ digest = Leaf("digest", sealed, NoKey)
    OBVIOUS
  <2>2. PICK cut : cut = MaybeTruncate(sealed)
    OBVIOUS
  <2>3. cut = [x \in {q} |-> digest] /\ digest.kind = "digest"
    BY <1>4, <2>1, <2>2 DEF MaybeTruncate, Leaf
  <2>4. DOMAIN cut = {q} /\ cut[q] = digest /\ IsAFcn(cut)
    BY <2>3 DEF IsAFcn
  <2>5. JsonClone(cut) = cut
    <3>1. \A x \in DOMAIN cut : ~Holds(cut[x], Odd \cup {Undefined})
      BY <2>3, <2>4 DEF Holds
    <3> QED BY <1>2, <2>4, <3>1
  <2>6. IsTruncated(cut)
    BY <2>3, <2>4 DEF IsTruncated
  <2> QED BY <2>2, <2>5, <2>6
<1> QED BY <1>3, <1>4

LEMMA RedactAllIsAFcn == ASSUME NEW payload, NEW k PROVE IsAFcn(RedactAll(payload, k))
<1>1. \A p, patterns : IsAFcn(Redact(p, patterns))
  BY DEF IsAFcn, Redact
<1> QED BY <1>1 DEF RedactAll

KeysOk == made \in Nat /\ keys \in [Subjects -> 0..made]

TenantsOk ==
    \A t \in Tasks, d \in 1..2 :
        DOMAIN scope[t][d] = ContextFields => scope[t][d].tenant \in Tenants \cup {NoTenant, BadTenant}

\* What was redacted is in the event of a call, under the key of the call if it has one.
SlotKept(k, s) ==
    /\ Uncoded(k.plain[s]) /\ IsAFcn(k.plain[s])
    /\ Plain(k.input[s]) /\ ~IsTruncated(k.event[s]) =>
         k.event[s] = IF k.key = NoKey THEN k.plain[s] ELSE Encrypt(k.plain[s], k.key)

CallKept(k) ==
    /\ k.at \in {"actor", "encrypting"} => k.key = NoKey
    /\ k.at \in {"encrypting", "stored", "undeliverable"} => k.tenant \in Tenants \cup {NoTenant}
    /\ k.at = "encrypting" => \A s \in Slots : /\ IsAFcn(k.event[s])
                                               /\ Plain(k.input[s]) => Codable(k.event[s])
    /\ Assembled(k) => /\ k.key # NoKey <=> HasSubject(k)
                       /\ \A s \in Slots : SlotKept(k, s)

\* The key of a call is that of its subject until the subject is forgotten, and never
\* again from then on: keys are numbered, and a new one has a new number.
KeyKept(k, forgotten) ==
    Assembled(k) /\ k.key # NoKey =>
        /\ k.key \in 1..made
        /\ IF forgotten THEN keys[SubjectOf(k)] # k.key ELSE keys[SubjectOf(k)] = k.key

ErasedOk == erased \subseteq Calls /\ \A c \in erased : call[c] # NoCall /\ call[c].key # NoKey

AllKept == \A c \in Calls : call[c] # NoCall => CallKept(call[c]) /\ KeyKept(call[c], c \in erased)

ReadInv == KeysOk /\ TenantsOk /\ ErasedOk /\ AllKept

LEMMA ReadInit == ASSUME Init PROVE ReadInv
<1>1. KeysOk
  BY DEF Init, KeysOk, NoKey
<1>2. TenantsOk
  <2>1. DOMAIN NotEntered # ContextFields
    BY DEF NotEntered, ContextFields
  <2> QED BY <2>1 DEF Init, TenantsOk
<1>3. ErasedOk /\ AllKept
  BY DEF Init, ErasedOk, AllKept
<1> QED BY <1>1, <1>2, <1>3 DEF ReadInv

\* A step before encryption.
LEMMA EarlyKeeps ==
    ASSUME CallsOk, ReadInv, NEW c \in Calls, NEW new, call' = [call EXCEPT ![c] = new],
           call[c] = NoCall \/ call[c].at \in {"actor", "encrypting"},
           CallKept(new), ~Assembled(new), TenantsOk', UNCHANGED <<config, keys, made, erased>>
    PROVE  ReadInv'
<1>1. call'[c] = new /\ \A e \in Calls \ {c} : call'[e] = call[e]
  BY DEF CallsOk
<1>2. c \notin erased
  BY DEF ReadInv, ErasedOk, AllKept, CallKept
<1>3. ErasedOk'
  BY <1>1, <1>2 DEF ReadInv, ErasedOk
<1>4. KeysOk'
  BY DEF ReadInv, KeysOk, Subjects
<1>5. \A k : CallKept(k)' <=> CallKept(k)
  BY DEF CallKept, HasSubject
<1>6. \A k, b : KeyKept(k, b)' <=> KeyKept(k, b)
  BY DEF KeyKept, SubjectOf
<1>7. ASSUME NEW e \in Calls, call'[e] # NoCall PROVE CallKept(call'[e]) /\ KeyKept(call'[e], e \in erased)
  <2>1. CASE e = c
    BY <1>1, <2>1 DEF KeyKept
  <2>2. CASE e # c
    BY <1>1, <1>7, <2>2 DEF ReadInv, AllKept
  <2> QED BY <2>1, <2>2
<1>8. AllKept'
  BY <1>7 DEF AllKept, CallKept, HasSubject, KeyKept, SubjectOf
<1> QED BY <1>3, <1>4, <1>8 DEF ReadInv

LEMMA ResolvedKept ==
    ASSUME NEW k, DOMAIN k = CallFields, RawInput(k.input), k.key = NoKey,
           NEW context, context.tenant \in Tenants \cup {NoTenant, BadTenant},
           NEW actor, NEW r, r = Resolved(k, context, actor)
    PROVE  CallKept(r) /\ ~Assembled(r)
<1>1. /\ r.at \in {"failed", "encrypting"} /\ r.input = k.input /\ r.key = k.key
      /\ r.at = "encrypting" => /\ r.tenant = context.tenant /\ r.tenant # BadTenant
                                /\ \A s \in Slots : r.event[s] = RedactAll(k.input[s], k)
  BY ResolvedKeeps
<1>2. \A s \in Slots : /\ IsAFcn(RedactAll(k.input[s], k))
                       /\ Plain(k.input[s]) => Codable(RedactAll(k.input[s], k))
  BY RedactAllIsAFcn, RedactAllKeepsPlain DEF RawInput
<1>3. ~Assembled(r)
  BY <1>1 DEF Assembled
<1>4. CallKept(r)
  BY <1>1, <1>2, <1>3 DEF CallKept
<1> QED BY <1>3, <1>4

LEMMA BeginKeeps ==
    ASSUME CallsOk, EventInv, ReadInv, NEW c \in Calls, c[1] \in Tasks, NEW input, RawInput(input),
           NEW by, NEW model, Begin(c, input, by, model), UNCHANGED <<config, scope, keys, made, erased>>
    PROVE  ReadInv'
<1>1. PICK here, k :
        /\ here = IF depth[c[1]] = 0 THEN NoContext ELSE scope[c[1]][depth[c[1]]]
        /\ k = [at |-> "actor", ref |-> depth[c[1]], origin |-> here, seen |-> {here}, input |-> input, by |-> by, model |-> model,
                actor |-> System, request |-> NoRequest, tenant |-> NoTenant, stream |-> "default",
                event |-> input, plain |-> input, key |-> NoKey, store |-> Nowhere]
        /\ call[c] = NoCall
        /\ call' = [call EXCEPT ![c] = IF by = NoActor THEN k ELSE Resolved(k, here, by)]
  BY DEF Begin
<1>2. DOMAIN k = CallFields /\ k.at = "actor" /\ k.input = input /\ k.key = NoKey
  BY <1>1 DEF CallFields
<1>3. here.tenant \in Tenants \cup {NoTenant, BadTenant}
  <2>1. CASE depth[c[1]] = 0
    BY <1>1, <2>1 DEF NoContext
  <2>2. CASE depth[c[1]] # 0
    <3>1. depth[c[1]] \in 1..2 /\ DOMAIN here = ContextFields /\ here = scope[c[1]][depth[c[1]]]
      BY <1>1, <2>2 DEF EventInv, ScopesOk
    <3> QED BY <3>1 DEF ReadInv, TenantsOk
  <2> QED BY <2>1, <2>2
<1>4. CallKept(k) /\ ~Assembled(k)
  BY <1>2 DEF CallKept, Assembled
<1>5. PICK new : new = IF by = NoActor THEN k ELSE Resolved(k, here, by)
  OBVIOUS
<1>6. CallKept(new) /\ ~Assembled(new)
  <2>1. CASE by = NoActor
    BY <1>4, <1>5, <2>1
  <2>2. CASE by # NoActor
    BY <1>2, <1>3, <1>5, <2>2, ResolvedKept
  <2> QED BY <2>1, <2>2
<1>7. TenantsOk'
  BY DEF ReadInv, TenantsOk
<1>8. call' = [call EXCEPT ![c] = new]
  BY <1>1, <1>5
<1> QED BY <1>1, <1>6, <1>7, <1>8, EarlyKeeps

\* The event of a call that is submitted.
LEMMA SubmittedKept ==
    ASSUME CallsOk, ReadInv, NEW c \in Calls, Submit(c), NEW key,
           key = IF ~HasSubject(call[c]) THEN NoKey
                 ELSE IF keys[SubjectOf(call[c])] # NoKey THEN keys[SubjectOf(call[c])] ELSE made + 1
    PROVE  \E new : /\ call' = [call EXCEPT ![c] = new] /\ new.at \in {"failed", "stored", "undeliverable"}
                    /\ new.key = key \/ new.at = "failed"
                    /\ new.actor = call[c].actor /\ new.tenant = call[c].tenant
                    /\ CallKept(new)
<1>1. PICK k : k = call[c]
  OBVIOUS
<1>2. k.at = "encrypting" /\ CallOk(k) /\ k # NoCall /\ CallKept(k)
  BY <1>1 DEF Submit, CallsOk, ReadInv, AllKept, NoCall
<1>3. PICK sealed : sealed = [s \in Slots |-> IF key = NoKey THEN k.event[s] ELSE Encrypt(k.event[s], key)]
  OBVIOUS
<1>4. PICK new :
        /\ call' = [call EXCEPT ![c] = new] /\ new.at \in {"failed", "stored", "undeliverable"}
        /\ new.input = k.input /\ new.actor = k.actor /\ new.tenant = k.tenant
        /\ new.key = key \/ (new.key = k.key /\ new.at = "failed")
        /\ Assembled(new) =>
             /\ new.plain = k.event
             /\ \/ \A s \in Slots : new.event[s] = MaybeTruncate(sealed[s])
                \/ \A s \in Slots : new.event[s] = JsonClone(MaybeTruncate(sealed[s]))
  BY <1>1, <1>3, SubmitMakes
<1>5. ASSUME Assembled(new), NEW s \in Slots PROVE SlotKept(new, s)
  <2>1. new.key = key /\ new.plain[s] = k.event[s]
    BY <1>4, <1>5 DEF Assembled
  <2>2. Uncoded(k.event[s]) /\ IsAFcn(k.event[s]) /\ (Plain(k.input[s]) => Codable(k.event[s]))
    BY <1>2 DEF CallOk, AllClean, CallKept
  <2>3. /\ sealed[s] = IF key = NoKey THEN k.event[s] ELSE Encrypt(k.event[s], key)
        /\ new.event[s] = MaybeTruncate(sealed[s]) \/ new.event[s] = JsonClone(MaybeTruncate(sealed[s]))
    BY <1>3, <1>4, <1>5
  <2>4. ASSUME Plain(new.input[s]), ~IsTruncated(new.event[s]) PROVE new.event[s] = sealed[s]
    BY <1>4, <2>2, <2>3, <2>4, SlotKeeps
  <2> QED BY <2>1, <2>2, <2>3, <2>4 DEF SlotKept
<1>6. ASSUME Assembled(new) PROVE new.key # NoKey <=> HasSubject(new)
  <2>1. new.key = key /\ (HasSubject(new) <=> HasSubject(k))
    BY <1>4, <1>6 DEF Assembled, HasSubject
  <2>2. made \in Nat
    BY DEF ReadInv, KeysOk
  <2> QED BY <1>1, <2>1, <2>2 DEF NoKey
<1>7. CallKept(new)
  BY <1>2, <1>4, <1>5, <1>6 DEF CallKept
<1> QED BY <1>1, <1>4, <1>7

LEMMA SubmitKeeps ==
    ASSUME CallsOk, ReadInv, NEW c \in Calls, Submit(c) PROVE ReadInv'
<1>1. PICK k : k = call[c]
  OBVIOUS
<1>2. PICK key : key = IF ~HasSubject(k) THEN NoKey
                       ELSE IF keys[SubjectOf(k)] # NoKey THEN keys[SubjectOf(k)] ELSE made + 1
  OBVIOUS
<1>3. /\ k.at = "encrypting" /\ UNCHANGED <<config, scope, erased>>
      /\ IF key = NoKey THEN UNCHANGED <<keys, made>>
         ELSE keys' = [keys EXCEPT ![SubjectOf(k)] = key] /\ made' = IF key > made THEN key ELSE made
  BY <1>1, <1>2 DEF Submit
<1>4. PICK new : /\ call' = [call EXCEPT ![c] = new] /\ new.at \in {"failed", "stored", "undeliverable"}
                 /\ new.key = key \/ new.at = "failed"
                 /\ new.actor = k.actor /\ new.tenant = k.tenant /\ CallKept(new)
  BY <1>1, <1>2, SubmittedKept
<1>5. k # NoCall /\ CallKept(k) /\ k.key = NoKey /\ c \notin erased
  BY <1>1, <1>3 DEF ReadInv, AllKept, ErasedOk, CallKept, NoCall
<1>6. call'[c] = new /\ \A e \in Calls \ {c} : call'[e] = call[e]
  BY <1>4 DEF CallsOk
<1>7. \A x : x.tenant \in Tenants \cup {NoTenant} /\ HasSubject(x) => SubjectOf(x) \in Subjects
  BY DEF HasSubject, SubjectOf, Subjects
<1>8. HasSubject(k) => SubjectOf(k) \in Subjects
  BY <1>3, <1>5, <1>7 DEF CallKept
<1>9. made \in Nat /\ keys \in [Subjects -> 0..made]
  BY DEF ReadInv, KeysOk
<1>10. /\ made' \in Nat /\ made' >= made /\ keys' \in [Subjects -> 0..made']
       /\ key # NoKey => /\ HasSubject(k) /\ key \in 1..made' /\ keys'[SubjectOf(k)] = key
                         /\ keys[SubjectOf(k)] = key \/ (keys[SubjectOf(k)] = NoKey /\ key = made + 1)
       /\ \A s \in Subjects : key = NoKey \/ s # SubjectOf(k) => keys'[s] = keys[s]
  <2>1. CASE key = NoKey
    BY <1>3, <1>9, <2>1
  <2>2. CASE key # NoKey
    <3>1. HasSubject(k) /\ SubjectOf(k) \in Subjects
      BY <1>2, <1>8, <2>2
    <3>2. PICK s \in Subjects : s = SubjectOf(k)
      BY <3>1
    <3>3. keys[s] \in 0..made /\ (keys[s] = key \/ (keys[s] = NoKey /\ key = made + 1))
      BY <1>2, <1>9, <3>1, <3>2
    <3>4. key \in 1..made + 1
      BY <1>9, <2>2, <3>3 DEF NoKey
    <3>5. made' \in Nat /\ made' >= made /\ key \in 1..made'
      BY <1>3, <1>9, <2>2, <3>4
    <3>6. keys' = [keys EXCEPT ![s] = key]
      BY <1>3, <2>2, <3>2
    <3>7. \A u \in Subjects : keys'[u] = IF u = s THEN key ELSE keys[u]
      BY <1>9, <3>6
    <3>8. keys' \in [Subjects -> 0..made']
      <4>1. \A u \in Subjects : keys'[u] \in 0..made'
        BY <1>9, <3>5, <3>7
      <4>2. keys' = [u \in Subjects |-> keys'[u]]
        BY <1>9, <3>6
      <4> QED BY <4>1, <4>2
    <3> QED BY <3>1, <3>2, <3>3, <3>5, <3>7, <3>8
  <2> QED BY <2>1, <2>2
<1>11. KeysOk'
  BY <1>10 DEF KeysOk, Subjects
<1>12. TenantsOk'
  BY <1>3 DEF ReadInv, TenantsOk
<1>13. ErasedOk'
  BY <1>3, <1>5, <1>6 DEF ReadInv, ErasedOk
<1>14. ASSUME NEW e \in Calls, call'[e] # NoCall
       PROVE  /\ CallKept(call'[e])
              /\ Assembled(call'[e]) /\ call'[e].key # NoKey =>
                    /\ call'[e].key \in 1..made'
                    /\ IF e \in erased THEN keys'[SubjectOf(call'[e])] # call'[e].key
                                       ELSE keys'[SubjectOf(call'[e])] = call'[e].key
  <2>1. CASE e = c
    <3>1. Assembled(new) => new.key = key /\ SubjectOf(new) = SubjectOf(k)
      BY <1>4 DEF Assembled, SubjectOf
    <3> QED BY <1>4, <1>5, <1>6, <1>10, <2>1, <3>1
  <2>2. CASE e # c
    <3>1. PICK x : x = call[e] /\ x = call'[e]
      BY <1>6, <2>2
    <3>2. CallKept(x) /\ KeyKept(x, e \in erased)
      BY <1>14, <3>1 DEF ReadInv, AllKept
    <3>3. ASSUME Assembled(x), x.key # NoKey
          PROVE  /\ x.key \in 1..made'
                 /\ IF e \in erased THEN keys'[SubjectOf(x)] # x.key ELSE keys'[SubjectOf(x)] = x.key
      <4>1. PICK s \in Subjects : s = SubjectOf(x)
        BY <1>7, <3>2, <3>3 DEF CallKept, Assembled
      <4>2. x.key \in 1..made /\ IF e \in erased THEN keys[s] # x.key ELSE keys[s] = x.key
        BY <3>2, <3>3, <4>1 DEF KeyKept
      <4>3. x.key \in 1..made'
        BY <1>9, <1>10, <4>2
      <4>4. CASE key = NoKey \/ s # SubjectOf(k)
        BY <1>10, <4>1, <4>2, <4>3, <4>4
      <4>5. CASE key # NoKey /\ s = SubjectOf(k)
        BY <1>9, <1>10, <3>3, <4>1, <4>2, <4>3, <4>5
      <4> QED BY <4>4, <4>5
    <3> QED BY <3>1, <3>2, <3>3
  <2> QED BY <2>1, <2>2
<1>15. AllKept'
  BY <1>3, <1>14 DEF AllKept, CallKept, HasSubject, KeyKept, SubjectOf
<1> QED BY <1>11, <1>12, <1>13, <1>15 DEF ReadInv

LEMMA ForgetKeeps ==
    ASSUME CallsOk, ReadInv, NEW s \in Subjects, Forget(s) PROVE ReadInv'
<1>1. /\ keys' = [keys EXCEPT ![s] = NoKey] /\ UNCHANGED <<config, scope, call, made>>
      /\ erased' = erased \cup {c \in Calls : /\ call[c] # NoCall /\ call[c].key # NoKey
                                              /\ <<call[c].tenant, call[c].actor>> = s}
  BY DEF Forget
<1>2. made \in Nat /\ keys \in [Subjects -> 0..made]
  BY DEF ReadInv, KeysOk
<1>3. /\ keys' \in [Subjects -> 0..made] /\ keys'[s] = NoKey
      /\ \A u \in Subjects \ {s} : keys'[u] = keys[u]
  BY <1>1, <1>2 DEF NoKey
<1>4. KeysOk'
  BY <1>1, <1>2, <1>3 DEF KeysOk, Subjects
<1>5. TenantsOk'
  BY <1>1 DEF ReadInv, TenantsOk
<1>6. ErasedOk'
  BY <1>1 DEF ReadInv, ErasedOk
<1>7. ASSUME NEW e \in Calls, call[e] # NoCall
      PROVE  /\ CallKept(call[e])
             /\ Assembled(call[e]) /\ call[e].key # NoKey =>
                   /\ call[e].key \in 1..made
                   /\ IF e \in erased' THEN keys'[SubjectOf(call[e])] # call[e].key
                                       ELSE keys'[SubjectOf(call[e])] = call[e].key
  <2>1. PICK x : x = call[e]
    OBVIOUS
  <2>2. CallKept(x) /\ KeyKept(x, e \in erased)
    BY <1>7, <2>1 DEF ReadInv, AllKept
  <2>3. ASSUME Assembled(x), x.key # NoKey
        PROVE  /\ x.key \in 1..made
               /\ IF e \in erased' THEN keys'[SubjectOf(x)] # x.key ELSE keys'[SubjectOf(x)] = x.key
    <3>1. PICK u \in Subjects : u = SubjectOf(x)
      BY <2>2, <2>3 DEF CallKept, Assembled, HasSubject, SubjectOf, Subjects
    <3>2. x.key \in 1..made /\ IF e \in erased THEN keys[u] # x.key ELSE keys[u] = x.key
      BY <2>2, <2>3, <3>1 DEF KeyKept
    <3>3. e \in erased' <=> e \in erased \/ u = s
      BY <1>1, <1>7, <2>1, <2>3, <3>1 DEF SubjectOf
    <3> QED BY <1>3, <2>3, <3>1, <3>2, <3>3
  <2> QED BY <2>1, <2>2, <2>3
<1>8. AllKept'
  BY <1>1, <1>7 DEF AllKept, CallKept, HasSubject, KeyKept, SubjectOf
<1> QED BY <1>4, <1>5, <1>6, <1>8 DEF ReadInv

LEMMA ReadNext == ASSUME IInv, EventInv, ReadInv, [Next]_vars PROVE ReadInv'
<1>1. CallsOk /\ RowsOk /\ config \in Configs
  BY DEF IInv
<1>2. ASSUME UNCHANGED <<config, call, keys, made, erased>>, TenantsOk' PROVE ReadInv'
  <2>1. KeysOk' /\ ErasedOk'
    BY <1>2 DEF ReadInv, KeysOk, ErasedOk, Subjects
  <2>2. AllKept'
    BY <1>2 DEF ReadInv, AllKept, CallKept, HasSubject, KeyKept, SubjectOf
  <2> QED BY <1>2, <2>1, <2>2 DEF ReadInv
<1>3. ASSUME UNCHANGED scope PROVE TenantsOk'
  BY <1>3 DEF ReadInv, TenantsOk
<1>4. CASE \/ Start \/ Shutdown \/ UNCHANGED vars
           \/ \E t \in config.loggers : Leave(t)
           \/ \E t \in config.savers : Assign(t) \/ BeforeUpdate(t) \/ Update(t)
  BY <1>2, <1>3, <1>4 DEF Start, Shutdown, vars, Leave, Assign, BeforeUpdate, Update
<1>5. ASSUME NEW t \in Tasks, NEW context, context.tenant \in Tenants \cup {NoTenant, BadTenant},
             Run(t, context), depth[t] \in 0..1
      PROVE  ReadInv'
  <2>1. /\ scope' = [scope EXCEPT ![t][depth[t] + 1] = context]
        /\ UNCHANGED <<config, call, keys, made, erased>>
    BY <1>5 DEF Run
  <2>2. DOMAIN scope = Tasks /\ \A u \in Tasks : DOMAIN scope[u] = 1..2
    BY DEF EventInv, ScopesOk
  <2>3. \A u \in Tasks, d \in 1..2 :
           scope'[u][d] = IF u = t /\ d = depth[t] + 1 THEN context ELSE scope[u][d]
    BY <1>5, <2>1, <2>2
  <2>4. TenantsOk'
    BY <1>5, <2>3 DEF ReadInv, TenantsOk
  <2> QED BY <1>2, <2>1, <2>4
<1>6. \A t \in config.loggers \cup config.patchers : t \in Tasks
  BY <1>1, ConfigsAssumption
<1>7. CASE \E t \in Requests \cap config.loggers : Handle(t)
  <2>1. PICK t \in Requests, tenant \in Resolvable :
           depth[t] = 0 /\ Run(t, [request |-> t, tenant |-> tenant, actor |-> Lazy])
    BY <1>7 DEF Handle
  <2>2. t \in Tasks /\ tenant \in Tenants \cup {NoTenant, BadTenant}
    BY ContextsAssumption DEF Tasks
  <2> QED BY <1>5, <2>1, <2>2
<1>8. CASE \E t \in config.loggers : WithinContext(t)
  <2>1. PICK t \in Tasks, s \in Scopes :
           depth[t] \in 0..1 /\ Run(t, [request |-> NoRequest, tenant |-> s.tenant, actor |-> s.actor])
    BY <1>8, <1>6 DEF WithinContext
  <2> QED BY <1>5, <2>1, ContextsAssumption
<1>9. CASE \E t \in config.patchers : Set(t)
  <2>1. PICK t \in Tasks, d \in 1..2, patch \in Patches :
          /\ scope[t][d] # NotEntered
          /\ scope' = [scope EXCEPT ![t][d] = Patched(scope[t][d], patch)]
          /\ call' = Seen(t, d, Patched(scope[t][d], patch))
          /\ UNCHANGED <<config, keys, made, erased>>
    BY <1>9, <1>6 DEF Set
  <2>2. PICK context :
           /\ scope[t][d] # NotEntered /\ context = Patched(scope[t][d], patch)
           /\ scope' = [scope EXCEPT ![t][d] = context] /\ call' = Seen(t, d, context)
           /\ UNCHANGED <<config, keys, made, erased>>
    BY <2>1
  <2>3. /\ DOMAIN scope = Tasks /\ \A u \in Tasks : DOMAIN scope[u] = 1..2
        /\ DOMAIN scope[t][d] = ContextFields
    BY <2>2 DEF EventInv, ScopesOk
  <2>4. context.tenant \in Tenants \cup {NoTenant, BadTenant}
    <3>1. scope[t][d].tenant \in Tenants \cup {NoTenant, BadTenant}
      BY <2>3 DEF ReadInv, TenantsOk
    <3>2. context.tenant = IF "tenant" \in DOMAIN patch THEN patch.tenant ELSE scope[t][d].tenant
      BY <2>2, <2>3 DEF Patched, ContextFields
    <3> QED BY <3>1, <3>2, ContextsAssumption
  <2>5. \A u \in Tasks, e \in 1..2 : scope'[u][e] = IF u = t /\ e = d THEN context ELSE scope[u][e]
    BY <2>2, <2>3
  <2>6. TenantsOk'
    BY <2>4, <2>5 DEF ReadInv, TenantsOk
  <2>7. KeysOk'
    BY <2>2 DEF ReadInv, KeysOk, Subjects
  <2>8. ASSUME NEW c \in Calls, call'[c] # NoCall
        PROVE  CallKept(call'[c]) /\ KeyKept(call'[c], c \in erased) /\ call[c] # NoCall /\ call'[c].key = call[c].key
    <3>1. PICK k, new : k = call[c] /\ new = call'[c]
      OBVIOUS
    <3>2. new = k \/ (k.at = "actor" /\ new = [k EXCEPT !.seen = @ \cup {context}])
      BY <2>2, <3>1, SeenIs
    <3>3. k # NoCall /\ DOMAIN k = CallFields
      BY <1>1, <2>8, <3>1, <3>2 DEF CallsOk, CallOk, NoCall
    <3>4. CallKept(k) /\ KeyKept(k, c \in erased)
      BY <3>1, <3>3 DEF ReadInv, AllKept
    <3>5. CASE new # k
      <4>1. new.at = "actor" /\ new.key = k.key /\ k.key = NoKey
        BY <3>2, <3>3, <3>4, <3>5 DEF CallFields, CallKept
      <4>2. CallKept(new) /\ KeyKept(new, c \in erased)
        BY <4>1 DEF CallKept, KeyKept, Assembled
      <4> QED BY <3>1, <3>3, <4>1, <4>2
    <3> QED BY <3>1, <3>3, <3>4, <3>5
  <2>9. \A c \in Calls : call[c] # NoCall => call'[c] # NoCall /\ call'[c].key = call[c].key
    BY <2>8, CallsStay
  <2>10. ErasedOk'
    BY <2>2, <2>9 DEF ReadInv, ErasedOk
  <2>11. AllKept'
    BY <2>2, <2>8 DEF AllKept, CallKept, HasSubject, KeyKept, SubjectOf
  <2> QED BY <2>6, <2>7, <2>10, <2>11 DEF ReadInv
<1>10. CASE \E t \in config.loggers : Log(t)
  <2>1. PICK t \in Tasks : Log(t)
    BY <1>10, <1>6
  <2>2. PICK input \in Inputs, by \in Persons \cup {NoActor} : Begin(<<t, "own">>, input, by, FALSE)
    BY <2>1 DEF Log
  <2>3. UNCHANGED <<config, scope, keys, made, erased>>
    BY <2>1 DEF Log
  <2>4. <<t, "own">> \in Calls /\ <<t, "own">>[1] \in Tasks /\ RawInput(input)
    BY InputsAssumption DEF Calls, RawInput
  <2> QED BY <1>1, <2>2, <2>3, <2>4, BeginKeeps
<1>11. CASE \E t \in Requests \cap config.loggers : AuthEvent(t)
  <2>1. PICK t \in Requests : AuthEvent(t)
    BY <1>11
  <2>2. PICK by : Begin(<<t, "auth">>, AuthInput, by, FALSE)
    BY <2>1 DEF AuthEvent
  <2>3. UNCHANGED <<config, scope, keys, made, erased>>
    BY <2>1 DEF AuthEvent
  <2>4. <<t, "auth">> \in Calls /\ <<t, "auth">>[1] \in Tasks /\ RawInput(AuthInput)
    BY InputsAssumption DEF Calls, Tasks, RawInput
  <2> QED BY <1>1, <2>2, <2>3, <2>4, BeginKeeps
<1>12. CASE \E t \in config.savers : AfterUpdate(t)
  <2>1. PICK t \in Tasks : AfterUpdate(t)
    BY <1>1, <1>12, ConfigsAssumption
  <2>2. UNCHANGED <<config, scope, keys, made, erased>>
    BY <2>1 DEF AfterUpdate
  <2>3. CASE UNCHANGED call
    BY <1>2, <1>3, <2>2, <2>3
  <2>4. CASE ~UNCHANGED call
    <3>1. PICK input : /\ input = [s \in Slots |-> IF s = "metadata" THEN NoValues ELSE row[t].snapshot[s]]
                       /\ Begin(<<t, "model">>, input, NoActor, TRUE)
      BY <2>1, <2>4 DEF AfterUpdate
    <3>2. RawInput(input)
      BY <1>1, <3>1, NoValuesIsRaw DEF RowsOk, RawSnapshot, RawInput, Slots
    <3>3. PICK c \in Calls : c = <<t, "model">>
      BY DEF Calls
    <3>4. c[1] \in Tasks /\ Begin(c, input, NoActor, TRUE)
      BY <3>1, <3>3
    <3> QED BY <1>1, <2>2, <3>2, <3>4, BeginKeeps
  <2> QED BY <2>3, <2>4
<1>13. CASE \E c \in Calls : ResolveActor(c)
  <2>1. PICK c \in Calls : ResolveActor(c)
    BY <1>13
  <2>2. PICK k, context : k = call[c] /\ context = ContextOf(c)
    OBVIOUS
  <2>3. k.at = "actor" /\ UNCHANGED <<config, scope, keys, made, erased>>
    BY <2>1, <2>2 DEF ResolveActor
  <2>4. k # NoCall /\ DOMAIN k = CallFields /\ RawInput(k.input) /\ k.key = NoKey
    BY <1>1, <2>2, <2>3 DEF NoCall, CallsOk, CallOk, ReadInv, AllKept, CallKept
  <2>5. context.tenant \in Tenants \cup {NoTenant, BadTenant}
    <3>1. SeenOk(k, c[1], scope) /\ c[1] \in Tasks
      BY <2>2, <2>4 DEF EventInv, EventsTold, Calls
    <3>2. CASE k.ref = 0
      BY <2>2, <3>2 DEF ContextOf, NoContext
    <3>3. CASE k.ref # 0
      <4>1. context = scope[c[1]][k.ref] /\ k.ref \in 1..2 /\ DOMAIN context = ContextFields
        BY <2>2, <2>3, <3>1, <3>3 DEF ContextOf, SeenOk
      <4> QED BY <3>1, <4>1 DEF ReadInv, TenantsOk
    <3> QED BY <3>2, <3>3
  <2>6. PICK actor : call' = [call EXCEPT ![c] = Resolved(k, context, actor)]
    BY <2>1, <2>2, <1>1 DEF ResolveActor, CallsOk
  <2>7. PICK r : r = Resolved(k, context, actor)
    OBVIOUS
  <2>8. CallKept(r) /\ ~Assembled(r)
    BY <2>4, <2>5, <2>7, ResolvedKept
  <2>9. call' = [call EXCEPT ![c] = r]
    BY <2>6, <2>7
  <2> QED BY <1>1, <1>3, <2>2, <2>3, <2>8, <2>9, EarlyKeeps
<1>14. CASE \E c \in Calls : Submit(c)
  BY <1>1, <1>14, SubmitKeeps
<1>15. CASE \E s \in Subjects : Forget(s)
  BY <1>1, <1>15, ForgetKeeps
<1> QED
  BY <1>4, <1>7, <1>8, <1>9, <1>10, <1>11, <1>12, <1>13, <1>14, <1>15 DEF Next

\* Whoever reads an event gets what was logged and not redacted for as long as nobody
\* forgot its person, whoever else is forgotten, and all but the encrypted fields from then
\* on, also when the person comes back: whatever the payloads, the patterns and the
\* fields, and however submissions and erasures are interleaved
\* (subject_crypto.ts:95-139, 149-159).
THEOREM ReadsBackForever == Spec => []ReadBack
<1>1. Init => IInv /\ EventInv /\ ReadInv
  BY TypedInit, EventInit, ReadInit
<1>2. IInv /\ EventInv /\ ReadInv /\ [Next]_vars => (IInv /\ EventInv /\ ReadInv)'
  BY TypedNext, EventNext, ReadNext
<1>3. ReadInv => ReadBack
  <2>1. SUFFICES ASSUME ReadInv, NEW c \in Calls, call[c] # NoCall, Assembled(call[c]), NEW s \in Slots,
                        Plain(call[c].input[s]), ~IsTruncated(call[c].event[s])
                 PROVE  IF c \in erased THEN ReadsErased(call[c], s) ELSE ReadSlot(call[c], s) = call[c].plain[s]
    BY DEF ReadBack
  <2>2. PICK k, plain : k = call[c] /\ plain = k.plain[s]
    OBVIOUS
  <2>3. CallKept(k) /\ KeyKept(k, c \in erased)
    BY <2>1, <2>2 DEF ReadInv, AllKept
  <2>4. /\ Uncoded(plain) /\ IsAFcn(plain) /\ (k.key # NoKey <=> HasSubject(k))
        /\ k.event[s] = IF k.key = NoKey THEN plain ELSE Encrypt(plain, k.key)
    BY <2>1, <2>2, <2>3 DEF CallKept, SlotKept
  <2>5. CASE k.key = NoKey
    <3>1. c \notin erased
      BY <2>1, <2>2, <2>5 DEF ReadInv, ErasedOk
    <3> QED BY <2>2, <2>4, <2>5, <3>1 DEF ReadSlot
  <2>6. CASE k.key # NoKey /\ c \in erased
    <3>1. PICK other, r : other = keys[SubjectOf(k)] /\ r = Read(Encrypt(plain, k.key), other)
      OBVIOUS
    <3>2. other # k.key /\ ReadSlot(k, s) = r
      BY <2>1, <2>2, <2>3, <2>4, <2>6, <3>1 DEF KeyKept, ReadSlot
    <3>3. \A p \in DOMAIN r :
             \/ r[p] \in {Forgotten, Clear(Null)} /\ p[1].key \in Fields
             \/ p \in DOMAIN plain /\ r[p] = plain[p] /\ SubSeq(p, 1, 1) \notin Encrypted(plain)
      BY <2>4, <3>1, <3>2, OthersReadTheRest
    <3>4. ReadsErased(k, s)
      BY <2>2, <3>2, <3>3 DEF ReadsErased
    <3> QED BY <2>2, <2>6, <3>4
  <2>7. CASE k.key # NoKey /\ c \notin erased
    <3>1. keys[SubjectOf(k)] = k.key
      BY <2>1, <2>2, <2>3, <2>7 DEF KeyKept
    <3>2. ReadSlot(k, s) = Decrypt(Encrypt(plain, k.key), k.key)
      BY <2>4, <2>7, <3>1 DEF ReadSlot, Read
    <3> QED BY <2>2, <2>4, <2>7, <3>2, DecryptReturns
  <2> QED BY <2>5, <2>6, <2>7
<1> QED BY <1>1, <1>2, <1>3, PTL DEF Spec

=============================================================================
