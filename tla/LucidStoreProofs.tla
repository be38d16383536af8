-------------------------- MODULE LucidStoreProofs --------------------------
(***************************************************************************)
(* Theorems about LucidStore, for any events, streams, processes, batches  *)
(* and databases: the tables are one chain per stream, what was returned   *)
(* stays resolvable, archives come first, and the store implements         *)
(* AuditLog.  They hold when nobody writes an event again after its        *)
(* retention (Prompt).                                                     *)
(***************************************************************************)
EXTENDS LucidStore, SequenceTheorems, FiniteSetTheorems, WellFoundedInduction, TLAPS

-----------------------------------------------------------------------------
(* Types. *)

Entry == [event : Events, seq : Nat]
Hash == Seq(Entry)
HeadType == [seq : Nat, hash : Hash]
Row == [event : Events, hash : Hash]
Rows == UNION {[S -> Row] : S \in SUBSET Nat}
Results == [stream : Streams, seq : Nat, hash : Hash]

WriterPhases == {"idle", "open"} \cup InTransaction
PrunerPhases == {"idle", "selecting", "selected", "exported", "archived"}

TypeOK ==
    /\ dialect \in Dialects
    /\ audits \in [Streams -> Rows]
    /\ archive \in [Streams -> Rows]
    /\ checkpoints \in [Streams -> Rows]
    /\ DOMAIN lock = Streams
    /\ writer \in [Writers ->
           [phase : WriterPhases, batch : Seq(Events), todo : SUBSET Nat,
            stream : Streams \cup {Free}, head : HeadType, rows : Rows, results : SUBSET Results]]
    /\ pruner \in [Pruners ->
           [phase : PrunerPhases, todo : SUBSET Streams, filter : Filters \cup {"none"},
            cutoff : SUBSET Events, stream : Streams \cup {Free}, rows : Rows, missing : SUBSET Nat]]
    /\ expired \subseteq Events
    /\ returned \subseteq Results /\ exported \subseteq Results
    /\ calls \in Nat /\ prunes \in Nat /\ faults \in Nat

-----------------------------------------------------------------------------
(* The inductive invariant. *)

\* All entries a stream ever had.
Chain(s) == HeadOf(audits[s]).hash

\* The retention of an event with this id has passed.
Past(id) == \E e \in expired : IdOf[e] = id

IdAt(s, i) == IdOf[Chain(s)[i].event]

\* A result names an entry of the chain and has its hash.
OnRecord(r) == r.seq \in 1 .. Len(Chain(r.stream)) /\ r.hash = SubSeq(Chain(r.stream), 1, r.seq)

\* The rows of the three tables are those of one chain, the live ones are its end, and
\* what is not live any more is past and in the archive.
ChainInv ==
    \A s \in Streams :
        /\ Chain(s) \in Hash /\ \A i \in 1 .. Len(Chain(s)) : Chain(s)[i].seq = i
        /\ DOMAIN audits[s] # {} =>
              \E a \in 1 .. Len(Chain(s)) : DOMAIN audits[s] = a .. Len(Chain(s))
        /\ \A n \in DOMAIN audits[s] : OnChain(n, audits[s][n], Chain(s))
        /\ \A n \in DOMAIN archive[s] :
              /\ 1 <= n /\ n < Len(Chain(s)) /\ OnChain(n, archive[s][n], Chain(s))
              /\ Result(s, n, archive[s][n]) \in exported
        /\ \A n \in DOMAIN checkpoints[s] :
              /\ 1 <= n /\ n \notin DOMAIN audits[s] /\ OnChain(n, checkpoints[s][n], Chain(s))
        /\ \A i \in 1 .. Len(Chain(s)) :
              i \notin DOMAIN audits[s] => Past(IdAt(s, i)) /\ i \in DOMAIN archive[s]

\* An event enters the chains once.
IdInv ==
    \A s, t \in Streams : \A i \in 1 .. Len(Chain(s)) : \A j \in 1 .. Len(Chain(t)) :
        IdAt(s, i) = IdAt(t, j) => s = t /\ i = j

Headed == {"headed", "inserted", "released"}
Pending == {"inserted", "released"}

\* What the head of a writer does not know is not past, so it is still live.
HeadIsRecent(w) ==
    LET s == writer[w].stream
        head == writer[w].head
    IN  /\ Len(head.hash) = head.seq /\ head.seq <= Len(Chain(s))
        /\ head.hash = SubSeq(Chain(s), 1, head.seq)
        /\ \A i \in head.seq + 1 .. Len(Chain(s)) : ~Past(IdAt(s, i))

\* The rows of a writer are events of its batch, chained to its head, and the table takes
\* them.
RowsFit(w) ==
    /\ \E events \in Seq(Events) :
          /\ events # <<>> /\ writer[w].rows = ChainBatch(events, writer[w].head)
          /\ \A k \in DOMAIN events : \E i \in DOMAIN writer[w].batch : events[k] = writer[w].batch[i]
          /\ \A k, l \in DOMAIN events : SameId(events[k], events[l]) => k = l
    /\ ~Refuses(audits, writer[w].stream, writer[w].rows)

WriterOk(w) ==
    /\ writer[w].phase # "idle" =>
          /\ \A i \in DOMAIN writer[w].batch : ~Past(IdOf[writer[w].batch[i]])
          /\ writer[w].todo \subseteq DOMAIN writer[w].batch
          /\ \A i, j \in writer[w].todo : SameId(writer[w].batch[i], writer[w].batch[j]) => i = j
          /\ \A r \in writer[w].results : OnRecord(r)
    /\ writer[w].phase \in InTransaction => writer[w].stream \in Streams /\ Positions(w) # {}
    /\ writer[w].phase \in Headed => HeadIsRecent(w)
    /\ writer[w].phase \in Pending => RowsFit(w)

WriterInv == \A w \in Writers : WriterOk(w)

\* Rows of two transactions do not get into each other's way.
Apart(q, r) ==
    /\ q.stream = r.stream => DOMAIN q.rows \cap DOMAIN r.rows = {}
    /\ IdsOf(q.rows) \cap IdsOf(r.rows) = {}

PendingInv ==
    \A v, w \in Writers :
        v # w /\ writer[v].phase \in Pending /\ writer[w].phase \in Pending =>
            Apart(writer[v], writer[w])

\* The candidates of a prune are past rows of the chain that start where the live rows
\* start, or before, and never reach its last entry.
SelectionOk(p) ==
    LET s == pruner[p].stream
        rows == pruner[p].rows
    IN  /\ s \in Streams
        /\ \E a, k \in Nat :
              /\ 1 <= a /\ a <= k /\ k < Len(Chain(s)) /\ DOMAIN rows = a .. k
              /\ \A n \in DOMAIN audits[s] : a <= n
        /\ \A n \in DOMAIN rows : OnChain(n, rows[n], Chain(s)) /\ Past(IdOf[rows[n].event])

PrunerOk(p) ==
    /\ pruner[p].phase # "idle" => pruner[p].cutoff \subseteq expired
    /\ pruner[p].phase \in {"selected", "exported", "archived"} => SelectionOk(p)
    /\ pruner[p].phase = "exported" =>
          /\ pruner[p].missing \subseteq DOMAIN pruner[p].rows
          /\ \A n \in DOMAIN pruner[p].rows :
                /\ n \in pruner[p].missing \/ n \in DOMAIN archive[pruner[p].stream]
                /\ Result(pruner[p].stream, n, pruner[p].rows[n]) \in exported
    /\ pruner[p].phase = "archived" =>
          DOMAIN pruner[p].rows \subseteq DOMAIN archive[pruner[p].stream]

PrunerInv == \A p \in Pruners : PrunerOk(p)

ReturnInv == \A r \in returned : OnRecord(r)

IInv == TypeOK /\ ChainInv /\ IdInv /\ WriterInv /\ PendingInv /\ PrunerInv /\ ReturnInv

-----------------------------------------------------------------------------
(* Lemmas about numbers. *)

\* A set of natural numbers that is not empty has a least element.
LEMMA LeastElement ==
    ASSUME NEW T \in SUBSET Nat, T # {}
    PROVE  \E x \in T : \A y \in T : x <= y
<1> DEFINE F == {1 .. x : x \in T}
<1>1. IsWellFoundedOn(StrictSubsetOrdering(Nat), FiniteSubsetsOf(Nat))
  BY FS_StrictSubsetOrderingWellFounded
<1>2. F \subseteq FiniteSubsetsOf(Nat) /\ F # {}
  <2>1. ASSUME NEW x \in T PROVE 1 .. x \in FiniteSubsetsOf(Nat)
    <3>1. 1 \in Int /\ x \in Int /\ 1 .. x \subseteq Nat
      OBVIOUS
    <3>2. IsFiniteSet(1 .. x)
      BY <3>1, FS_Interval
    <3> QED BY <3>1, <3>2 DEF FiniteSubsetsOf
  <2> QED BY <2>1
<1>3. PICK s \in F : \A t \in F : ~(<<t, s>> \in StrictSubsetOrdering(Nat))
  BY <1>1, <1>2, WFMin
<1>4. PICK x \in T : s = 1 .. x
  OBVIOUS
<1>5. ASSUME NEW y \in T, y < x PROVE FALSE
  <2>1. 1 .. y \in F
    OBVIOUS
  <2>2. 1 .. y \subseteq 1 .. x /\ x \in 1 .. x /\ x \notin 1 .. y
    BY <1>5
  <2>3. <<1 .. y, 1 .. x>> \in StrictSubsetOrdering(Nat)
    BY <2>2 DEF StrictSubsetOrdering
  <2> QED BY <2>1, <2>3, <1>3, <1>4
<1> QED BY <1>5

\* A bounded one has a greatest.
LEMMA GreatestElement ==
    ASSUME NEW T \in SUBSET Nat, T # {}, NEW bound \in Nat, \A n \in T : n <= bound
    PROVE  \E x \in T : \A y \in T : y <= x
<1> DEFINE D == {d \in Nat : bound - d \in T}
<1>1. PICK t \in T : TRUE
  OBVIOUS
<1>2. bound - t \in D
  BY <1>1
<1>3. PICK d \in D : \A e \in D : d <= e
  BY <1>2, LeastElement
<1>4. ASSUME NEW y \in T PROVE y <= bound - d
  <2>1. y \in Nat /\ y <= bound
    OBVIOUS
  <2>2. bound - y \in Nat /\ bound - (bound - y) = y
    BY <2>1
  <2>3. d <= bound - y
    BY <1>3, <2>2
  <2> QED BY <2>1, <2>3
<1> QED BY <1>3, <1>4

-----------------------------------------------------------------------------
(* Lemmas about hashes: a hash is the sequence of what it commits to. *)

Extends(d, c) == Len(c) <= Len(d) /\ \A i \in 1 .. Len(c) : d[i] = c[i]

LEMMA ExtendsReflexive ==
    ASSUME NEW c \in Hash PROVE Extends(c, c)
BY DEF Extends, Hash

\* A longer hash commits to the same front.
LEMMA SameFront ==
    ASSUME NEW c \in Hash, NEW d \in Hash, Extends(d, c), NEW n \in 0 .. Len(c)
    PROVE  SubSeq(d, 1, n) = SubSeq(c, 1, n)
<1>1. Len(c) \in Nat /\ Len(d) \in Nat /\ Len(c) <= Len(d)
  BY DEF Extends, Hash
<1>2. \A i \in 1 .. n : c[i] \in Entry /\ d[i] \in Entry /\ d[i] = c[i]
  BY <1>1, ElementOfSeq DEF Extends, Hash
<1>3. /\ SubSeq(c, 1, n) \in Seq(Entry) /\ Len(SubSeq(c, 1, n)) = n
      /\ \A i \in 1 .. n : SubSeq(c, 1, n)[i] = c[i]
  BY <1>1, <1>2
<1>4. /\ SubSeq(d, 1, n) \in Seq(Entry) /\ Len(SubSeq(d, 1, n)) = n
      /\ \A i \in 1 .. n : SubSeq(d, 1, n)[i] = d[i]
  BY <1>1, <1>2
<1> QED BY <1>2, <1>3, <1>4, SeqEqual

\* What is on a chain stays on it when the chain grows.
LEMMA OnChainExtends ==
    ASSUME NEW c \in Hash, NEW d \in Hash, Extends(d, c), NEW n \in Nat, 1 <= n,
           NEW row, OnChain(n, row, c)
    PROVE  OnChain(n, row, d)
<1>1. Len(c) \in Nat /\ Len(d) \in Nat /\ n <= Len(c)
  BY DEF OnChain, Hash
<1> QED BY <1>1, SameFront DEF OnChain, Extends

\* What a batch adds to the hash of a head.
LEMMA HashAfterExtends ==
    ASSUME NEW events \in Seq(Events), NEW head \in HeadType, Len(head.hash) = head.seq
    PROVE  /\ HashAfter(events, head) \in Hash
           /\ Len(HashAfter(events, head)) = head.seq + Len(events)
           /\ Extends(HashAfter(events, head), head.hash)
           /\ \A k \in 1 .. Len(events) :
                 HashAfter(events, head)[head.seq + k] = [event |-> events[k], seq |-> head.seq + k]
<1> DEFINE h == head.seq
           N == h + Len(events)
           e(k) == IF k <= h THEN head.hash[k] ELSE [event |-> events[k - h], seq |-> k]
<1>1. h \in Nat /\ head.hash \in Seq(Entry) /\ Len(events) \in Nat /\ N \in Nat
  BY DEF HeadType, Hash
<1>2. ASSUME NEW k \in 1 .. N PROVE e(k) \in Entry
  <2>1. CASE k <= h
    <3>1. k \in 1 .. Len(head.hash)
      BY <1>1, <2>1
    <3> QED BY <1>1, <2>1, <3>1, ElementOfSeq
  <2>2. CASE ~(k <= h)
    <3>1. k - h \in 1 .. Len(events) /\ k \in Nat
      BY <1>1, <2>2
    <3>2. events[k - h] \in Events
      BY <3>1, ElementOfSeq
    <3> QED BY <2>2, <3>1, <3>2 DEF Entry
  <2> QED BY <2>1, <2>2
<1>3. HashAfter(events, head) = [k \in 1 .. N |-> e(k)]
  BY DEF HashAfter
<1> HIDE DEF e
<1>4. [k \in 1 .. N |-> e(k)] \in Seq(Entry) /\ Len([k \in 1 .. N |-> e(k)]) = N
  BY <1>1, <1>2, SMT
<1>5. \A k \in 1 .. h : HashAfter(events, head)[k] = head.hash[k]
  BY <1>1, <1>3 DEF e
<1>6. \A k \in 1 .. Len(events) :
        HashAfter(events, head)[h + k] = [event |-> events[k], seq |-> h + k]
  BY <1>1, <1>3, SMTT(20) DEF e
<1>7. HashAfter(events, head) \in Hash /\ Len(HashAfter(events, head)) = N
  BY <1>3, <1>4 DEF Hash
<1>8. Extends(HashAfter(events, head), head.hash)
  BY <1>1, <1>5, <1>7 DEF Extends
<1> QED BY <1>6, <1>7, <1>8

\* A part of the batch has a front of that hash.
LEMMA HashAfterPart ==
    ASSUME NEW events \in Seq(Events), NEW head \in HeadType, Len(head.hash) = head.seq,
           NEW n \in head.seq .. head.seq + Len(events)
    PROVE  HashAfter(SubSeq(events, 1, n - head.seq), head)
             = SubSeq(HashAfter(events, head), 1, n)
<1> DEFINE h == head.seq
           part == SubSeq(events, 1, n - h)
           c == HashAfter(events, head)
           d == HashAfter(part, head)
<1>1. h \in Nat /\ Len(events) \in Nat /\ n \in Nat /\ n - h \in 0 .. Len(events)
  BY DEF HeadType
<1>2. \A i \in 1 .. n - h : events[i] \in Events
  BY <1>1, ElementOfSeq
<1>3. part \in Seq(Events) /\ Len(part) = n - h /\ \A i \in 1 .. n - h : part[i] = events[i]
  BY <1>1, <1>2
<1> HIDE DEF part
<1>4. /\ c \in Hash /\ Len(c) = h + Len(events) /\ \A k \in 1 .. h : c[k] = head.hash[k]
      /\ \A k \in 1 .. Len(events) : c[h + k] = [event |-> events[k], seq |-> h + k]
  BY HashAfterExtends, <1>1 DEF Extends
<1>5. /\ d \in Hash /\ Len(d) = n /\ \A k \in 1 .. h : d[k] = head.hash[k]
      /\ \A k \in 1 .. n - h : d[h + k] = [event |-> events[k], seq |-> h + k]
  <2>1. /\ d \in Hash /\ Len(d) = h + Len(part) /\ Extends(d, head.hash)
        /\ \A k \in 1 .. Len(part) : d[h + k] = [event |-> part[k], seq |-> h + k]
    BY <1>3, HashAfterExtends
  <2>2. h + Len(part) = n
    BY <1>1, <1>3
  <2> QED BY <1>3, <2>1, <2>2 DEF Extends
<1> HIDE DEF c, d
<1>6. \A k \in 1 .. n : c[k] = d[k]
  <2> TAKE k \in 1 .. n
  <2>1. CASE k <= h
    BY <2>1, <1>1, <1>4, <1>5
  <2>2. CASE h < k
    <3>1. k - h \in 1 .. n - h /\ k - h \in 1 .. Len(events) /\ h + (k - h) = k
      BY <2>2, <1>1
    <3> QED BY <3>1, <1>4, <1>5, ZenonT(40)
  <2> QED BY <2>1, <2>2, <1>1
<1>7. Extends(c, d)
  BY <1>1, <1>4, <1>5, <1>6 DEF Extends
<1>8. SubSeq(c, 1, n) = SubSeq(d, 1, n)
  BY <1>1, <1>4, <1>5, <1>7, SameFront
<1>9. SubSeq(d, 1, n) = d
  BY <1>5, SubSeqFull DEF Hash
<1> QED BY <1>8, <1>9 DEF c, d, part

\* The rows of a batch are on the chain that they make.
LEMMA ChainBatchOnChain ==
    ASSUME NEW events \in Seq(Events), NEW head \in HeadType, Len(head.hash) = head.seq
    PROVE  LET rows == ChainBatch(events, head)
           IN  /\ rows \in Rows
               /\ DOMAIN rows = head.seq + 1 .. head.seq + Len(events)
               /\ \A n \in DOMAIN rows :
                     rows[n].event = events[n - head.seq] /\ OnChain(n, rows[n], HashAfter(events, head))
<1> DEFINE h == head.seq
           rows == ChainBatch(events, head)
           c == HashAfter(events, head)
           N == h + Len(events)
<1>1. h \in Nat /\ Len(events) \in Nat
  BY DEF HeadType
<1>2. /\ c \in Hash /\ Len(c) = N
      /\ \A k \in 1 .. Len(events) : c[h + k] = [event |-> events[k], seq |-> h + k]
  BY HashAfterExtends
<1>3. DOMAIN rows = h + 1 .. N
  BY DEF ChainBatch
<1>4. ASSUME NEW n \in h + 1 .. N
      PROVE  rows[n] \in Row /\ rows[n].event = events[n - h] /\ OnChain(n, rows[n], c)
  <2>1. n \in h .. N /\ n - h \in 1 .. Len(events) /\ h + (n - h) = n /\ n \in 1 .. N
    BY <1>1
  <2>2. HashAfter(SubSeq(events, 1, n - h), head) = SubSeq(c, 1, n)
    BY <2>1, HashAfterPart
  <2>3. \A i \in 1 .. n : c[i] \in Entry
    BY <1>1, <1>2, <2>1, ElementOfSeq DEF Hash
  <2>4. SubSeq(c, 1, n) \in Hash
    BY <1>1, <2>3, SubSeqProperties DEF Hash
  <2>5. events[n - h] \in Events
    BY <2>1, ElementOfSeq
  <2>6. rows[n] = [event |-> events[n - h], hash |-> SubSeq(c, 1, n)]
    BY <2>1, <2>2 DEF ChainBatch
  <2>7. c[n] = [event |-> events[n - h], seq |-> n] /\ n <= Len(c)
    BY <1>1, <1>2, <2>1, SMTT(20)
  <2> HIDE DEF rows, c
  <2> QED BY <2>4, <2>5, <2>6, <2>7 DEF Row, OnChain
<1>5. rows \in [h + 1 .. N -> Row]
  <2>1. rows = [n \in h + 1 .. N |-> rows[n]]
    BY DEF ChainBatch
  <2> HIDE DEF rows, h, N
  <2> QED BY <1>4, <2>1
<1>6. h + 1 .. N \in SUBSET Nat
  BY <1>1
<1>7. rows \in Rows
  BY <1>5, <1>6 DEF Rows
<1> HIDE DEF rows, c
<1> QED BY <1>3, <1>4, <1>7 DEF rows, c

-----------------------------------------------------------------------------
(* Lemmas about tables. *)

LEMMA RowsType ==
    ASSUME NEW rows \in Rows
    PROVE  /\ DOMAIN rows \in SUBSET Nat
           /\ rows = [n \in DOMAIN rows |-> rows[n]]
           /\ \A n \in DOMAIN rows : rows[n] \in Row /\ rows[n].event \in Events /\ rows[n].hash \in Hash
<1>1. PICK S \in SUBSET Nat : rows \in [S -> Row]
  BY DEF Rows
<1> QED BY <1>1 DEF Row

LEMMA RowsIntro ==
    ASSUME NEW S \in SUBSET Nat, NEW rows \in [S -> Row]
    PROVE  rows \in Rows
BY DEF Rows

\* Tables with the same rows are equal.
LEMMA RowsEqual ==
    ASSUME NEW r \in Rows, NEW t \in Rows, DOMAIN r = DOMAIN t, \A n \in DOMAIN r : r[n] = t[n]
    PROVE  r = t
<1>1. r = [n \in DOMAIN r |-> r[n]] /\ t = [n \in DOMAIN t |-> t[n]]
  BY RowsType
<1> QED BY <1>1

LEMMA NoRowsType == NoRows \in Rows /\ DOMAIN NoRows = {} /\ NoHead \in HeadType
<1>1. NoRows \in [{} -> Row] /\ DOMAIN NoRows = {}
  BY DEF NoRows
<1>2. <<>> \in Hash
  BY DEF Hash
<1> QED BY <1>1, <1>2, RowsIntro DEF NoHead, GENESIS, HeadType

LEMMA OnlyType ==
    ASSUME NEW rows \in Rows, NEW S \in SUBSET Nat, S \subseteq DOMAIN rows
    PROVE  /\ Only(rows, S) \in Rows /\ DOMAIN Only(rows, S) = S
           /\ \A n \in S : Only(rows, S)[n] = rows[n]
<1>1. \A n \in S : rows[n] \in Row
  BY RowsType
<1>2. Only(rows, S) \in [S -> Row]
  BY <1>1 DEF Only
<1> QED BY <1>2, RowsIntro DEF Only

LEMMA InsertType ==
    ASSUME NEW table \in [Streams -> Rows], NEW s \in Streams, NEW rows \in Rows
    PROVE  /\ Insert(table, s, rows) \in [Streams -> Rows]
           /\ DOMAIN Insert(table, s, rows)[s] = DOMAIN rows \cup DOMAIN table[s]
           /\ \A n \in DOMAIN rows : Insert(table, s, rows)[s][n] = rows[n]
           /\ \A n \in DOMAIN table[s] \ DOMAIN rows : Insert(table, s, rows)[s][n] = table[s][n]
           /\ \A t \in Streams \ {s} : Insert(table, s, rows)[t] = table[t]
<1> DEFINE D == DOMAIN rows \cup DOMAIN table[s]
           new == [n \in D |-> IF n \in DOMAIN rows THEN rows[n] ELSE table[s][n]]
<1>1. /\ DOMAIN rows \in SUBSET Nat /\ DOMAIN table[s] \in SUBSET Nat
      /\ \A n \in DOMAIN rows : rows[n] \in Row
      /\ \A n \in DOMAIN table[s] : table[s][n] \in Row
  BY RowsType
<1>2. new \in [D -> Row]
  BY <1>1
<1>3. new \in Rows
  BY <1>1, <1>2, RowsIntro
<1>4. Insert(table, s, rows) = [table EXCEPT ![s] = new]
  BY DEF Insert
<1>5. /\ DOMAIN new = D
      /\ \A n \in DOMAIN rows : new[n] = rows[n]
      /\ \A n \in DOMAIN table[s] \ DOMAIN rows : new[n] = table[s][n]
  OBVIOUS
<1> HIDE DEF new
<1> QED BY <1>3, <1>4, <1>5

\* First, last and head of rows without a gap.
LEMMA HeadOfInterval ==
    ASSUME NEW rows, NEW a \in Nat, NEW b \in Nat, a <= b, DOMAIN rows = a .. b
    PROVE  /\ First(rows) = a /\ Last(rows) = b
           /\ HeadOf(rows) = [seq |-> b, hash |-> rows[b].hash]
<1>1. a \in DOMAIN rows /\ b \in DOMAIN rows /\ \A n \in DOMAIN rows : n \in Nat /\ a <= n /\ n <= b
  OBVIOUS
<1>2. First(rows) = a
  BY <1>1 DEF First
<1>3. Last(rows) = b
  BY <1>1 DEF Last
<1> QED BY <1>1, <1>2, <1>3 DEF HeadOf

\* What ChainInv and the types say of a stream.
LEMMA ChainFacts ==
    ASSUME TypeOK, ChainInv, NEW s \in Streams
    PROVE  /\ Chain(s) \in Hash /\ Len(Chain(s)) \in Nat
           /\ HeadOf(audits[s]) \in HeadType /\ HeadOf(audits[s]).seq = Len(Chain(s))
           /\ DOMAIN audits[s] \subseteq 1 .. Len(Chain(s))
           /\ DOMAIN audits[s] = {} => Chain(s) = <<>> /\ Len(Chain(s)) = 0
           /\ DOMAIN audits[s] # {} =>
                 /\ First(audits[s]) \in 1 .. Len(Chain(s))
                 /\ DOMAIN audits[s] = First(audits[s]) .. Len(Chain(s))
                 /\ Last(audits[s]) = Len(Chain(s))
<1>1. audits[s] \in Rows
  BY DEF TypeOK
<1>2. CASE DOMAIN audits[s] = {}
  BY <1>2, NoRowsType DEF HeadOf, Chain, NoHead, GENESIS, HeadType
<1>3. CASE DOMAIN audits[s] # {}
  <2>1. PICK a \in 1 .. Len(Chain(s)) : DOMAIN audits[s] = a .. Len(Chain(s))
    BY <1>3 DEF ChainInv
  <2>2. Chain(s) \in Hash /\ Len(Chain(s)) \in Nat /\ a \in Nat /\ a <= Len(Chain(s))
    BY DEF ChainInv, Hash
  <2>3. /\ First(audits[s]) = a /\ Last(audits[s]) = Len(Chain(s))
        /\ HeadOf(audits[s]) = [seq |-> Len(Chain(s)), hash |-> audits[s][Len(Chain(s))].hash]
    BY <2>1, <2>2, HeadOfInterval
  <2>4. HeadOf(audits[s]) \in HeadType
    BY <2>2, <2>3 DEF HeadType, Chain
  <2> QED BY <1>3, <2>1, <2>2, <2>3, <2>4
<1> QED BY <1>2, <1>3

-----------------------------------------------------------------------------
(* The inductive invariant implies what the runs check. *)

LEMMA InvGivesOneChain == IInv => OneChain
<1> SUFFICES ASSUME IInv, NEW s \in Streams
             PROVE  LET head == HeadOf(audits[s]) IN
                    /\ Len(head.hash) = head.seq
                    /\ DOMAIN audits[s] # {} => DOMAIN audits[s] = First(audits[s]) .. head.seq
                    /\ \A n \in DOMAIN audits[s] : OnChain(n, audits[s][n], head.hash)
                    /\ \A n \in DOMAIN archive[s] : n < head.seq /\ OnChain(n, archive[s][n], head.hash)
                    /\ \A n \in DOMAIN checkpoints[s] :
                          n < First(audits[s]) /\ OnChain(n, checkpoints[s][n], head.hash)
  BY DEF OneChain
<1> USE DEF IInv
<1>1. /\ HeadOf(audits[s]).hash = Chain(s) /\ HeadOf(audits[s]).seq = Len(Chain(s))
      /\ Len(Chain(s)) \in Nat
  BY ChainFacts DEF Chain
<1>2. DOMAIN audits[s] # {} =>
        First(audits[s]) \in Nat /\ DOMAIN audits[s] = First(audits[s]) .. Len(Chain(s))
  BY ChainFacts
<1>3. ASSUME NEW n \in DOMAIN checkpoints[s]
      PROVE  n < First(audits[s]) /\ OnChain(n, checkpoints[s][n], Chain(s))
  <2>1. 1 <= n /\ n \notin DOMAIN audits[s] /\ OnChain(n, checkpoints[s][n], Chain(s))
    BY DEF ChainInv
  <2>2. n \in Nat /\ n <= Len(Chain(s))
    BY <2>1, RowsType DEF OnChain, TypeOK
  <2>3. DOMAIN audits[s] # {}
    BY <1>1, <2>1, <2>2, ChainFacts
  <2> QED BY <1>1, <1>2, <2>1, <2>2, <2>3
<1> QED BY <1>1, <1>2, <1>3 DEF ChainInv

LEMMA InvGivesArchivedFirst == IInv => ArchivedFirst
<1> SUFFICES ASSUME IInv, NEW s \in Streams
             PROVE  /\ DOMAIN audits[s] # {} =>
                          \A n \in 1 .. First(audits[s]) - 1 :
                              n \in DOMAIN archive[s] /\ Result(s, n, archive[s][n]) \in exported
                    /\ \A n \in DOMAIN archive[s] : Result(s, n, archive[s][n]) \in exported
  BY DEF ArchivedFirst
<1> USE DEF IInv
<1>1. \A n \in DOMAIN archive[s] : Result(s, n, archive[s][n]) \in exported
  BY DEF ChainInv
<1>2. ASSUME DOMAIN audits[s] # {}, NEW n \in 1 .. First(audits[s]) - 1
      PROVE  n \in DOMAIN archive[s]
  <2>1. /\ First(audits[s]) \in 1 .. Len(Chain(s)) /\ Len(Chain(s)) \in Nat
        /\ DOMAIN audits[s] = First(audits[s]) .. Len(Chain(s))
    BY <1>2, ChainFacts
  <2>2. n \in 1 .. Len(Chain(s)) /\ n \notin DOMAIN audits[s]
    BY <2>1
  <2> QED BY <2>2 DEF ChainInv
<1> QED BY <1>1, <1>2

LEMMA InvGivesReturnedResolves == IInv => ReturnedResolves
<1> SUFFICES ASSUME IInv, NEW r \in returned
             PROVE  Resolves(r.stream, r.seq) = r.hash
  BY DEF ReturnedResolves
<1> USE DEF IInv
<1>1. r.stream \in Streams /\ r.seq \in 1 .. Len(Chain(r.stream)) /\ r.hash = SubSeq(Chain(r.stream), 1, r.seq)
  BY DEF ReturnInv, OnRecord, TypeOK, Results
<1>2. CASE r.seq \in DOMAIN audits[r.stream]
  BY <1>1, <1>2 DEF Resolves, ChainInv, OnChain
<1>3. CASE r.seq \notin DOMAIN audits[r.stream]
  <2>1. r.seq \in DOMAIN archive[r.stream]
    BY <1>1, <1>3 DEF ChainInv
  <2> QED BY <1>1, <1>3, <2>1 DEF Resolves, ChainInv, OnChain
<1> QED BY <1>2, <1>3

LEMMA InitInv == Init => IInv
<1> SUFFICES ASSUME Init PROVE IInv
  OBVIOUS
<1>1. \A s \in Streams : audits[s] = NoRows /\ archive[s] = NoRows /\ checkpoints[s] = NoRows
  BY DEF Init
<1>2. \A s \in Streams : Chain(s) = <<>> /\ Len(Chain(s)) = 0 /\ Chain(s) \in Hash
  BY <1>1, NoRowsType DEF Chain, HeadOf, NoHead, GENESIS, Hash
<1>3. TypeOK
  <2>1. /\ audits \in [Streams -> Rows] /\ archive \in [Streams -> Rows]
        /\ checkpoints \in [Streams -> Rows] /\ DOMAIN lock = Streams
    BY NoRowsType DEF Init
  <2>2. <<>> \in Seq(Events)
    OBVIOUS
  <2>3. writer \in [Writers ->
           [phase : WriterPhases, batch : Seq(Events), todo : SUBSET Nat,
            stream : Streams \cup {Free}, head : HeadType, rows : Rows, results : SUBSET Results]]
    BY <2>2, NoRowsType DEF Init, IdleWriter, WriterPhases
  <2>4. pruner \in [Pruners ->
           [phase : PrunerPhases, todo : SUBSET Streams, filter : Filters \cup {"none"},
            cutoff : SUBSET Events, stream : Streams \cup {Free}, rows : Rows, missing : SUBSET Nat]]
    BY NoRowsType DEF Init, IdlePruner, PrunerPhases
  <2> QED BY <2>1, <2>3, <2>4 DEF Init, TypeOK
<1>4. ChainInv
  BY <1>1, <1>2, NoRowsType DEF ChainInv
<1>5. IdInv
  BY <1>2 DEF IdInv
<1>6. WriterInv /\ PendingInv
  BY DEF Init, WriterInv, WriterOk, PendingInv, IdleWriter, InTransaction, Headed, Pending
<1>7. PrunerInv
  BY DEF Init, PrunerInv, PrunerOk, IdlePruner
<1>8. ReturnInv
  BY DEF Init, ReturnInv
<1> QED BY <1>3, <1>4, <1>5, <1>6, <1>7, <1>8 DEF IInv

-----------------------------------------------------------------------------
(* What a step keeps. *)

\* The chains only grow.
Grown ==
    \A s \in Streams : Chain(s) \in Hash /\ Chain(s)' \in Hash /\ Extends(Chain(s)', Chain(s))

LEMMA GrownFacts ==
    ASSUME Grown, NEW s \in Streams
    PROVE  /\ Len(Chain(s)) \in Nat /\ Len(Chain(s)') \in Nat
           /\ Len(Chain(s)) <= Len(Chain(s)')
           /\ \A i \in 1 .. Len(Chain(s)) : Chain(s)'[i] = Chain(s)[i] /\ IdAt(s, i)' = IdAt(s, i)
           /\ \A n \in 0 .. Len(Chain(s)) : SubSeq(Chain(s)', 1, n) = SubSeq(Chain(s), 1, n)
<1>1. Chain(s) \in Hash /\ Chain(s)' \in Hash /\ Extends(Chain(s)', Chain(s))
  BY DEF Grown
<1>2. Len(Chain(s)) \in Nat /\ Len(Chain(s)') \in Nat
  BY <1>1 DEF Hash
<1>3. \A n \in 0 .. Len(Chain(s)) : SubSeq(Chain(s)', 1, n) = SubSeq(Chain(s), 1, n)
  BY <1>1, SameFront
<1> QED BY <1>1, <1>2, <1>3 DEF Extends, IdAt

LEMMA SameTablesGrow ==
    ASSUME TypeOK, ChainInv, UNCHANGED audits
    PROVE  Grown /\ \A s \in Streams : Chain(s)' = Chain(s)
BY ChainFacts, ExtendsReflexive DEF Grown, Chain

LEMMA OnRecordKept ==
    ASSUME Grown, NEW r \in Results, OnRecord(r)
    PROVE  OnRecord(r)'
<1>1. r.stream \in Streams
  BY DEF Results
<1> QED BY <1>1, GrownFacts DEF OnRecord

LEMMA PastKept ==
    ASSUME expired \subseteq expired', NEW id, Past(id)
    PROVE  Past(id)'
BY DEF Past

LEMMA ReturnKept ==
    ASSUME TypeOK, Grown, ReturnInv, UNCHANGED returned
    PROVE  ReturnInv'
BY OnRecordKept DEF ReturnInv, TypeOK

\* A writer that does not take part in a step, when the chains grow by events that are not
\* past and none of them stands in the way of its rows.
LEMMA WriterKept ==
    ASSUME TypeOK, Grown, UNCHANGED expired, NEW w \in Writers, writer'[w] = writer[w], WriterOk(w),
           \A s \in Streams : \A i \in Len(Chain(s)) + 1 .. Len(Chain(s)') : ~Past(IdAt(s, i))',
           writer[w].phase \in Pending => ~Refuses(audits', writer[w].stream, writer[w].rows)
    PROVE  WriterOk(w)'
<1>1. /\ writer[w].results \subseteq Results /\ writer[w].head \in HeadType
      /\ \A id : Past(id)' <=> Past(id)
  BY DEF TypeOK, Past
<1>2. writer[w].phase # "idle" => \A r \in writer[w].results : OnRecord(r)'
  BY <1>1, OnRecordKept DEF WriterOk
<1>3. ASSUME writer[w].phase \in Headed PROVE HeadIsRecent(w)'
  <2> DEFINE s == writer[w].stream
             head == writer[w].head
  <2>1. /\ s \in Streams /\ head.seq \in Nat
        /\ Len(head.hash) = head.seq /\ head.seq <= Len(Chain(s))
        /\ head.hash = SubSeq(Chain(s), 1, head.seq)
        /\ \A i \in head.seq + 1 .. Len(Chain(s)) : ~Past(IdAt(s, i))
    BY <1>1, <1>3 DEF WriterOk, HeadIsRecent, Headed, InTransaction, HeadType
  <2>2. /\ Len(Chain(s)) \in Nat /\ Len(Chain(s)') \in Nat /\ Len(Chain(s)) <= Len(Chain(s)')
        /\ \A i \in 1 .. Len(Chain(s)) : IdAt(s, i)' = IdAt(s, i)
        /\ SubSeq(Chain(s)', 1, head.seq) = SubSeq(Chain(s), 1, head.seq)
    BY <2>1, GrownFacts
  <2>3. ASSUME NEW i \in head.seq + 1 .. Len(Chain(s)') PROVE ~Past(IdAt(s, i))'
    <3>1. CASE i <= Len(Chain(s))
      <4>1. i \in head.seq + 1 .. Len(Chain(s)) /\ i \in 1 .. Len(Chain(s))
        BY <2>1, <2>2, <3>1
      <4> QED BY <1>1, <2>1, <2>2, <4>1
    <3>2. CASE Len(Chain(s)) < i
      <4>1. i \in Len(Chain(s)) + 1 .. Len(Chain(s)')
        BY <2>1, <2>2, <3>2
      <4> QED BY <1>1, <2>1, <4>1
    <3> QED BY <2>1, <2>2, <3>1, <3>2
  <2>4. head.seq <= Len(Chain(s)') /\ head.hash = SubSeq(Chain(s)', 1, head.seq)
    BY <2>1, <2>2
  <2> QED BY <2>1, <2>3, <2>4 DEF HeadIsRecent
<1>4. writer[w].phase \in Pending => RowsFit(w)'
  BY DEF WriterOk, RowsFit, Refuses
<1>5. writer[w].phase \in InTransaction => writer[w].stream \in Streams /\ Positions(w)' # {}
  BY DEF WriterOk, Positions
<1>6. writer[w].phase # "idle" =>
        /\ \A i \in DOMAIN writer[w].batch : ~Past(IdOf[writer[w].batch[i]])'
        /\ writer[w].todo \subseteq DOMAIN writer[w].batch
        /\ \A i, j \in writer[w].todo : SameId(writer[w].batch[i], writer[w].batch[j]) => i = j
  BY <1>1 DEF WriterOk
<1> QED BY <1>2, <1>3, <1>4, <1>5, <1>6 DEF WriterOk

LEMMA IdleWriterOk ==
    ASSUME NEW w \in Writers, writer[w].phase = "idle"
    PROVE  WriterOk(w)
BY DEF WriterOk, InTransaction, Headed, Pending

\* The same while the live rows do not change.
LEMMA WriterKeptSame ==
    ASSUME TypeOK, ChainInv, UNCHANGED <<audits, expired>>, NEW w \in Writers,
           writer'[w] = writer[w], WriterOk(w)
    PROVE  WriterOk(w)'
<1>1. Grown /\ \A s \in Streams : Chain(s)' = Chain(s)
  BY SameTablesGrow
<1>2. \A s \in Streams : \A i \in Len(Chain(s)) + 1 .. Len(Chain(s)') : FALSE
  BY <1>1, ChainFacts
<1>3. writer[w].phase \in Pending => ~Refuses(audits', writer[w].stream, writer[w].rows)
  BY DEF WriterOk, RowsFit
<1> QED BY <1>1, <1>2, <1>3, WriterKept

\* A pruner that does not take part in a step.
LEMMA PrunerKept ==
    ASSUME TypeOK, Grown, expired \subseteq expired', exported \subseteq exported',
           \A s \in Streams : DOMAIN archive[s] \subseteq DOMAIN archive'[s],
           \A s \in Streams : \A n \in DOMAIN audits'[s] : n \in DOMAIN audits[s] \/ Len(Chain(s)) < n,
           TypeOK', NEW p \in Pruners, pruner'[p] = pruner[p], PrunerOk(p)
    PROVE  PrunerOk(p)'
<1>1. ASSUME pruner[p].phase \in {"selected", "exported", "archived"}, SelectionOk(p)
      PROVE  SelectionOk(p)'
  <2> DEFINE s == pruner[p].stream
             rows == pruner[p].rows
  <2>1. s \in Streams
    BY <1>1 DEF SelectionOk
  <2>2. PICK a, k \in Nat :
              /\ 1 <= a /\ a <= k /\ k < Len(Chain(s)) /\ DOMAIN rows = a .. k
              /\ \A n \in DOMAIN audits[s] : a <= n
    BY <1>1 DEF SelectionOk
  <2>3. /\ Len(Chain(s)) \in Nat /\ Len(Chain(s)') \in Nat /\ Len(Chain(s)) <= Len(Chain(s)')
        /\ Chain(s) \in Hash /\ Chain(s)' \in Hash /\ Extends(Chain(s)', Chain(s))
    BY <2>1, GrownFacts DEF Grown
  <2>4. \A n \in DOMAIN audits'[s] : a <= n
    <3>1. \A n \in DOMAIN audits'[s] : n \in Nat
      BY <2>1, RowsType DEF TypeOK
    <3> QED BY <2>1, <2>2, <2>3, <3>1
  <2>5. ASSUME NEW n \in DOMAIN rows
        PROVE  OnChain(n, rows[n], Chain(s)') /\ Past(IdOf[rows[n].event])'
    <3>1. OnChain(n, rows[n], Chain(s)) /\ Past(IdOf[rows[n].event]) /\ n \in Nat /\ 1 <= n
      BY <1>1, <2>2 DEF SelectionOk
    <3>2. OnChain(n, rows[n], Chain(s)')
      BY <2>3, <3>1, OnChainExtends
    <3> QED BY <3>1, <3>2, PastKept
  <2>6. k < Len(Chain(s)')
    BY <2>2, <2>3
  <2> QED BY <2>1, <2>2, <2>4, <2>5, <2>6 DEF SelectionOk
<1>2. pruner[p].phase \in {"exported", "archived"} => pruner[p].stream \in Streams
  BY DEF PrunerOk, SelectionOk
<1> QED BY <1>1, <1>2 DEF PrunerOk

LEMMA ChainKept ==
    ASSUME TypeOK, ChainInv, IdInv, UNCHANGED tables, expired \subseteq expired', exported \subseteq exported'
    PROVE  ChainInv' /\ IdInv'
<1>1. \A s \in Streams : Chain(s)' = Chain(s) /\ \A i : IdAt(s, i)' = IdAt(s, i)
  BY DEF Chain, IdAt, tables
<1>2. \A id : Past(id) => Past(id)'
  BY PastKept
<1>3. audits' = audits /\ archive' = archive /\ checkpoints' = checkpoints
  BY DEF tables
<1>4. IdInv'
  BY <1>1 DEF IdInv
<1>5. ASSUME NEW s \in Streams
      PROVE  \A i \in 1 .. Len(Chain(s)) : i \notin DOMAIN audits[s] => Past(IdAt(s, i))' /\ i \in DOMAIN archive[s]
  BY <1>1, <1>2 DEF ChainInv
<1>6. ChainInv'
  BY <1>1, <1>2, <1>3 DEF ChainInv
<1> QED BY <1>4, <1>6

-----------------------------------------------------------------------------
(* Types of the steps of write(). *)

WriterType ==
    [phase : WriterPhases, batch : Seq(Events), todo : SUBSET Nat, stream : Streams \cup {Free},
     head : HeadType, rows : Rows, results : SUBSET Results]

LEMMA IdleWriterType == IdleWriter \in WriterType
<1>1. <<>> \in Seq(Events)
  OBVIOUS
<1> QED BY <1>1, NoRowsType DEF WriterType, IdleWriter, WriterPhases

LEMMA WriterFields ==
    ASSUME TypeOK, NEW w \in Writers
    PROVE  /\ writer[w] \in WriterType
           /\ writer[w].phase \in WriterPhases /\ writer[w].batch \in Seq(Events)
           /\ writer[w].todo \in SUBSET Nat /\ writer[w].stream \in Streams \cup {Free}
           /\ writer[w].head \in HeadType /\ writer[w].rows \in Rows
           /\ writer[w].results \in SUBSET Results
<1>1. writer[w] \in WriterType
  BY DEF TypeOK, WriterType
<1> QED BY <1>1 DEF WriterType

\* The results of rows of a table are results.
LEMMA ResultType ==
    ASSUME NEW s \in Streams, NEW rows \in Rows, NEW n \in DOMAIN rows
    PROVE  Result(s, n, rows[n]) \in Results
BY RowsType DEF Result, Results

\* The events that are put into one insert.
LEMMA PositionsFacts ==
    ASSUME TypeOK, NEW w \in Writers, writer[w].todo \subseteq DOMAIN writer[w].batch,
           NEW f \in InOrder(Positions(w))
    PROVE  LET events == [k \in DOMAIN f |-> writer[w].batch[f[k]]]
           IN  /\ events \in Seq(Events) /\ DOMAIN events = DOMAIN f
               /\ \A k \in DOMAIN f : f[k] \in Positions(w) /\ f[k] \in DOMAIN writer[w].batch
               /\ \A k, l \in DOMAIN f : f[k] = f[l] => k = l
               /\ Positions(w) # {} => events # <<>>
<1> DEFINE P == Positions(w)
           N == Cardinality(P)
           events == [k \in DOMAIN f |-> writer[w].batch[f[k]]]
<1>1. P \subseteq DOMAIN writer[w].batch /\ writer[w].batch \in Seq(Events)
  BY WriterFields DEF Positions
<1>2. Len(writer[w].batch) \in Nat /\ DOMAIN writer[w].batch = 1 .. Len(writer[w].batch)
  BY <1>1
<1>3. IsFiniteSet(P)
  <2>1. IsFiniteSet(1 .. Len(writer[w].batch))
    BY <1>2, FS_Interval
  <2> QED BY <1>1, <1>2, <2>1, FS_Subset
<1>4. N \in Nat /\ (P # {} => N # 0)
  BY <1>3, FS_CardinalityType, FS_EmptySet
<1>5. f \in [1 .. N -> P] /\ \A i, j \in 1 .. N : i < j => f[i] < f[j]
  BY DEF InOrder
<1> HIDE DEF P, N
<1>6. \A k \in 1 .. N : f[k] \in DOMAIN writer[w].batch /\ writer[w].batch[f[k]] \in Events
  BY <1>1, <1>2, <1>5
<1>7. events \in [1 .. N -> Events]
  BY <1>5, <1>6
<1>8. events \in Seq(Events) /\ Len(events) = N
  BY <1>4, <1>7
<1>9. ASSUME NEW k \in 1 .. N, NEW l \in 1 .. N, f[k] = f[l] PROVE k = l
  <2>1. f[k] \in Nat /\ f[l] \in Nat /\ k \in Nat /\ l \in Nat
    BY <1>2, <1>4, <1>6
  <2> QED BY <1>5, <1>9, <2>1
<1>10. P # {} => events # <<>>
  BY <1>4, <1>8
<1>11. DOMAIN f = 1 .. N
  BY <1>5
<1> QED BY <1>5, <1>6, <1>8, <1>9, <1>10, <1>11 DEF P

LEMMA WriterStepType ==
    ASSUME TypeOK, UNCHANGED <<writeFrame, prunes>>, writer' \in [Writers -> WriterType],
           audits' \in [Streams -> Rows], DOMAIN lock' = Streams, returned' \subseteq Results,
           calls' \in Nat, faults' \in Nat
    PROVE  TypeOK'
BY DEF TypeOK, writeFrame, WriterType

LEMMA WriteTypeOK ==
    ASSUME TypeOK, NEW w \in Writers, NEW b \in Batches, Write(w, b)
    PROVE  TypeOK'
<1> USE DEF TypeOK
<1>1. b \in Seq(Events) /\ DOMAIN b \subseteq Nat
  BY EventsAssumption
<1>2. writer \in [Writers -> WriterType]
  BY DEF WriterType
<1>3. writer' \in [Writers -> WriterType]
  <2>1. CASE ~Conflicts(b)
    <3> DEFINE R == UNION {{Result(r[1], r[2], audits[r[1]][r[2]]) : r \in StoredAs(b[i])} : i \in DOMAIN b}
    <3>1. R \subseteq Results
      <4> SUFFICES ASSUME NEW i \in DOMAIN b, NEW r \in StoredAs(b[i])
                   PROVE  Result(r[1], r[2], audits[r[1]][r[2]]) \in Results
        OBVIOUS
      <4>1. PICK s \in Streams : \E n \in DOMAIN audits[s] : r = <<s, n>>
        BY DEF StoredAs
      <4>2. PICK n \in DOMAIN audits[s] : r = <<s, n>>
        BY <4>1
      <4> QED BY <4>2, ResultType
    <3>2. ToWrite(b) \in SUBSET Nat
      BY <1>1 DEF ToWrite
    <3> HIDE DEF R
    <3>3. [IdleWriter EXCEPT !.phase = "open", !.batch = b, !.todo = ToWrite(b), !.results = R] \in WriterType
      BY <1>1, <3>1, <3>2, IdleWriterType DEF WriterType, WriterPhases
    <3>4. writer' = [writer EXCEPT ![w] =
              [IdleWriter EXCEPT !.phase = "open", !.batch = b, !.todo = ToWrite(b), !.results = R]]
          \/ UNCHANGED writer
      BY <2>1 DEF Write, R
    <3> QED BY <1>2, <3>3, <3>4
  <2>2. CASE Conflicts(b)
    BY <1>2, <2>2 DEF Write
  <2> QED BY <2>1, <2>2
<1>4. calls' \in Nat
  BY DEF Write
<1> QED BY <1>3, <1>4, WriterStepType DEF Write

-----------------------------------------------------------------------------
(* The steps of write() that leave the tables alone. *)

LEMMA QuietWriterStep ==
    ASSUME IInv, NEW w \in Writers, UNCHANGED <<writeFrame, audits, prunes>>,
           writer' \in [Writers -> WriterType], \A v \in Writers \ {w} : writer'[v] = writer[v],
           DOMAIN lock' = Streams, calls' \in Nat, faults' \in Nat, returned' \subseteq Results,
           \A r \in returned' : r \in returned \/ OnRecord(r),
           WriterOk(w)',
           writer'[w].phase \in Pending =>
               \A v \in Writers \ {w} : writer[v].phase \in Pending => Apart(writer'[w], writer[v])
    PROVE  IInv'
<1> USE DEF IInv
<1>1. TypeOK'
  BY WriterStepType DEF TypeOK
<1>2. Grown /\ \A s \in Streams : Chain(s)' = Chain(s)
  BY SameTablesGrow
<1>3. ChainInv' /\ IdInv'
  BY ChainKept DEF tables, writeFrame
<1>4. WriterInv'
  <2>1. ASSUME NEW v \in Writers \ {w} PROVE WriterOk(v)'
    BY WriterKeptSame DEF writeFrame, WriterInv
  <2> QED BY <2>1 DEF WriterInv
<1>5. PendingInv'
  <2>1. ASSUME NEW u \in Writers, NEW v \in Writers, u # v,
               writer'[u].phase \in Pending, writer'[v].phase \in Pending
        PROVE  Apart(writer'[u], writer'[v])
    <3>1. CASE u = w
      BY <2>1, <3>1
    <3>2. CASE v = w
      <4>1. Apart(writer'[v], writer'[u])
        BY <2>1, <3>2
      <4> QED BY <4>1 DEF Apart
    <3>3. CASE u # w /\ v # w
      BY <2>1, <3>3 DEF PendingInv
    <3> QED BY <3>1, <3>2, <3>3
  <2> QED BY <2>1 DEF PendingInv, Apart
<1>6. PrunerInv'
  BY <1>1, <1>2, PrunerKept DEF PrunerInv, writeFrame
<1>7. ReturnInv'
  BY <1>2 DEF ReturnInv, OnRecord, Results, TypeOK
<1> QED BY <1>1, <1>3, <1>4, <1>5, <1>6, <1>7

\* What write() finds in the table is on record.
LEMMA StoredIsOnRecord ==
    ASSUME IInv, NEW e \in Events, NEW r \in StoredAs(e)
    PROVE  /\ Result(r[1], r[2], audits[r[1]][r[2]]) \in Results
           /\ OnRecord(Result(r[1], r[2], audits[r[1]][r[2]]))
<1> USE DEF IInv
<1>1. PICK s \in Streams : \E n \in DOMAIN audits[s] : r = <<s, n>>
  BY DEF StoredAs
<1>2. PICK n \in DOMAIN audits[s] : r = <<s, n>>
  BY <1>1
<1>3. Result(s, n, audits[s][n]) \in Results
  BY ResultType DEF TypeOK
<1>4. n \in 1 .. Len(Chain(s)) /\ OnChain(n, audits[s][n], Chain(s))
  BY ChainFacts DEF ChainInv
<1> QED BY <1>2, <1>3, <1>4 DEF OnRecord, Result, OnChain

\* The positions that write() has to write have different ids.
LEMMA ToWriteFacts ==
    ASSUME NEW b \in Seq(Events)
    PROVE  /\ ToWrite(b) \subseteq DOMAIN b /\ DOMAIN b \subseteq Nat
           /\ \A i, j \in ToWrite(b) : SameId(b[i], b[j]) => i = j
<1>1. DOMAIN b \subseteq Nat /\ ToWrite(b) \subseteq DOMAIN b
  BY DEF ToWrite
<1>2. ASSUME NEW i \in ToWrite(b), NEW j \in ToWrite(b), SameId(b[i], b[j]), i # j
      PROVE  FALSE
  <2>1. i \in Nat /\ j \in Nat /\ 1 <= i /\ 1 <= j
    BY DEF ToWrite
  <2>2. CASE i < j
    <3>1. i \in 1 .. j - 1
      BY <2>1, <2>2
    <3> QED BY <1>2, <3>1 DEF ToWrite
  <2>3. CASE j < i
    <3>1. j \in 1 .. i - 1
      BY <2>1, <2>3
    <3> QED BY <1>2, <3>1 DEF ToWrite, SameId
  <2> QED BY <1>2, <2>1, <2>2, <2>3
<1> QED BY <1>1, <1>2

LEMMA WriteInv ==
    ASSUME IInv, Prompt, NEW w \in Writers, NEW b \in Batches, Write(w, b)
    PROVE  IInv'
<1> USE DEF IInv
<1>1. b \in Seq(Events) /\ writer \in [Writers -> WriterType]
  BY EventsAssumption DEF TypeOK, WriterType
<1> DEFINE R == UNION {{Result(r[1], r[2], audits[r[1]][r[2]]) : r \in StoredAs(b[i])} : i \in DOMAIN b}
           new == [IdleWriter EXCEPT !.phase = "open", !.batch = b, !.todo = ToWrite(b), !.results = R]
<1>2. \A r \in R : r \in Results /\ OnRecord(r)
  <2> SUFFICES ASSUME NEW i \in DOMAIN b, NEW r \in StoredAs(b[i])
               PROVE  /\ Result(r[1], r[2], audits[r[1]][r[2]]) \in Results
                      /\ OnRecord(Result(r[1], r[2], audits[r[1]][r[2]]))
    OBVIOUS
  <2>1. b[i] \in Events
    BY <1>1
  <2> QED BY <2>1, StoredIsOnRecord
<1>3. \/ writer' = [writer EXCEPT ![w] = new]
      \/ writer' = writer
  BY DEF Write
<1>4. \A i \in DOMAIN b : ~Past(IdOf[b[i]])
  BY DEF Write, Past, SameId
<1> HIDE DEF R
<1>5. /\ new \in WriterType /\ new.phase = "open" /\ new.batch = b /\ new.todo = ToWrite(b) /\ new.results = R
  BY <1>1, <1>2, ToWriteFacts, IdleWriterType DEF WriterType, WriterPhases
<1> HIDE DEF new
<1>6. writer' \in [Writers -> WriterType] /\ \A v \in Writers \ {w} : writer'[v] = writer[v]
  BY <1>1, <1>3, <1>5
<1>7. UNCHANGED <<writeFrame, audits, lock, returned, prunes, faults>> /\ calls' \in Nat
  BY DEF Write, TypeOK
<1>8. CASE writer' = writer
  BY <1>6, <1>7, <1>8, WriterKeptSame, QuietWriterStep DEF WriterInv, PendingInv, TypeOK, writeFrame
<1>9. CASE writer' = [writer EXCEPT ![w] = new]
  <2>1. writer'[w] = new
    BY <1>1, <1>9
  <2>2. \A r \in R : OnRecord(r)'
    BY <1>2, <1>7, SameTablesGrow, OnRecordKept
  <2>3. \A i \in DOMAIN b : ~Past(IdOf[b[i]])'
    BY <1>4, <1>7 DEF Past, writeFrame
  <2>4. WriterOk(w)'
    BY <1>1, <1>5, <2>1, <2>2, <2>3, ToWriteFacts DEF WriterOk, InTransaction, Headed, Pending
  <2>5. writer'[w].phase \notin Pending
    BY <1>5, <2>1 DEF Pending
  <2> QED BY <1>6, <1>7, <2>4, <2>5, QuietWriterStep DEF TypeOK
<1> QED BY <1>3, <1>8, <1>9

\* A writer that gives up.
LEMMA GiveUpInv ==
    ASSUME IInv, NEW w \in Writers, UNCHANGED <<writeFrame, audits, prunes, returned, calls>>,
           writer' = [writer EXCEPT ![w] = IdleWriter], DOMAIN lock' = Streams, faults' \in Nat
    PROVE  IInv'
<1>1. writer \in [Writers -> WriterType]
  BY DEF IInv, TypeOK, WriterType
<1>2. /\ writer' \in [Writers -> WriterType] /\ writer'[w] = IdleWriter
      /\ \A v \in Writers \ {w} : writer'[v] = writer[v]
  BY <1>1, IdleWriterType
<1>3. writer'[w].phase = "idle"
  BY <1>2 DEF IdleWriter
<1>4. WriterOk(w)' /\ writer'[w].phase \notin Pending
  BY <1>3 DEF WriterOk, InTransaction, Headed, Pending
<1> QED BY <1>2, <1>4, QuietWriterStep DEF IInv, TypeOK

LEMMA AcquireLockInv ==
    ASSUME IInv, NEW w \in Writers, AcquireLock(w)
    PROVE  IInv'
<1> USE DEF IInv
<1>1. writer \in [Writers -> WriterType]
  BY DEF TypeOK, WriterType
<1>2. PICK i \in writer[w].todo :
        LET s == StreamOf[writer[w].batch[i]]
        IN  /\ lock' = IF dialect = "sqlite" THEN lock ELSE [lock EXCEPT ![s] = w]
            /\ writer' = [writer EXCEPT ![w].phase = "locked", ![w].stream = s]
  BY DEF AcquireLock
<1> DEFINE s == StreamOf[writer[w].batch[i]]
           new == [writer[w] EXCEPT !.phase = "locked", !.stream = s]
<1>3. writer[w].phase = "open" /\ WriterOk(w) /\ writer[w].batch \in Seq(Events)
  BY WriterFields DEF AcquireLock, WriterInv
<1>4. i \in DOMAIN writer[w].batch /\ writer[w].batch[i] \in Events
  BY <1>3 DEF WriterOk
<1>5. s \in Streams
  BY <1>4, EventsAssumption
<1>6. writer' = [writer EXCEPT ![w] = new] /\ DOMAIN lock' = Streams
  BY <1>1, <1>2 DEF TypeOK
<1>7. /\ new \in WriterType /\ new.phase = "locked" /\ new.stream = s /\ new.batch = writer[w].batch
      /\ new.todo = writer[w].todo /\ new.results = writer[w].results
  BY <1>1, <1>5 DEF WriterType, WriterPhases, InTransaction
<1> HIDE DEF new
<1>8. /\ writer' \in [Writers -> WriterType] /\ writer'[w] = new
      /\ \A v \in Writers \ {w} : writer'[v] = writer[v]
  BY <1>1, <1>6, <1>7
<1>9. UNCHANGED <<writeFrame, audits, returned, bounds>>
  BY DEF AcquireLock
<1>10. i \in Positions(w)'
  BY <1>2, <1>7, <1>8 DEF Positions
<1>11. \A r \in writer[w].results : OnRecord(r)'
  BY <1>3, <1>9, SameTablesGrow, OnRecordKept, WriterFields DEF WriterOk
<1>12. WriterOk(w)'
  BY <1>3, <1>5, <1>7, <1>8, <1>9, <1>10, <1>11
  DEF WriterOk, InTransaction, Headed, Pending, Past, writeFrame
<1>13. writer'[w].phase \notin Pending
  BY <1>7, <1>8 DEF Pending
<1> QED BY <1>6, <1>8, <1>9, <1>12, <1>13, QuietWriterStep DEF TypeOK, bounds

LEMMA ReadHeadInv ==
    ASSUME IInv, NEW w \in Writers, ReadHead(w)
    PROVE  IInv'
<1> USE DEF IInv
<1>1. writer \in [Writers -> WriterType]
  BY DEF TypeOK, WriterType
<1>0. PICK s \in Streams : s = writer[w].stream
  BY DEF ReadHead, WriterInv, WriterOk, InTransaction
<1> DEFINE new == [writer[w] EXCEPT !.phase = "headed", !.head = HeadOf(audits[s])]
<1>2. /\ writer[w].phase = "locked" /\ WriterOk(w) /\ Positions(w) # {}
  BY DEF ReadHead, WriterInv, WriterOk, InTransaction
<1>3. /\ HeadOf(audits[s]) \in HeadType /\ HeadOf(audits[s]).seq = Len(Chain(s))
      /\ HeadOf(audits[s]).hash = Chain(s) /\ Chain(s) \in Hash /\ Len(Chain(s)) \in Nat
  BY <1>2, ChainFacts DEF Chain
<1>4. writer' = [writer EXCEPT ![w] = new]
  BY <1>0, <1>1 DEF ReadHead
<1>5. /\ new \in WriterType /\ new.phase = "headed" /\ new.stream = s /\ new.head = HeadOf(audits[s])
      /\ new.batch = writer[w].batch /\ new.todo = writer[w].todo /\ new.results = writer[w].results
  BY <1>0, <1>1, <1>3 DEF WriterType, WriterPhases, InTransaction
<1> HIDE DEF new
<1>6. /\ writer' \in [Writers -> WriterType] /\ writer'[w] = new
      /\ \A v \in Writers \ {w} : writer'[v] = writer[v]
  BY <1>1, <1>4, <1>5
<1>7. UNCHANGED <<writeFrame, audits, lock, returned, bounds>>
  BY DEF ReadHead
<1>8. Chain(s)' = Chain(s)
  BY <1>2, <1>7, SameTablesGrow
<1>9. HeadIsRecent(w)'
  <2>1. SubSeq(Chain(s), 1, Len(Chain(s))) = Chain(s)
    BY <1>3, SubSeqFull DEF Hash
  <2>2. \A i \in Len(Chain(s)) + 1 .. Len(Chain(s)) : FALSE
    BY <1>3
  <2>3. writer'[w].stream = s /\ writer'[w].head = HeadOf(audits[s])
    BY <1>5, <1>6
  <2>4. /\ HeadOf(audits[s]).seq <= Len(Chain(s))
        /\ HeadOf(audits[s]).hash = SubSeq(Chain(s), 1, HeadOf(audits[s]).seq)
        /\ \A i \in HeadOf(audits[s]).seq + 1 .. Len(Chain(s)) : FALSE
        /\ Len(HeadOf(audits[s]).hash) = HeadOf(audits[s]).seq
    BY <1>3, <2>1, <2>2
  <2> QED BY <1>8, <2>3, <2>4 DEF HeadIsRecent
<1>10. Positions(w)' # {}
  BY <1>0, <1>2, <1>5, <1>6 DEF Positions
<1>11. \A r \in writer[w].results : OnRecord(r)'
  BY <1>2, <1>7, SameTablesGrow, OnRecordKept, WriterFields DEF WriterOk
<1>12. WriterOk(w)'
  BY <1>2, <1>5, <1>6, <1>7, <1>9, <1>10, <1>11
  DEF WriterOk, InTransaction, Headed, Pending, Past, writeFrame
<1>13. writer'[w].phase \notin Pending
  BY <1>5, <1>6 DEF Pending
<1> QED BY <1>6, <1>7, <1>12, <1>13, QuietWriterStep DEF TypeOK, bounds

\* The finally clause changes the phase only.
LEMMA ReleaseLockInv ==
    ASSUME IInv, NEW w \in Writers, ReleaseLock(w)
    PROVE  IInv'
<1> USE DEF IInv
<1>1. writer \in [Writers -> WriterType]
  BY DEF TypeOK, WriterType
<1> DEFINE new == [writer[w] EXCEPT !.phase = "released"]
<1>2. writer[w].phase = "inserted" /\ WriterOk(w)
  BY DEF ReleaseLock, WriterInv
<1>3. writer' = [writer EXCEPT ![w] = new] /\ DOMAIN lock' = Streams
  BY <1>1 DEF ReleaseLock, Unlocked
<1>4. /\ new \in WriterType /\ new.phase = "released" /\ new.stream = writer[w].stream
      /\ new.head = writer[w].head /\ new.rows = writer[w].rows
      /\ new.batch = writer[w].batch /\ new.todo = writer[w].todo /\ new.results = writer[w].results
  BY <1>1 DEF WriterType, WriterPhases, InTransaction
<1> HIDE DEF new
<1>5. /\ writer' \in [Writers -> WriterType] /\ writer'[w] = new
      /\ \A v \in Writers \ {w} : writer'[v] = writer[v]
  BY <1>1, <1>3, <1>4
<1>6. UNCHANGED <<writeFrame, audits, returned, bounds>>
  BY DEF ReleaseLock
<1>7. \A s \in Streams : Chain(s)' = Chain(s)
  BY <1>6, SameTablesGrow
<1>8. writer[w].stream \in Streams /\ Positions(w) # {} /\ HeadIsRecent(w) /\ RowsFit(w)
  BY <1>2 DEF WriterOk, InTransaction, Headed, Pending
<1>9. HeadIsRecent(w)' /\ RowsFit(w)' /\ Positions(w)' # {}
  <2>1. /\ writer'[w].stream = writer[w].stream /\ writer'[w].head = writer[w].head
        /\ writer'[w].rows = writer[w].rows /\ writer'[w].batch = writer[w].batch
        /\ writer'[w].todo = writer[w].todo /\ audits' = audits
    BY <1>4, <1>5, <1>6
  <2>2. Positions(w)' # {}
    BY <1>8, <2>1 DEF Positions
  <2>3. RowsFit(w)'
    BY <1>8, <2>1 DEF RowsFit, Refuses
  <2>4. \A s \in Streams : \A i : Past(IdAt(s, i))' <=> Past(IdAt(s, i))
    BY <1>6, <1>7 DEF Past, IdAt, writeFrame
  <2>5. HeadIsRecent(w)'
    BY <1>7, <1>8, <2>1, <2>4 DEF HeadIsRecent
  <2> QED BY <2>2, <2>3, <2>5
<1>10. \A r \in writer[w].results : OnRecord(r)'
  BY <1>2, <1>6, SameTablesGrow, OnRecordKept, WriterFields DEF WriterOk
<1>11. WriterOk(w)'
  BY <1>2, <1>4, <1>5, <1>6, <1>8, <1>9, <1>10
  DEF WriterOk, InTransaction, Headed, Pending, Past, writeFrame
<1>12. \A v \in Writers \ {w} : writer[v].phase \in Pending => Apart(writer'[w], writer[v])
  BY <1>2, <1>4, <1>5 DEF PendingInv, Pending, Apart
<1> QED BY <1>3, <1>5, <1>6, <1>11, <1>12, QuietWriterStep DEF TypeOK, bounds

\* What write() returns is on record.
LEMMA ReturnStepInv ==
    ASSUME IInv, NEW w \in Writers, Return(w)
    PROVE  IInv'
<1> USE DEF IInv
<1>1. /\ writer \in [Writers -> WriterType] /\ writer[w].results \subseteq Results
      /\ \A r \in writer[w].results : OnRecord(r)
  BY WriterFields DEF TypeOK, WriterType, Return, WriterInv, WriterOk
<1>2. /\ writer' = [writer EXCEPT ![w] = IdleWriter] /\ returned' = returned \cup writer[w].results
      /\ UNCHANGED <<writeFrame, audits, lock, bounds>>
  BY DEF Return
<1>3. /\ writer' \in [Writers -> WriterType] /\ writer'[w] = IdleWriter
      /\ \A v \in Writers \ {w} : writer'[v] = writer[v]
  BY <1>1, <1>2, IdleWriterType
<1>4. WriterOk(w)' /\ writer'[w].phase \notin Pending
  BY <1>3 DEF WriterOk, InTransaction, Headed, Pending, IdleWriter
<1>5. returned' \subseteq Results /\ \A r \in returned' : r \in returned \/ OnRecord(r)
  BY <1>1, <1>2 DEF TypeOK
<1> QED BY <1>2, <1>3, <1>4, <1>5, QuietWriterStep DEF TypeOK, bounds

\* The rows that are inserted fit the table and no other transaction.
LEMMA InsertRowsInv ==
    ASSUME IInv, NEW w \in Writers, InsertRows(w)
    PROVE  IInv'
<1> USE DEF IInv
<1>1. writer \in [Writers -> WriterType]
  BY DEF TypeOK, WriterType
<1>2. writer[w].phase = "headed" /\ WriterOk(w) /\ UNCHANGED <<writeFrame, audits, returned, bounds>>
  BY DEF InsertRows, WriterInv
<1>3. PICK f \in InOrder(Positions(w)) :
        LET rows == ChainBatch([k \in DOMAIN f |-> writer[w].batch[f[k]]], writer[w].head)
        IN  /\ ~MustWait(w, rows)
            /\ \/ /\ ~Refuses(audits, writer[w].stream, rows)
                  /\ writer' = [writer EXCEPT ![w].phase = "inserted", ![w].rows = rows]
                  /\ UNCHANGED lock
               \/ /\ writer' = [writer EXCEPT ![w] = IdleWriter]
                  /\ lock' = Unlocked(w)
  BY DEF InsertRows
<1> DEFINE events == [k \in DOMAIN f |-> writer[w].batch[f[k]]]
           rows == ChainBatch(events, writer[w].head)
           new == [writer[w] EXCEPT !.phase = "inserted", !.rows = rows]
<1>4. CASE /\ ~Refuses(audits, writer[w].stream, rows)
           /\ writer' = [writer EXCEPT ![w].phase = "inserted", ![w].rows = rows]
           /\ UNCHANGED lock
  <2>1. /\ writer[w].stream \in Streams /\ Positions(w) # {} /\ HeadIsRecent(w)
        /\ writer[w].todo \subseteq DOMAIN writer[w].batch
        /\ \A i, j \in writer[w].todo : SameId(writer[w].batch[i], writer[w].batch[j]) => i = j
    BY <1>2 DEF WriterOk, InTransaction, Headed
  <2>2. /\ events \in Seq(Events) /\ events # <<>> /\ DOMAIN events = DOMAIN f
        /\ \A k \in DOMAIN f : f[k] \in Positions(w) /\ f[k] \in DOMAIN writer[w].batch
        /\ \A k, l \in DOMAIN f : f[k] = f[l] => k = l
    BY <2>1, PositionsFacts
  <2>3. \A k, l \in DOMAIN events : SameId(events[k], events[l]) => k = l
    BY <2>1, <2>2 DEF Positions
  <2>4. \A k \in DOMAIN events : \E i \in DOMAIN writer[w].batch : events[k] = writer[w].batch[i]
    BY <2>2
  <2>0. ~MustWait(w, rows) /\ ~Refuses(audits, writer[w].stream, rows)
    BY <1>3, <1>4
  <2> HIDE DEF events
  <2>5. writer[w].head \in HeadType /\ Len(writer[w].head.hash) = writer[w].head.seq
    BY <2>1, WriterFields DEF HeadIsRecent
  <2>6. rows \in Rows
    BY <2>2, <2>5, ChainBatchOnChain
  <2>7. writer' = [writer EXCEPT ![w] = new]
    BY <1>1, <1>4
  <2>8. /\ new \in WriterType /\ new.phase = "inserted" /\ new.stream = writer[w].stream
        /\ new.head = writer[w].head /\ new.rows = rows
        /\ new.batch = writer[w].batch /\ new.todo = writer[w].todo /\ new.results = writer[w].results
    <3> HIDE DEF rows
    <3> QED BY <1>1, <2>6 DEF WriterType, WriterPhases, InTransaction
  <2> HIDE DEF new
  <2>9. /\ writer' \in [Writers -> WriterType] /\ writer'[w] = new
        /\ \A v \in Writers \ {w} : writer'[v] = writer[v]
    BY <1>1, <2>7, <2>8
  <2>10. \A s \in Streams : Chain(s)' = Chain(s) /\ \A i : Past(IdAt(s, i))' <=> Past(IdAt(s, i))
    BY <1>2, SameTablesGrow DEF Past, IdAt, writeFrame
  <2>11. HeadIsRecent(w)'
    BY <2>1, <2>8, <2>9, <2>10, ZenonT(40) DEF HeadIsRecent
  <2>12. RowsFit(w)'
    BY <1>2, <1>4, <2>2, <2>3, <2>4, <2>8, <2>9 DEF RowsFit, Refuses
  <2>13. \A r \in writer[w].results : OnRecord(r)'
    BY <1>2, SameTablesGrow, OnRecordKept, WriterFields DEF WriterOk
  <2>14. Positions(w)' # {}
    BY <2>1, <2>8, <2>9 DEF Positions
  <2>15. WriterOk(w)'
    BY <1>2, <2>1, <2>8, <2>9, <2>11, <2>12, <2>13, <2>14
    DEF WriterOk, InTransaction, Headed, Pending, Past, writeFrame
  <2>16. \A v \in Writers \ {w} : writer[v].phase \in Pending => Apart(writer'[w], writer[v])
    BY <2>0, <2>8, <2>9 DEF MustWait, Apart, Pending
  <2> QED BY <1>2, <1>4, <2>9, <2>15, <2>16, QuietWriterStep DEF TypeOK, bounds
<1>5. CASE writer' = [writer EXCEPT ![w] = IdleWriter] /\ lock' = Unlocked(w)
  <2>1. DOMAIN lock' = Streams
    BY <1>5 DEF Unlocked
  <2> QED BY <1>2, <1>5, <2>1, GiveUpInv DEF TypeOK, bounds
<1> QED BY <1>3, <1>4, <1>5

-----------------------------------------------------------------------------
(* The commit. *)

\* The head of a writer whose rows fit the table is still the head of the stream: the rows
\* begin right after it, and a row in their place would be past or in their way.
LEMMA HeadIsCurrent ==
    ASSUME TypeOK, ChainInv, NEW w \in Writers, writer[w].stream \in Streams,
           HeadIsRecent(w), RowsFit(w)
    PROVE  writer[w].head = HeadOf(audits[writer[w].stream])
<1> DEFINE s == writer[w].stream
           head == writer[w].head
           L == Len(Chain(s))
<1>1. /\ head \in HeadType /\ head.seq \in Nat /\ head = [seq |-> head.seq, hash |-> head.hash]
  BY WriterFields DEF HeadType
<1>2. /\ Chain(s) \in Hash /\ L \in Nat /\ HeadOf(audits[s]) \in HeadType
      /\ HeadOf(audits[s]).seq = L /\ HeadOf(audits[s]).hash = Chain(s)
  BY ChainFacts DEF Chain
<1>3. /\ Len(head.hash) = head.seq /\ head.seq <= L /\ head.hash = SubSeq(Chain(s), 1, head.seq)
      /\ \A i \in head.seq + 1 .. L : ~Past(IdAt(s, i))
  BY DEF HeadIsRecent
<1>4. head.seq + 1 \notin DOMAIN audits[s]
  <2>1. PICK events \in Seq(Events) : events # <<>> /\ writer[w].rows = ChainBatch(events, head)
    BY DEF RowsFit
  <2>2. DOMAIN writer[w].rows = head.seq + 1 .. head.seq + Len(events)
    BY <1>1, <1>3, <2>1, ChainBatchOnChain
  <2>3. head.seq + 1 \in DOMAIN writer[w].rows
    BY <1>1, <2>1, <2>2
  <2> QED BY <2>3 DEF RowsFit, Refuses
<1>5. head.seq = L
  <2> SUFFICES ASSUME head.seq < L PROVE FALSE
    BY <1>1, <1>2, <1>3
  <2>1. head.seq + 1 \in head.seq + 1 .. L /\ head.seq + 1 \in 1 .. L
    BY <1>1, <1>2
  <2> QED BY <1>3, <1>4, <2>1 DEF ChainInv
<1>6. head.hash = Chain(s)
  BY <1>2, <1>3, <1>5, SubSeqFull DEF Hash
<1>7. HeadOf(audits[s]) = [seq |-> L, hash |-> Chain(s)]
  BY <1>2 DEF HeadType
<1> QED BY <1>1, <1>5, <1>6, <1>7

\* What a commit does to the table.
LEMMA CommitFacts ==
    ASSUME TypeOK, ChainInv, NEW w \in Writers, NEW s \in Streams, s = writer[w].stream,
           HeadIsRecent(w), RowsFit(w), audits' = Insert(audits, s, writer[w].rows)
    PROVE  LET rows == writer[w].rows
               from == Len(Chain(s)) + 1
               to == Len(Chain(s)')
           IN  /\ audits' \in [Streams -> Rows]
               /\ DOMAIN rows = from .. to /\ from <= to
               /\ DOMAIN audits'[s] = DOMAIN audits[s] \cup (from .. to)
               /\ \A n \in from .. to :
                     /\ audits'[s][n] = rows[n]
                     /\ OnChain(n, rows[n], Chain(s)')
                     /\ \E i \in DOMAIN writer[w].batch : rows[n].event = writer[w].batch[i]
               /\ \A n \in DOMAIN audits[s] : audits'[s][n] = audits[s][n]
               /\ \A t \in Streams \ {s} : audits'[t] = audits[t] /\ Chain(t)' = Chain(t)
               /\ Chain(s)' \in Hash /\ Extends(Chain(s)', Chain(s))
               /\ \A m, n \in from .. to : SameId(rows[m].event, rows[n].event) => m = n
<1> DEFINE rows == writer[w].rows
           head == writer[w].head
           L == Len(Chain(s))
<1>1. /\ head \in HeadType /\ Chain(s) \in Hash /\ L \in Nat /\ head.seq = L /\ head.hash = Chain(s)
      /\ Len(head.hash) = head.seq
  BY HeadIsCurrent, ChainFacts DEF Chain
<1>2. PICK events \in Seq(Events) :
          /\ events # <<>> /\ rows = ChainBatch(events, head)
          /\ \A k \in DOMAIN events : \E i \in DOMAIN writer[w].batch : events[k] = writer[w].batch[i]
          /\ \A k, l \in DOMAIN events : SameId(events[k], events[l]) => k = l
  BY DEF RowsFit
<1> DEFINE c == HashAfter(events, head)
           N == L + Len(events)
<1>3. Len(events) \in Nat /\ Len(events) >= 1 /\ DOMAIN events = 1 .. Len(events) /\ N \in Nat
  BY <1>1, <1>2
<1>4. c \in Hash /\ Len(c) = N /\ Extends(c, Chain(s))
  BY <1>1, HashAfterExtends
<1>5. /\ rows \in Rows /\ DOMAIN rows = L + 1 .. N
      /\ \A n \in DOMAIN rows : rows[n].event = events[n - L] /\ OnChain(n, rows[n], c)
  BY <1>1, <1>2, ChainBatchOnChain
<1> HIDE DEF c, N, L, rows
<1>6. /\ audits' \in [Streams -> Rows] /\ DOMAIN audits'[s] = DOMAIN rows \cup DOMAIN audits[s]
      /\ \A n \in DOMAIN rows : audits'[s][n] = rows[n]
      /\ \A n \in DOMAIN audits[s] \ DOMAIN rows : audits'[s][n] = audits[s][n]
      /\ \A t \in Streams \ {s} : audits'[t] = audits[t]
  <2>1. audits \in [Streams -> Rows] /\ rows \in Rows /\ audits' = Insert(audits, s, rows)
    BY <1>5 DEF TypeOK, rows
  <2> QED BY <2>1, InsertType
<1>7. DOMAIN rows \cap DOMAIN audits[s] = {}
  BY DEF RowsFit, Refuses, rows
<1>8. N \in Nat /\ L + 1 <= N
  BY <1>1, <1>3 DEF N, L
<1>9. \E a \in Nat : a <= N /\ DOMAIN audits'[s] = a .. N
  <2>1. CASE DOMAIN audits[s] = {}
    BY <1>1, <1>5, <1>6, <1>8, <2>1
  <2>2. CASE DOMAIN audits[s] # {}
    <3>1. First(audits[s]) \in 1 .. L /\ DOMAIN audits[s] = First(audits[s]) .. L
      BY <2>2, ChainFacts DEF L
    <3>2. DOMAIN audits'[s] = First(audits[s]) .. N
      BY <1>1, <1>5, <1>6, <1>8, <3>1
    <3> QED BY <1>1, <1>8, <3>1, <3>2
  <2> QED BY <2>1, <2>2
<1>10. Chain(s)' = c
  <2>1. PICK a \in Nat : a <= N /\ DOMAIN audits'[s] = a .. N
    BY <1>9
  <2>2. HeadOf(audits'[s]) = [seq |-> N, hash |-> audits'[s][N].hash]
    BY <1>8, <2>1, HeadOfInterval
  <2>3. N \in DOMAIN rows
    BY <1>1, <1>5, <1>8
  <2>4. audits'[s][N].hash = SubSeq(c, 1, N)
    BY <1>5, <1>6, <2>3 DEF OnChain
  <2>5. SubSeq(c, 1, N) = c
    BY <1>4, SubSeqFull DEF Hash
  <2>6. Chain(s)' = HeadOf(audits'[s]).hash
    BY DEF Chain
  <2>7. [seq |-> N, hash |-> audits'[s][N].hash].hash = audits'[s][N].hash
    OBVIOUS
  <2> QED BY <2>2, <2>4, <2>5, <2>6, <2>7
<1>11. \A t \in Streams \ {s} : Chain(t)' = Chain(t)
  BY <1>6 DEF Chain
<1>12. ASSUME NEW n \in L + 1 .. N
       PROVE  \E i \in DOMAIN writer[w].batch : rows[n].event = writer[w].batch[i]
  <2>1. n - L \in DOMAIN events /\ n \in DOMAIN rows
    BY <1>1, <1>3, <1>5, <1>8 DEF N
  <2> QED BY <1>2, <1>5, <2>1
<1>13. ASSUME NEW m \in L + 1 .. N, NEW n \in L + 1 .. N, SameId(rows[m].event, rows[n].event)
       PROVE  m = n
  <2>1. n - L \in DOMAIN events /\ m - L \in DOMAIN events /\ m \in DOMAIN rows /\ n \in DOMAIN rows
    BY <1>1, <1>3, <1>5, <1>8 DEF N
  <2>2. m - L = n - L
    BY <1>2, <1>5, <1>13, <2>1
  <2> QED BY <1>1, <1>8, <2>2
<1>14. Len(Chain(s)') = N
  BY <1>4, <1>10
<1>15. \A n \in DOMAIN audits[s] : audits'[s][n] = audits[s][n]
  BY <1>6, <1>7
<1>16. DOMAIN audits'[s] = DOMAIN audits[s] \cup (L + 1 .. N)
  BY <1>5, <1>6
<1> QED BY <1>4, <1>5, <1>6, <1>8, <1>10, <1>11, <1>12, <1>13, <1>14, <1>15, <1>16 DEF L, rows

\* The rows of the transaction of a writer stand at the end of its stream.
LEMMA CommittedRows ==
    ASSUME IInv, NEW w \in Writers, NEW s \in Streams, s = writer[w].stream, CommitRows(w)
    PROVE  LET rows == writer[w].rows
               L == Len(Chain(s))
               N == Len(Chain(s)')
           IN  /\ audits' \in [Streams -> Rows] /\ Grown
               /\ DOMAIN rows = L + 1 .. N /\ L + 1 <= N
               /\ DOMAIN audits'[s] = DOMAIN audits[s] \cup (L + 1 .. N)
               /\ \A n \in L + 1 .. N :
                     /\ audits'[s][n] = rows[n]
                     /\ OnChain(n, rows[n], Chain(s)')
                     /\ \E i \in DOMAIN writer[w].batch : rows[n].event = writer[w].batch[i]
               /\ \A n \in DOMAIN audits[s] : audits'[s][n] = audits[s][n]
               /\ \A t \in Streams \ {s} : audits'[t] = audits[t] /\ Chain(t)' = Chain(t)
               /\ \A m, n \in L + 1 .. N : SameId(rows[m].event, rows[n].event) => m = n
               /\ ~Refuses(audits, s, rows)
               /\ \A i \in DOMAIN writer[w].batch : ~Past(IdOf[writer[w].batch[i]])
<1> USE DEF IInv
<1>1. writer[w].phase \in Pending /\ writer[w].phase \in Headed /\ writer[w].phase # "idle"
  BY DEF CommitRows, Pending, Headed
<1>2. /\ HeadIsRecent(w) /\ RowsFit(w)
      /\ \A i \in DOMAIN writer[w].batch : ~Past(IdOf[writer[w].batch[i]])
  BY <1>1 DEF WriterInv, WriterOk
<1>3. audits' = Insert(audits, s, writer[w].rows)
  BY DEF CommitRows
<1>4. ~Refuses(audits, s, writer[w].rows)
  BY <1>2 DEF RowsFit
<1>5. \A t \in Streams : Chain(t) \in Hash
  BY DEF ChainInv
<1>6. /\ Chain(s)' \in Hash /\ Extends(Chain(s)', Chain(s))
      /\ \A t \in Streams \ {s} : Chain(t)' = Chain(t)
  BY <1>2, <1>3, CommitFacts
<1>7. Grown
  BY <1>5, <1>6, ExtendsReflexive DEF Grown
<1> QED BY <1>2, <1>3, <1>4, <1>7, CommitFacts

\* A commit keeps one chain per stream.
LEMMA CommitChains ==
    ASSUME IInv, NEW w \in Writers, NEW s \in Streams, s = writer[w].stream, CommitRows(w),
           UNCHANGED <<archive, checkpoints, expired, exported>>
    PROVE  ChainInv'
<1> USE DEF IInv
<1> DEFINE rows == writer[w].rows
           L == Len(Chain(s))
           N == Len(Chain(s)')
<1>1. /\ Grown /\ L + 1 <= N
      /\ DOMAIN audits'[s] = DOMAIN audits[s] \cup (L + 1 .. N)
      /\ \A n \in L + 1 .. N : audits'[s][n] = rows[n] /\ OnChain(n, rows[n], Chain(s)')
      /\ \A n \in DOMAIN audits[s] : audits'[s][n] = audits[s][n]
      /\ \A t \in Streams \ {s} : audits'[t] = audits[t] /\ Chain(t)' = Chain(t)
  BY CommittedRows
<1>2. /\ Chain(s) \in Hash /\ Chain(s)' \in Hash /\ Extends(Chain(s)', Chain(s))
      /\ L \in Nat /\ N \in Nat
      /\ \A i \in 1 .. L : Chain(s)'[i] = Chain(s)[i] /\ IdAt(s, i)' = IdAt(s, i)
  BY <1>1, GrownFacts DEF Grown
<1>3. /\ \A id : Past(id)' <=> Past(id)
      /\ archive' = archive /\ checkpoints' = checkpoints /\ exported' = exported
  BY DEF Past
<1>4. ASSUME NEW t \in Streams \ {s}
      PROVE  /\ \A i : IdAt(t, i)' = IdAt(t, i)
             /\ Chain(t)' = Chain(t) /\ audits'[t] = audits[t]
  BY <1>1 DEF IdAt
<1>5. \A i \in 1 .. N : Chain(s)'[i].seq = i
  <2> TAKE i \in 1 .. N
  <2>1. CASE i <= L
    BY <1>2, <2>1 DEF ChainInv
  <2>2. CASE L < i
    <3>1. i \in L + 1 .. N
      BY <1>2, <2>2
    <3>2. OnChain(i, rows[i], Chain(s)')
      BY <1>1, <3>1
    <3>3. Chain(s)'[i] = [event |-> rows[i].event, seq |-> i]
      BY <3>2 DEF OnChain
    <3> QED BY <3>3
  <2> QED BY <1>2, <2>1, <2>2
<1>6. \E a \in 1 .. N : DOMAIN audits'[s] = a .. N
  <2>1. CASE DOMAIN audits[s] = {}
    <3>1. L = 0
      BY <2>1, ChainFacts
    <3>2. 1 \in 1 .. N /\ DOMAIN audits'[s] = 1 .. N
      BY <1>1, <1>2, <2>1, <3>1
    <3> QED BY <3>2
  <2>2. CASE DOMAIN audits[s] # {}
    <3>1. First(audits[s]) \in 1 .. L /\ DOMAIN audits[s] = First(audits[s]) .. L
      BY <2>2, ChainFacts
    <3>2. First(audits[s]) \in 1 .. N /\ DOMAIN audits'[s] = First(audits[s]) .. N
      BY <1>1, <1>2, <3>1
    <3> QED BY <3>2
  <2> QED BY <2>1, <2>2
<1>7. ASSUME NEW n \in DOMAIN audits'[s] PROVE OnChain(n, audits'[s][n], Chain(s)')
  <2>1. CASE n \in L + 1 .. N
    BY <1>1, <2>1
  <2>2. CASE n \in DOMAIN audits[s]
    <3>1. n \in Nat /\ 1 <= n /\ OnChain(n, audits[s][n], Chain(s))
      BY <1>2, <2>2, ChainFacts DEF ChainInv
    <3> QED BY <1>1, <1>2, <2>2, <3>1, OnChainExtends
  <2> QED BY <1>1, <2>1, <2>2
<1>8. ASSUME NEW n \in DOMAIN archive[s]
      PROVE  /\ 1 <= n /\ n < N /\ OnChain(n, archive[s][n], Chain(s)')
             /\ Result(s, n, archive[s][n]) \in exported
  <2>1. n \in Nat
    BY RowsType DEF TypeOK
  <2>2. /\ 1 <= n /\ n < L /\ OnChain(n, archive[s][n], Chain(s))
        /\ Result(s, n, archive[s][n]) \in exported
    BY DEF ChainInv
  <2>3. OnChain(n, archive[s][n], Chain(s)')
    BY <1>2, <2>1, <2>2, OnChainExtends
  <2> QED BY <1>1, <1>2, <2>1, <2>2, <2>3
<1>9. ASSUME NEW n \in DOMAIN checkpoints[s]
      PROVE  1 <= n /\ n \notin DOMAIN audits'[s] /\ OnChain(n, checkpoints[s][n], Chain(s)')
  <2>1. n \in Nat
    BY RowsType DEF TypeOK
  <2>2. 1 <= n /\ n \notin DOMAIN audits[s] /\ OnChain(n, checkpoints[s][n], Chain(s))
    BY DEF ChainInv
  <2>3. OnChain(n, checkpoints[s][n], Chain(s)')
    BY <1>2, <2>1, <2>2, OnChainExtends
  <2>4. n <= L
    BY <2>2 DEF OnChain
  <2> QED BY <1>1, <1>2, <2>1, <2>2, <2>3, <2>4
<1>10. ASSUME NEW i \in 1 .. N, i \notin DOMAIN audits'[s]
       PROVE  Past(IdAt(s, i))' /\ i \in DOMAIN archive[s]
  <2>1. i \in 1 .. L /\ i \notin DOMAIN audits[s]
    BY <1>1, <1>2, <1>10
  <2> QED BY <1>2, <1>3, <2>1 DEF ChainInv
<1> HIDE DEF L, N, rows
<1> SUFFICES ASSUME NEW t \in Streams
             PROVE  (/\ Chain(t) \in Hash /\ \A i \in 1 .. Len(Chain(t)) : Chain(t)[i].seq = i
                     /\ DOMAIN audits[t] # {} =>
                           \E a \in 1 .. Len(Chain(t)) : DOMAIN audits[t] = a .. Len(Chain(t))
                     /\ \A n \in DOMAIN audits[t] : OnChain(n, audits[t][n], Chain(t))
                     /\ \A n \in DOMAIN archive[t] :
                           /\ 1 <= n /\ n < Len(Chain(t)) /\ OnChain(n, archive[t][n], Chain(t))
                           /\ Result(t, n, archive[t][n]) \in exported
                     /\ \A n \in DOMAIN checkpoints[t] :
                           /\ 1 <= n /\ n \notin DOMAIN audits[t] /\ OnChain(n, checkpoints[t][n], Chain(t))
                     /\ \A i \in 1 .. Len(Chain(t)) :
                           i \notin DOMAIN audits[t] => Past(IdAt(t, i)) /\ i \in DOMAIN archive[t])'
  BY DEF ChainInv
<1>11. CASE t = s
  BY <1>2, <1>3, <1>5, <1>6, <1>7, <1>8, <1>9, <1>10, <1>11 DEF L, N
<1>12. CASE t # s
  BY <1>3, <1>4, <1>12 DEF ChainInv
<1> QED BY <1>11, <1>12

\* A commit adds events that no chain has.
LEMMA CommitIds ==
    ASSUME IInv, NEW w \in Writers, NEW s \in Streams, s = writer[w].stream, CommitRows(w),
           UNCHANGED expired
    PROVE  /\ IdInv'
           /\ \A n \in Len(Chain(s)) + 1 .. Len(Chain(s)') : ~Past(IdAt(s, n))'
<1> USE DEF IInv
<1> DEFINE rows == writer[w].rows
           L == Len(Chain(s))
           N == Len(Chain(s)')
<1>1. /\ Grown /\ L + 1 <= N /\ DOMAIN rows = L + 1 .. N
      /\ \A n \in L + 1 .. N :
            /\ OnChain(n, rows[n], Chain(s)')
            /\ \E i \in DOMAIN writer[w].batch : rows[n].event = writer[w].batch[i]
      /\ \A t \in Streams \ {s} : Chain(t)' = Chain(t)
      /\ \A m, n \in L + 1 .. N : SameId(rows[m].event, rows[n].event) => m = n
      /\ ~Refuses(audits, s, rows)
      /\ \A i \in DOMAIN writer[w].batch : ~Past(IdOf[writer[w].batch[i]])
  BY CommittedRows
<1>2. \A t \in Streams : /\ Len(Chain(t)) \in Nat /\ Len(Chain(t)') \in Nat
                         /\ \A i \in 1 .. Len(Chain(t)) : IdAt(t, i)' = IdAt(t, i)
  BY <1>1, GrownFacts
<1> HIDE DEF rows, L, N
<1>3. ASSUME NEW n \in L + 1 .. N
      PROVE  IdAt(s, n)' = IdOf[rows[n].event] /\ ~Past(IdAt(s, n)')
  <2>1. OnChain(n, rows[n], Chain(s)') /\ ~Past(IdOf[rows[n].event])
    BY <1>1
  <2>2. Chain(s)'[n].event = rows[n].event
    <3>1. Chain(s)'[n] = [event |-> rows[n].event, seq |-> n]
      BY <2>1 DEF OnChain
    <3> QED BY <3>1
  <2> QED BY <2>1, <2>2 DEF IdAt
<1>4. ASSUME NEW t \in Streams, NEW j \in 1 .. Len(Chain(t)), NEW n \in L + 1 .. N
      PROVE  IdAt(t, j) # IdAt(s, n)'
  <2>1. CASE j \in DOMAIN audits[t]
    <3>1. Chain(t)[j] = [event |-> audits[t][j].event, seq |-> j]
      BY <2>1 DEF ChainInv, OnChain
    <3>2. IdAt(t, j) = IdOf[audits[t][j].event]
      BY <3>1 DEF IdAt
    <3>3. IdAt(t, j) \in IdsOf(audits[t])
      BY <2>1, <3>2 DEF IdsOf
    <3>4. IdAt(s, n)' \in IdsOf(rows)
      BY <1>1, <1>3 DEF IdsOf
    <3>5. IdsOf(rows) \cap IdsOf(audits[t]) = {}
      BY <1>1 DEF Refuses
    <3> QED BY <3>3, <3>4, <3>5
  <2>2. CASE j \notin DOMAIN audits[t]
    BY <1>3, <2>2 DEF ChainInv
  <2> QED BY <2>1, <2>2
<1>5. ASSUME NEW t \in Streams, NEW i \in 1 .. Len(Chain(t)')
      PROVE  \/ i \in 1 .. Len(Chain(t)) /\ IdAt(t, i)' = IdAt(t, i)
             \/ t = s /\ i \in L + 1 .. N
  <2>1. CASE t = s
    BY <1>2, <2>1 DEF L, N
  <2>2. CASE t # s
    <3>1. Chain(t)' = Chain(t)
      BY <1>1, <2>2
    <3> QED BY <1>2, <3>1
  <2> QED BY <2>1, <2>2
<1>6. ASSUME NEW t \in Streams, NEW u \in Streams,
             NEW i \in 1 .. Len(Chain(t)'), NEW j \in 1 .. Len(Chain(u)'), IdAt(t, i)' = IdAt(u, j)'
      PROVE  t = u /\ i = j
  <2>1. CASE i \in 1 .. Len(Chain(t)) /\ j \in 1 .. Len(Chain(u))
    BY <1>2, <1>6, <2>1 DEF IdInv
  <2>2. CASE i \in 1 .. Len(Chain(t)) /\ u = s /\ j \in L + 1 .. N
    BY <1>2, <1>4, <1>6, <2>2
  <2>3. CASE t = s /\ i \in L + 1 .. N /\ j \in 1 .. Len(Chain(u))
    BY <1>2, <1>4, <1>6, <2>3
  <2>4. CASE t = s /\ i \in L + 1 .. N /\ u = s /\ j \in L + 1 .. N
    <3>1. IdOf[rows[i].event] = IdOf[rows[j].event]
      BY <1>3, <1>6, <2>4
    <3> QED BY <1>1, <2>4, <3>1 DEF SameId
  <2> QED BY <1>5, <2>1, <2>2, <2>3, <2>4
<1>7. IdInv'
  BY <1>6 DEF IdInv
<1>8. \A n \in L + 1 .. N : ~Past(IdAt(s, n))'
  BY <1>3 DEF Past
<1> QED BY <1>7, <1>8 DEF L, N

\* A commit keeps the writers that do not take part.
LEMMA CommitOthers ==
    ASSUME IInv, NEW w \in Writers, NEW s \in Streams, s = writer[w].stream, CommitRows(w),
           UNCHANGED expired, NEW v \in Writers \ {w}, writer'[v] = writer[v]
    PROVE  WriterOk(v)'
<1> USE DEF IInv
<1>1. /\ Grown /\ \A t \in Streams \ {s} : audits'[t] = audits[t] /\ Chain(t)' = Chain(t)
      /\ DOMAIN audits'[s] = DOMAIN audits[s] \cup DOMAIN writer[w].rows
      /\ \A n \in DOMAIN writer[w].rows : audits'[s][n] = writer[w].rows[n]
      /\ \A n \in DOMAIN audits[s] : audits'[s][n] = audits[s][n]
  <2> DEFINE D == Len(Chain(s)) + 1 .. Len(Chain(s)')
  <2>1. /\ Grown /\ \A t \in Streams \ {s} : audits'[t] = audits[t] /\ Chain(t)' = Chain(t)
        /\ DOMAIN writer[w].rows = D /\ DOMAIN audits'[s] = DOMAIN audits[s] \cup D
        /\ \A n \in D : audits'[s][n] = writer[w].rows[n]
        /\ \A n \in DOMAIN audits[s] : audits'[s][n] = audits[s][n]
    BY CommittedRows
  <2> HIDE DEF D
  <2> QED BY <2>1
<1>2. IdsOf(audits'[s]) \subseteq IdsOf(audits[s]) \cup IdsOf(writer[w].rows)
  BY <1>1 DEF IdsOf
<1>3. ASSUME writer[v].phase \in Pending PROVE ~Refuses(audits', writer[v].stream, writer[v].rows)
  <2>1. writer[w].phase \in Pending
    BY DEF CommitRows, Pending
  <2>2. Apart(writer[v], writer[w])
    BY <1>3, <2>1 DEF PendingInv
  <2>3. ~Refuses(audits, writer[v].stream, writer[v].rows) /\ writer[v].stream \in Streams
    BY <1>3 DEF WriterInv, WriterOk, RowsFit, Pending, InTransaction
  <2>4. DOMAIN writer[v].rows \cap DOMAIN audits'[writer[v].stream] = {}
    <3>1. CASE writer[v].stream = s
      BY <1>1, <2>2, <2>3, <3>1 DEF Apart, Refuses
    <3>2. CASE writer[v].stream # s
      BY <1>1, <2>3, <3>2 DEF Refuses
    <3> QED BY <3>1, <3>2
  <2>5. ASSUME NEW t \in Streams PROVE IdsOf(writer[v].rows) \cap IdsOf(audits'[t]) = {}
    <3>1. IdsOf(writer[v].rows) \cap IdsOf(audits[t]) = {}
      BY <2>3 DEF Refuses
    <3>2. CASE t = s
      BY <1>2, <2>2, <3>1, <3>2 DEF Apart
    <3>3. CASE t # s
      BY <1>1, <3>1, <3>3
    <3> QED BY <3>2, <3>3
  <2> QED BY <2>4, <2>5 DEF Refuses
<1>4. ASSUME NEW t \in Streams, NEW i \in Len(Chain(t)) + 1 .. Len(Chain(t)')
      PROVE  ~Past(IdAt(t, i))'
  <2>1. CASE t = s
    BY <2>1, CommitIds
  <2>2. CASE t # s
    BY <1>1, <2>2, GrownFacts
  <2> QED BY <2>1, <2>2
<1> QED BY <1>1, <1>3, <1>4, WriterKept DEF WriterInv

\* The commit, with what becomes of the writer.
LEMMA CommitStep ==
    ASSUME IInv, NEW w \in Writers, CommitRows(w), UNCHANGED <<writeFrame, returned, prunes>>,
           calls' \in Nat, faults' \in Nat, writer' \in [Writers -> WriterType],
           \A v \in Writers \ {w} : writer'[v] = writer[v],
           \/ writer'[w].phase = "idle"
           \/ /\ writer'[w].phase = "open" /\ writer'[w].batch = writer[w].batch
              /\ writer'[w].todo \subseteq writer[w].todo
              /\ writer'[w].results = writer[w].results \cup
                    {Result(writer[w].stream, n, writer[w].rows[n]) : n \in DOMAIN writer[w].rows}
    PROVE  IInv'
<1> USE DEF IInv
<1>0. PICK s \in Streams : s = writer[w].stream
  BY DEF CommitRows, WriterInv, WriterOk, InTransaction
<1>q. PICK q \in WriterType : q = writer[w]
  BY WriterFields
<1>1. UNCHANGED <<archive, checkpoints, expired, exported, pruner>>
  BY DEF writeFrame
<1> DEFINE rows == q.rows
           L == Len(Chain(s))
           N == Len(Chain(s)')
<1>2. /\ audits' \in [Streams -> Rows] /\ Grown /\ DOMAIN rows = L + 1 .. N
      /\ DOMAIN audits'[s] = DOMAIN audits[s] \cup (L + 1 .. N)
      /\ \A n \in L + 1 .. N : OnChain(n, rows[n], Chain(s)')
      /\ \A t \in Streams \ {s} : audits'[t] = audits[t]
      /\ \A i \in DOMAIN q.batch : ~Past(IdOf[q.batch[i]])
  BY <1>0, <1>q, CommittedRows
<1>3. L \in Nat /\ N \in Nat
  BY <1>2, GrownFacts
<1>4. TypeOK'
  <2>1. DOMAIN lock' = Streams
    BY DEF CommitRows, Unlocked
  <2> QED BY <1>2, <2>1, WriterStepType DEF TypeOK
<1>5. ChainInv' /\ IdInv'
  BY <1>0, <1>1, CommitChains, CommitIds
<1>6. WriterOk(w)'
  <2>1. writer[w].phase # "idle" /\ WriterOk(w)
    BY DEF CommitRows, WriterInv
  <2>2. /\ q.todo \subseteq DOMAIN q.batch
        /\ \A i, j \in q.todo : SameId(q.batch[i], q.batch[j]) => i = j
        /\ \A r \in q.results : r \in Results /\ OnRecord(r)
    BY <1>q, <2>1, WriterFields DEF WriterOk
  <2>3. ASSUME NEW r \in q.results PROVE OnRecord(r)'
    BY <1>2, <2>2, OnRecordKept
  <2>4. ASSUME NEW n \in DOMAIN rows PROVE OnRecord(Result(s, n, rows[n]))'
    <3>1. OnChain(n, rows[n], Chain(s)') /\ n \in 1 .. N
      BY <1>2, <1>3
    <3>2. Result(s, n, rows[n]) = [stream |-> s, seq |-> n, hash |-> rows[n].hash]
      BY DEF Result
    <3>3. rows[n].hash = SubSeq(Chain(s)', 1, n)
      BY <3>1 DEF OnChain
    <3> QED BY <3>1, <3>2, <3>3 DEF OnRecord
  <2>5. CASE writer'[w].phase = "idle"
    BY <2>5 DEF WriterOk, InTransaction, Headed, Pending
  <2>6. CASE /\ writer'[w].phase = "open" /\ writer'[w].batch = q.batch
             /\ writer'[w].todo \subseteq q.todo
             /\ writer'[w].results = q.results \cup {Result(s, n, rows[n]) : n \in DOMAIN rows}
    <3>1. PICK R : R = writer'[w].results
      OBVIOUS
    <3>2. \A r \in R : OnRecord(r)'
      BY <2>3, <2>4, <2>6, <3>1
    <3>3. \A i \in DOMAIN q.batch : ~Past(IdOf[q.batch[i]])'
      BY <1>1, <1>2 DEF Past
    <3> QED BY <2>2, <2>6, <3>1, <3>2, <3>3 DEF WriterOk, InTransaction, Headed, Pending
  <2> QED BY <1>0, <1>q, <2>5, <2>6
<1>7. WriterInv'
  BY <1>0, <1>1, <1>6, CommitOthers DEF WriterInv
<1>8. PendingInv'
  <2>1. writer'[w].phase \notin Pending
    BY DEF Pending
  <2> QED BY <2>1 DEF PendingInv, Apart
<1>9. PrunerInv'
  <2>1. \A t \in Streams : \A n \in DOMAIN audits'[t] : n \in DOMAIN audits[t] \/ Len(Chain(t)) < n
    <3> SUFFICES ASSUME NEW t \in Streams, NEW n \in DOMAIN audits'[t]
                 PROVE  n \in DOMAIN audits[t] \/ Len(Chain(t)) < n
      OBVIOUS
    <3>1. CASE t = s
      BY <1>2, <1>3, <3>1
    <3>2. CASE t # s
      BY <1>2, <3>2
    <3> QED BY <3>1, <3>2
  <2> QED BY <1>1, <1>2, <1>4, <2>1, PrunerKept DEF PrunerInv
<1>10. ReturnInv'
  BY <1>2, ReturnKept
<1> QED BY <1>4, <1>5, <1>7, <1>8, <1>9, <1>10

LEMMA CommitInv ==
    ASSUME IInv, NEW w \in Writers, Commit(w) \/ CommitUnheard(w)
    PROVE  IInv'
<1> USE DEF IInv
<1>1. writer \in [Writers -> WriterType] /\ CommitRows(w)
  BY DEF TypeOK, WriterType, Commit, CommitUnheard
<1>2. writer[w].stream \in Streams
  BY <1>1 DEF CommitRows, WriterInv, WriterOk, InTransaction
<1>3. CASE Commit(w)
  <2> DEFINE R == writer[w].results \cup
                    {Result(writer[w].stream, n, writer[w].rows[n]) : n \in DOMAIN writer[w].rows}
             new == [writer[w] EXCEPT !.phase = "open", !.todo = @ \ Positions(w), !.stream = Free,
                        !.head = NoHead, !.rows = NoRows, !.results = R]
  <2>1. R \subseteq Results
    BY <1>2, ResultType, WriterFields
  <2> HIDE DEF R
  <2>2. writer[w].todo \ Positions(w) \in SUBSET Nat
    BY WriterFields
  <2>3. /\ new \in WriterType /\ new.phase = "open" /\ new.batch = writer[w].batch
        /\ new.todo \subseteq writer[w].todo /\ new.results = R
    <3> HIDE DEF Positions
    <3> QED BY <1>1, <2>1, <2>2, NoRowsType DEF WriterType, WriterPhases, InTransaction
  <2>4. writer' = [writer EXCEPT ![w] = new]
    <3>1. writer' = [writer EXCEPT ![w] =
              [writer[w] EXCEPT !.phase = "open", !.todo = @ \ Positions(w), !.stream = Free,
                        !.head = NoHead, !.rows = NoRows,
                        !.results = @ \cup {Result(writer[w].stream, n, writer[w].rows[n]) :
                                            n \in DOMAIN writer[w].rows}]]
      BY <1>3, Zenon DEF Commit
    <3>2. new = [writer[w] EXCEPT !.phase = "open", !.todo = @ \ Positions(w), !.stream = Free,
                        !.head = NoHead, !.rows = NoRows,
                        !.results = @ \cup {Result(writer[w].stream, n, writer[w].rows[n]) :
                                            n \in DOMAIN writer[w].rows}]
      BY Zenon DEF R
    <3> HIDE DEF new
    <3> QED BY <3>1, <3>2
  <2> HIDE DEF new
  <2>5. /\ writer' \in [Writers -> WriterType] /\ writer'[w] = new
        /\ \A v \in Writers \ {w} : writer'[v] = writer[v]
    BY <1>1, <2>3, <2>4
  <2>6. UNCHANGED <<writeFrame, returned, prunes>> /\ calls' \in Nat /\ faults' \in Nat
    BY <1>3 DEF Commit, bounds, TypeOK
  <2> QED BY <1>1, <2>3, <2>5, <2>6, CommitStep DEF R
<1>4. CASE CommitUnheard(w)
  <2>1. writer' = [writer EXCEPT ![w] = IdleWriter]
    BY <1>4 DEF CommitUnheard
  <2>2. /\ writer' \in [Writers -> WriterType] /\ writer'[w] = IdleWriter
        /\ \A v \in Writers \ {w} : writer'[v] = writer[v]
    BY <1>1, <2>1, IdleWriterType
  <2>3. UNCHANGED <<writeFrame, returned, prunes>> /\ calls' \in Nat /\ faults' \in Nat
    BY <1>4 DEF CommitUnheard, Fault, TypeOK
  <2>4. writer'[w].phase = "idle"
    BY <2>2 DEF IdleWriter
  <2> QED BY <1>1, <2>2, <2>3, <2>4, CommitStep
<1> QED BY <1>3, <1>4

\* Every step of write() keeps the invariant.
LEMMA WriteStepInv ==
    ASSUME IInv, Prompt, NEW w \in Writers, WriteStep(w)
    PROVE  IInv'
<1>1. CASE \E b \in Batches : Write(w, b)
  BY <1>1, WriteInv
<1>2. CASE LockTimeout(w)
  BY <1>2, GiveUpInv DEF LockTimeout, bounds, IInv, TypeOK
<1>3. CASE WriteFails(w)
  <2>1. /\ UNCHANGED <<writeFrame, audits, prunes, returned, calls>> /\ faults' = faults + 1
        /\ writer' = [writer EXCEPT ![w] = IdleWriter] /\ DOMAIN lock' = Streams
    BY <1>3 DEF WriteFails, Unlocked, Fault
  <2>2. faults' \in Nat
    BY <2>1 DEF IInv, TypeOK
  <2> QED BY <2>1, <2>2, GiveUpInv
<1> QED BY <1>1, <1>2, <1>3, AcquireLockInv, ReadHeadInv, InsertRowsInv, ReleaseLockInv, CommitInv,
           ReturnStepInv DEF WriteStep

-----------------------------------------------------------------------------
(* The steps of prune(). *)

PrunerType ==
    [phase : PrunerPhases, todo : SUBSET Streams, filter : Filters \cup {"none"},
     cutoff : SUBSET Events, stream : Streams \cup {Free}, rows : Rows, missing : SUBSET Nat]

LEMMA IdlePrunerType == IdlePruner \in PrunerType
BY NoRowsType DEF PrunerType, IdlePruner, PrunerPhases

LEMMA PrunerFields ==
    ASSUME TypeOK, NEW p \in Pruners
    PROVE  /\ pruner[p] \in PrunerType
           /\ pruner[p].phase \in PrunerPhases /\ pruner[p].todo \in SUBSET Streams
           /\ pruner[p].cutoff \in SUBSET Events /\ pruner[p].stream \in Streams \cup {Free}
           /\ pruner[p].rows \in Rows /\ pruner[p].missing \in SUBSET Nat
<1>1. pruner[p] \in PrunerType
  BY DEF TypeOK, PrunerType
<1> QED BY <1>1 DEF PrunerType

LEMMA IdlePrunerOk ==
    ASSUME NEW p \in Pruners, pruner[p].phase = "idle"
    PROVE  PrunerOk(p)
BY DEF PrunerOk

LEMMA PrunerStepType ==
    ASSUME TypeOK, UNCHANGED pruneFrame, pruner' \in [Pruners -> PrunerType],
           audits' \in [Streams -> Rows], archive' \in [Streams -> Rows],
           checkpoints' \in [Streams -> Rows], exported' \subseteq Results,
           calls' \in Nat, prunes' \in Nat, faults' \in Nat
    PROVE  TypeOK'
BY DEF TypeOK, pruneFrame, PrunerType

\* A step that leaves the tables alone.
LEMMA QuietPrunerStep ==
    ASSUME IInv, NEW p \in Pruners, UNCHANGED <<pruneFrame, tables>>,
           exported \subseteq exported', exported' \subseteq Results,
           pruner' \in [Pruners -> PrunerType], \A q \in Pruners \ {p} : pruner'[q] = pruner[q],
           calls' \in Nat, prunes' \in Nat, faults' \in Nat, PrunerOk(p)'
    PROVE  IInv'
<1> USE DEF IInv
<1>1. audits' = audits /\ archive' = archive /\ checkpoints' = checkpoints
  BY DEF tables
<1>2. writer' = writer /\ expired' = expired /\ returned' = returned
  BY DEF pruneFrame
<1>3. TypeOK'
  BY <1>1, PrunerStepType DEF TypeOK
<1>4. Grown
  BY <1>1, SameTablesGrow
<1>5. ChainInv' /\ IdInv'
  BY <1>2, ChainKept
<1>6. WriterInv' /\ PendingInv'
  BY <1>1, <1>2, WriterKeptSame DEF WriterInv, PendingInv, Apart
<1>7. PrunerInv'
  BY <1>1, <1>2, <1>3, <1>4, PrunerKept DEF PrunerInv
<1>8. ReturnInv'
  BY <1>2, <1>4, ReturnKept
<1> QED BY <1>3, <1>5, <1>6, <1>7, <1>8

\* A pruner that ends.
LEMMA PruneEndsType ==
    ASSUME TypeOK, NEW p \in Pruners, PruneEnds(p)
    PROVE  /\ pruner' \in [Pruners -> PrunerType] /\ \A q \in Pruners \ {p} : pruner'[q] = pruner[q]
           /\ pruner'[p].phase = "idle" /\ PrunerOk(p)'
<1>1. pruner \in [Pruners -> PrunerType]
  BY DEF TypeOK, PrunerType
<1>2. /\ pruner' \in [Pruners -> PrunerType] /\ \A q \in Pruners \ {p} : pruner'[q] = pruner[q]
      /\ pruner'[p] = IdlePruner
  BY <1>1, IdlePrunerType DEF PruneEnds
<1> QED BY <1>2 DEF IdlePruner, PrunerOk

LEMMA PruneEndsInv ==
    ASSUME IInv, NEW p \in Pruners, UNCHANGED <<pruneFrame, tables, exported>>, PruneEnds(p),
           calls' \in Nat, prunes' \in Nat, faults' \in Nat
    PROVE  IInv'
<1>1. exported' = exported /\ exported \subseteq Results
  BY DEF IInv, TypeOK
<1> QED BY <1>1, PruneEndsType, QuietPrunerStep DEF IInv

LEMMA PruneInv ==
    ASSUME IInv, NEW p \in Pruners, NEW filter \in Filters, Prune(p, filter)
    PROVE  IInv'
<1> USE DEF IInv
<1> DEFINE new == [IdlePruner EXCEPT !.phase = "selecting", !.filter = filter, !.cutoff = expired,
                                     !.todo = {s \in Streams : DOMAIN audits[s] # {}}]
<1>1. pruner \in [Pruners -> PrunerType] /\ expired \subseteq Events
  BY DEF TypeOK, PrunerType
<1>2. new \in PrunerType /\ new.phase = "selecting" /\ new.cutoff = expired
  BY <1>1, IdlePrunerType DEF PrunerType, PrunerPhases
<1>3. pruner' = [pruner EXCEPT ![p] = new]
  BY DEF Prune
<1> HIDE DEF new
<1>4. /\ pruner' \in [Pruners -> PrunerType] /\ \A q \in Pruners \ {p} : pruner'[q] = pruner[q]
      /\ pruner'[p] = new
  BY <1>1, <1>2, <1>3
<1>5. UNCHANGED <<pruneFrame, tables, exported, calls, faults>> /\ prunes' \in Nat
  BY DEF Prune, TypeOK
<1>6. PrunerOk(p)'
  BY <1>2, <1>4, <1>5 DEF PrunerOk, pruneFrame
<1> QED BY <1>4, <1>5, <1>6, QuietPrunerStep DEF TypeOK

\* The candidates are rows from the first to one before the last.
LEMMA CandidatesFacts ==
    ASSUME IInv, NEW p \in Pruners, NEW s \in Streams, Candidates(audits[s], p) # {}
    PROVE  /\ Candidates(audits[s], p) \subseteq DOMAIN audits[s]
           /\ \A n \in Candidates(audits[s], p) : audits[s][n].event \in pruner[p].cutoff
           /\ \E a, k \in Nat : /\ 1 <= a /\ a <= k /\ k < Len(Chain(s))
                                /\ Candidates(audits[s], p) = a .. k
                                /\ \A n \in DOMAIN audits[s] : a <= n
<1> USE DEF IInv
<1> DEFINE rows == audits[s]
           S == Candidates(rows, p)
           a == First(rows)
           L == Len(Chain(s))
           name(n) == NameOf[rows[n].event]
<1>1. DOMAIN rows # {}
  BY DEF Candidates
<1>2. a \in 1 .. L /\ DOMAIN rows = a .. L /\ Last(rows) = L /\ L \in Nat
  BY <1>1, ChainFacts
<1>3. S = {n \in DOMAIN rows \ {L} :
              /\ pruner[p].filter \in {"none", name(a)}
              /\ \A m \in DOMAIN rows : m <= n => name(m) = name(a) /\ rows[m].event \in pruner[p].cutoff}
  BY <1>1, <1>2 DEF Candidates
<1> HIDE DEF S, a, L, rows, name
<1>4. S \subseteq DOMAIN rows /\ \A n \in S : n \in Nat /\ n < L /\ rows[n].event \in pruner[p].cutoff
  BY <1>2, <1>3
<1>5. PICK k \in S : \A n \in S : n <= k
  <2>1. S \in SUBSET Nat /\ S # {} /\ \A n \in S : n <= L
    BY <1>2, <1>4 DEF S, rows
  <2> QED BY <1>2, <2>1, GreatestElement
<1>6. ASSUME NEW m \in a .. k PROVE m \in S
  <2>1. m \in DOMAIN rows \ {L} /\ k \in Nat /\ m \in Nat /\ m <= k
    BY <1>2, <1>4, <1>5
  <2>2. \A l \in DOMAIN rows : l \in Nat
    BY <1>2
  <2> QED BY <1>3, <1>5, <2>1, <2>2
<1>7. S = a .. k /\ k \in Nat /\ a \in Nat /\ 1 <= a /\ a <= k /\ k < L
  <2>1. k \in Nat /\ a \in Nat /\ 1 <= a /\ a <= k /\ k < L
    BY <1>2, <1>4
  <2>2. \A n \in S : n \in a .. k
    BY <1>2, <1>4, <1>5, <2>1
  <2> QED BY <1>6, <2>1, <2>2
<1>8. \A n \in DOMAIN rows : a <= n
  BY <1>2
<1> QED BY <1>4, <1>7, <1>8 DEF S, rows, L

LEMMA SelectStreamInv ==
    ASSUME IInv, NEW p \in Pruners, SelectStream(p)
    PROVE  IInv'
<1> USE DEF IInv
<1>1. /\ pruner \in [Pruners -> PrunerType] /\ pruner[p] \in PrunerType
      /\ pruner[p].phase = "selecting" /\ pruner[p].cutoff \subseteq expired
  BY PrunerFields DEF TypeOK, PrunerType, SelectStream, PrunerInv, PrunerOk
<1>2. /\ UNCHANGED <<pruneFrame, tables, exported, bounds>> /\ exported \subseteq Results
      /\ calls' \in Nat /\ prunes' \in Nat /\ faults' \in Nat
  BY DEF SelectStream, bounds, TypeOK
<1>3. PICK s \in pruner[p].todo :
          \/ /\ Candidates(audits[s], p) = {}
             /\ pruner' = [pruner EXCEPT ![p].todo = @ \ {s}]
          \/ /\ Candidates(audits[s], p) # {}
             /\ pruner' = [pruner EXCEPT ![p].phase = "selected", ![p].stream = s,
                                         ![p].rows = Only(audits[s], Candidates(audits[s], p))]
  BY DEF SelectStream
<1>4. s \in Streams
  BY PrunerFields
<1>5. CASE pruner' = [pruner EXCEPT ![p].todo = @ \ {s}]
  <2> DEFINE new == [pruner[p] EXCEPT !.todo = @ \ {s}]
  <2>1. new \in PrunerType /\ new.phase = "selecting" /\ new.cutoff = pruner[p].cutoff
    BY <1>1 DEF PrunerType, PrunerPhases
  <2>2. pruner' = [pruner EXCEPT ![p] = new]
    BY <1>1, <1>5
  <2> HIDE DEF new
  <2>3. /\ pruner' \in [Pruners -> PrunerType] /\ \A q \in Pruners \ {p} : pruner'[q] = pruner[q]
        /\ pruner'[p] = new
    BY <1>1, <2>1, <2>2
  <2>4. PrunerOk(p)'
    BY <1>1, <1>2, <2>1, <2>3 DEF PrunerOk, pruneFrame
  <2> QED BY <1>2, <2>3, <2>4, QuietPrunerStep
<1>6. CASE /\ Candidates(audits[s], p) # {}
           /\ pruner' = [pruner EXCEPT ![p].phase = "selected", ![p].stream = s,
                                       ![p].rows = Only(audits[s], Candidates(audits[s], p))]
  <2> DEFINE S == Candidates(audits[s], p)
             rows == Only(audits[s], S)
             new == [pruner[p] EXCEPT !.phase = "selected", !.stream = s, !.rows = rows]
  <2>1. /\ S \subseteq DOMAIN audits[s] /\ \A n \in S : audits[s][n].event \in pruner[p].cutoff
        /\ \E a, k \in Nat : /\ 1 <= a /\ a <= k /\ k < Len(Chain(s)) /\ S = a .. k
                             /\ \A n \in DOMAIN audits[s] : a <= n
    BY <1>4, <1>6, CandidatesFacts
  <2>2. PICK R : R = rows
    OBVIOUS
  <2>3. R \in Rows /\ DOMAIN R = S /\ \A n \in S : R[n] = audits[s][n]
    <3>1. audits[s] \in Rows /\ DOMAIN audits[s] \in SUBSET Nat
      BY <1>4, RowsType DEF TypeOK
    <3> HIDE DEF S
    <3>2. S \in SUBSET Nat
      BY <2>1, <3>1
    <3> QED BY <2>1, <2>2, <3>1, <3>2, OnlyType
  <2> HIDE DEF rows
  <2>4. /\ new \in PrunerType /\ new.phase = "selected" /\ new.cutoff = pruner[p].cutoff
        /\ new.stream = s /\ new.rows = R
    BY <1>1, <1>4, <2>2, <2>3 DEF PrunerType, PrunerPhases
  <2>5. pruner' = [pruner EXCEPT ![p] = new]
    BY <1>1, <1>6 DEF rows
  <2> HIDE DEF new
  <2>6. /\ pruner' \in [Pruners -> PrunerType] /\ \A q \in Pruners \ {p} : pruner'[q] = pruner[q]
        /\ pruner'[p] = new
    BY <1>1, <2>4, <2>5
  <2>7. audits' = audits /\ expired' = expired /\ Chain(s)' = Chain(s)
    BY <1>2 DEF tables, pruneFrame, Chain
  <2>8. ASSUME NEW n \in DOMAIN R PROVE OnChain(n, R[n], Chain(s)) /\ Past(IdOf[R[n].event])
    <3>1. n \in DOMAIN audits[s] /\ R[n] = audits[s][n] /\ R[n].event \in expired
      BY <1>1, <2>1, <2>3
    <3> QED BY <1>4, <3>1 DEF ChainInv, Past
  <2>9. \E a, k \in Nat : /\ 1 <= a /\ a <= k /\ k < Len(Chain(s)) /\ DOMAIN R = a .. k
                          /\ \A n \in DOMAIN audits[s] : a <= n
    BY <2>1, <2>3
  <2> HIDE DEF S
  <2>10. SelectionOk(p)'
    <3>1. \A n \in DOMAIN R : OnChain(n, R[n], Chain(s)') /\ Past(IdOf[R[n].event])'
      BY <2>7, <2>8 DEF Past
    <3>2. \E a, k \in Nat : /\ 1 <= a /\ a <= k /\ k < Len(Chain(s)') /\ DOMAIN R = a .. k
                            /\ \A n \in DOMAIN audits'[s] : a <= n
      BY <2>7, <2>9
    <3> QED BY <1>4, <2>4, <2>6, <3>1, <3>2 DEF SelectionOk
  <2>11. PrunerOk(p)'
    BY <1>1, <2>4, <2>6, <2>7, <2>10 DEF PrunerOk
  <2> QED BY <1>2, <2>6, <2>11, QuietPrunerStep
<1> QED BY <1>3, <1>5, <1>6

\* Where the archive has a row with the id of a candidate, it is that row.
LEMMA LookUpFacts ==
    ASSUME IInv, NEW p \in Pruners, ~ArchiveConflicts(p)
    PROVE  /\ Missing(p) \subseteq DOMAIN pruner[p].rows
           /\ \A n \in DOMAIN pruner[p].rows \ Missing(p) : n \in DOMAIN archive[pruner[p].stream]
<1>1. ASSUME NEW n \in DOMAIN pruner[p].rows \ Missing(p)
      PROVE  n \in DOMAIN archive[pruner[p].stream]
  <2>1. PICK r \in ArchivedAs(p, n) : TRUE
    BY DEF Missing
  <2>2. PICK t \in Streams : \E m \in DOMAIN archive[t] : r = <<t, m>>
    BY <2>1 DEF ArchivedAs
  <2>3. PICK m \in DOMAIN archive[t] : r = <<t, m>>
    BY <2>2
  <2>4. r = <<pruner[p].stream, n>>
    BY <2>1 DEF ArchiveConflicts
  <2> QED BY <2>3, <2>4
<1> QED BY <1>1 DEF Missing

LEMMA LookUpArchiveInv ==
    ASSUME IInv, NEW p \in Pruners, LookUpArchive(p)
    PROVE  IInv'
<1> USE DEF IInv
<1>1. pruner \in [Pruners -> PrunerType] /\ exported \subseteq Results
  BY DEF TypeOK, PrunerType
<1>q. PICK q \in PrunerType : q = pruner[p]
  BY PrunerFields
<1>2. /\ q.phase = "selected" /\ SelectionOk(p) /\ q.cutoff \subseteq expired
      /\ q.stream \in Streams /\ q.rows \in Rows
  BY <1>q, PrunerFields DEF LookUpArchive, PrunerInv, PrunerOk, SelectionOk
<1>3. /\ UNCHANGED <<pruneFrame, tables, bounds>>
      /\ calls' \in Nat /\ prunes' \in Nat /\ faults' \in Nat
  BY DEF LookUpArchive, bounds, TypeOK
<1>4. audits' = audits /\ archive' = archive /\ expired' = expired /\ \A t : Chain(t)' = Chain(t)
  BY <1>3 DEF tables, pruneFrame, Chain
<1>5. ASSUME pruner'[p].stream = q.stream, pruner'[p].rows = q.rows PROVE SelectionOk(p)'
  <2>1. /\ \E a, k \in Nat : /\ 1 <= a /\ a <= k /\ k < Len(Chain(q.stream)) /\ DOMAIN q.rows = a .. k
                             /\ \A n \in DOMAIN audits[q.stream] : a <= n
        /\ \A n \in DOMAIN q.rows : OnChain(n, q.rows[n], Chain(q.stream)) /\ Past(IdOf[q.rows[n].event])
    BY <1>q, <1>2 DEF SelectionOk
  <2>2. \A n \in DOMAIN q.rows : OnChain(n, q.rows[n], Chain(q.stream)') /\ Past(IdOf[q.rows[n].event])'
    BY <1>4, <2>1 DEF Past
  <2>3. \E a, k \in Nat : /\ 1 <= a /\ a <= k /\ k < Len(Chain(q.stream)') /\ DOMAIN q.rows = a .. k
                          /\ \A n \in DOMAIN audits'[q.stream] : a <= n
    BY <1>4, <2>1
  <2> QED BY <1>2, <1>5, <2>2, <2>3 DEF SelectionOk
<1>6. CASE PruneEnds(p) /\ UNCHANGED exported
  BY <1>3, <1>6, PruneEndsInv
<1>7. CASE /\ ~ArchiveConflicts(p) /\ Missing(p) = {}
           /\ pruner' = [pruner EXCEPT ![p].phase = "archived"]
           /\ UNCHANGED exported
  <2> DEFINE new == [q EXCEPT !.phase = "archived"]
  <2>1. /\ new \in PrunerType /\ new.phase = "archived" /\ new.cutoff = q.cutoff
        /\ new.stream = q.stream /\ new.rows = q.rows
    BY DEF PrunerType, PrunerPhases
  <2>2. pruner' = [pruner EXCEPT ![p] = new]
    BY <1>1, <1>q, <1>7
  <2> HIDE DEF new
  <2>3. /\ pruner' \in [Pruners -> PrunerType] /\ \A v \in Pruners \ {p} : pruner'[v] = pruner[v]
        /\ pruner'[p] = new
    BY <1>1, <2>1, <2>2
  <2>4. DOMAIN q.rows \subseteq DOMAIN archive[q.stream]
    BY <1>q, <1>7, LookUpFacts
  <2>5. PrunerOk(p)'
    BY <1>2, <1>4, <1>5, <2>1, <2>3, <2>4 DEF PrunerOk
  <2> QED BY <1>1, <1>3, <1>7, <2>3, <2>5, QuietPrunerStep
<1>8. CASE /\ ~ArchiveConflicts(p) /\ Missing(p) # {}
           /\ exported' = exported \cup {Result(pruner[p].stream, n, pruner[p].rows[n]) :
                                         n \in DOMAIN pruner[p].rows}
           /\ pruner' = [pruner EXCEPT ![p].phase = "exported", ![p].missing = Missing(p)]
  <2> DEFINE new == [q EXCEPT !.phase = "exported", !.missing = Missing(p)]
  <2>1. PICK M : M = Missing(p)
    OBVIOUS
  <2>2. /\ M \subseteq DOMAIN q.rows /\ M \in SUBSET Nat
        /\ \A n \in DOMAIN q.rows \ M : n \in DOMAIN archive[q.stream]
    BY <1>q, <1>2, <1>8, <2>1, LookUpFacts, RowsType
  <2>3. /\ new \in PrunerType /\ new.phase = "exported" /\ new.cutoff = q.cutoff
        /\ new.stream = q.stream /\ new.rows = q.rows /\ new.missing = M
    BY <2>1, <2>2 DEF PrunerType, PrunerPhases
  <2>4. pruner' = [pruner EXCEPT ![p] = new]
    BY <1>1, <1>q, <1>8
  <2> HIDE DEF new
  <2>5. /\ pruner' \in [Pruners -> PrunerType] /\ \A v \in Pruners \ {p} : pruner'[v] = pruner[v]
        /\ pruner'[p] = new
    BY <1>1, <2>3, <2>4
  <2>6. exported' = exported \cup {Result(q.stream, n, q.rows[n]) : n \in DOMAIN q.rows}
    BY <1>q, <1>8
  <2>7. exported \subseteq exported' /\ exported' \subseteq Results
    BY <1>1, <1>2, <2>6, ResultType
  <2>8. \A n \in DOMAIN q.rows : /\ n \in M \/ n \in DOMAIN archive'[q.stream]
                                 /\ Result(q.stream, n, q.rows[n]) \in exported'
    BY <1>4, <2>2, <2>6
  <2>9. PrunerOk(p)'
    BY <1>2, <1>4, <1>5, <2>2, <2>3, <2>5, <2>8 DEF PrunerOk
  <2> QED BY <1>3, <2>5, <2>7, <2>9, QuietPrunerStep
<1> QED BY <1>6, <1>7, <1>8 DEF LookUpArchive

\* The missing rows enter the archive, whether prune() hears of it or not.
LEMMA ArchivedInv ==
    ASSUME IInv, NEW p \in Pruners, pruner[p].phase = "exported",
           archive' = Insert(archive, pruner[p].stream, Only(pruner[p].rows, pruner[p].missing)),
           UNCHANGED <<pruneFrame, audits, checkpoints, exported>>,
           pruner' \in [Pruners -> PrunerType], \A q \in Pruners \ {p} : pruner'[q] = pruner[q],
           \/ pruner'[p].phase = "idle"
           \/ pruner'[p] = [pruner[p] EXCEPT !.phase = "archived"],
           calls' \in Nat, prunes' \in Nat, faults' \in Nat
    PROVE  IInv'
<1> USE DEF IInv
<1>q. PICK q \in PrunerType : q = pruner[p]
  BY PrunerFields
<1> DEFINE s == q.stream
           M == q.missing
<1>1. /\ SelectionOk(p) /\ s \in Streams /\ q.rows \in Rows /\ M \in SUBSET Nat
      /\ M \subseteq DOMAIN q.rows /\ q.cutoff \subseteq expired
      /\ \A n \in DOMAIN q.rows : /\ n \in M \/ n \in DOMAIN archive[s]
                                  /\ Result(s, n, q.rows[n]) \in exported
  BY <1>q, PrunerFields DEF PrunerInv, PrunerOk, SelectionOk
<1>2. /\ archive' \in [Streams -> Rows] /\ DOMAIN archive'[s] = M \cup DOMAIN archive[s]
      /\ \A n \in M : archive'[s][n] = q.rows[n]
      /\ \A n \in DOMAIN archive[s] \ M : archive'[s][n] = archive[s][n]
      /\ \A t \in Streams \ {s} : archive'[t] = archive[t]
  <2>1. archive \in [Streams -> Rows]
    BY DEF TypeOK
  <2>2. PICK R : R = Only(q.rows, M)
    OBVIOUS
  <2>3. R \in Rows /\ DOMAIN R = M /\ \A n \in M : R[n] = q.rows[n]
    BY <1>1, <2>2, OnlyType
  <2>4. archive' = Insert(archive, s, R)
    BY <1>q, <2>2
  <2>5. /\ archive' \in [Streams -> Rows] /\ DOMAIN archive'[s] = DOMAIN R \cup DOMAIN archive[s]
        /\ \A n \in DOMAIN R : archive'[s][n] = R[n]
        /\ \A n \in DOMAIN archive[s] \ DOMAIN R : archive'[s][n] = archive[s][n]
        /\ \A t \in Streams \ {s} : archive'[t] = archive[t]
    BY <1>1, <2>1, <2>3, <2>4, InsertType
  <2> HIDE DEF s, M
  <2> QED BY <2>3, <2>5
<1>3. /\ audits' = audits /\ checkpoints' = checkpoints /\ exported' = exported
      /\ writer' = writer /\ expired' = expired /\ returned' = returned
      /\ \A t : Chain(t)' = Chain(t)
  BY DEF pruneFrame, Chain
<1>4. \A id : Past(id)' <=> Past(id)
  BY <1>3 DEF Past
<1>5. \A t \in Streams : \A i : IdAt(t, i)' = IdAt(t, i)
  BY <1>3 DEF IdAt
<1>6. TypeOK'
  BY <1>2, <1>3, PrunerStepType DEF TypeOK
<1>7. Grown
  BY <1>3, SameTablesGrow
<1>8. \A t \in Streams : DOMAIN archive[t] \subseteq DOMAIN archive'[t]
  BY <1>2
<1>9. ASSUME NEW t \in Streams, NEW n \in DOMAIN archive'[t]
      PROVE  /\ 1 <= n /\ n < Len(Chain(t)) /\ OnChain(n, archive'[t][n], Chain(t))
             /\ Result(t, n, archive'[t][n]) \in exported
  <2>1. CASE t = s /\ n \in M
    <3>1. /\ archive'[t][n] = q.rows[n] /\ n \in DOMAIN q.rows /\ Result(t, n, q.rows[n]) \in exported
      BY <1>1, <1>2, <2>1
    <3>2. OnChain(n, q.rows[n], Chain(t)) /\ 1 <= n /\ n < Len(Chain(t))
      <4>1. PICK a, k \in Nat : 1 <= a /\ a <= k /\ k < Len(Chain(t)) /\ DOMAIN q.rows = a .. k
        BY <1>q, <1>1, <2>1 DEF SelectionOk
      <4>2. Len(Chain(t)) \in Nat
        BY ChainFacts
      <4>3. OnChain(n, q.rows[n], Chain(t))
        BY <1>q, <1>1, <2>1, <3>1 DEF SelectionOk
      <4> QED BY <3>1, <4>1, <4>2, <4>3
    <3> QED BY <3>1, <3>2
  <2>2. CASE ~(t = s /\ n \in M)
    <3>1. n \in DOMAIN archive[t] /\ archive'[t][n] = archive[t][n]
      BY <1>2, <2>2
    <3> QED BY <3>1 DEF ChainInv
  <2> QED BY <2>1, <2>2
<1>10. ChainInv'
  BY <1>3, <1>4, <1>5, <1>8, <1>9 DEF ChainInv
<1>11. IdInv'
  BY <1>3, <1>5 DEF IdInv
<1>12. WriterInv' /\ PendingInv'
  BY <1>3, WriterKeptSame DEF WriterInv, PendingInv, Apart
<1>13. PrunerInv'
  <2>1. ASSUME NEW v \in Pruners \ {p} PROVE PrunerOk(v)'
    BY <1>3, <1>6, <1>7, <1>8, PrunerKept DEF PrunerInv
  <2>2. CASE pruner'[p].phase = "idle"
    BY <2>1, <2>2 DEF PrunerInv, PrunerOk
  <2>3. CASE pruner'[p] = [q EXCEPT !.phase = "archived"]
    <3>1. /\ pruner'[p].phase = "archived" /\ pruner'[p].cutoff = q.cutoff
          /\ pruner'[p].stream = s /\ pruner'[p].rows = q.rows
      BY <2>3 DEF PrunerType
    <3>2. /\ \E a, k \in Nat : /\ 1 <= a /\ a <= k /\ k < Len(Chain(s)) /\ DOMAIN q.rows = a .. k
                               /\ \A n \in DOMAIN audits[s] : a <= n
          /\ \A n \in DOMAIN q.rows : OnChain(n, q.rows[n], Chain(s)) /\ Past(IdOf[q.rows[n].event])
      BY <1>q, <1>1 DEF SelectionOk
    <3>3. SelectionOk(p)'
      <4>1. \A n \in DOMAIN q.rows : OnChain(n, q.rows[n], Chain(s)') /\ Past(IdOf[q.rows[n].event])'
        BY <1>3, <3>2 DEF Past
      <4>2. \E a, k \in Nat : /\ 1 <= a /\ a <= k /\ k < Len(Chain(s)') /\ DOMAIN q.rows = a .. k
                              /\ \A n \in DOMAIN audits'[s] : a <= n
        BY <1>3, <3>2
      <4> QED BY <1>1, <3>1, <4>1, <4>2 DEF SelectionOk
    <3>4. DOMAIN q.rows \subseteq DOMAIN archive'[s]
      BY <1>1, <1>2
    <3>5. PrunerOk(p)'
      BY <1>1, <1>3, <3>1, <3>3, <3>4 DEF PrunerOk
    <3> QED BY <2>1, <3>5 DEF PrunerInv
  <2> QED BY <1>q, <2>2, <2>3
<1>14. ReturnInv'
  BY <1>3, <1>7, ReturnKept
<1> QED BY <1>6, <1>10, <1>11, <1>12, <1>13, <1>14

LEMMA ArchiveRowsInv ==
    ASSUME IInv, NEW p \in Pruners, ArchiveRows(p)
    PROVE  IInv'
<1> USE DEF IInv
<1>1. /\ pruner[p].phase = "exported" /\ UNCHANGED <<pruneFrame, audits, checkpoints, exported>>
      /\ calls' \in Nat /\ prunes' \in Nat /\ faults' \in Nat
  BY DEF ArchiveRows, bounds, TypeOK
<1>2. CASE /\ archive' = Insert(archive, pruner[p].stream, Only(pruner[p].rows, pruner[p].missing))
           /\ pruner' = [pruner EXCEPT ![p].phase = "archived"]
  <2>1. pruner \in [Pruners -> PrunerType] /\ pruner[p] \in PrunerType
    BY DEF TypeOK, PrunerType
  <2> DEFINE new == [pruner[p] EXCEPT !.phase = "archived"]
  <2>2. new \in PrunerType
    BY <2>1 DEF PrunerType, PrunerPhases
  <2>3. pruner' = [pruner EXCEPT ![p] = new]
    BY <1>2, <2>1
  <2> HIDE DEF new
  <2>4. /\ pruner' \in [Pruners -> PrunerType] /\ \A q \in Pruners \ {p} : pruner'[q] = pruner[q]
        /\ pruner'[p] = new
    BY <2>1, <2>2, <2>3
  <2> QED BY <1>1, <1>2, <2>4, ArchivedInv DEF new
<1>3. CASE PruneEnds(p) /\ UNCHANGED archive
  BY <1>1, <1>3, PruneEndsInv DEF tables
<1> QED BY <1>2, <1>3 DEF ArchiveRows

\* The rows a to k of stream s are deleted.
DeletedRows(p, s, a, k) ==
    /\ s = pruner[p].stream /\ DOMAIN pruner[p].rows = a .. k
    /\ 1 <= a /\ a <= k /\ k < Len(Chain(s))
    /\ audits' \in [Streams -> Rows] /\ checkpoints' \in [Streams -> Rows]
    /\ \A t \in Streams \ {s} : audits'[t] = audits[t] /\ checkpoints'[t] = checkpoints[t]
    /\ \A n \in DOMAIN audits[s] : a <= n
    /\ DOMAIN audits'[s] = DOMAIN audits[s] \ (a .. k)
    /\ \A n \in DOMAIN audits'[s] : audits'[s][n] = audits[s][n]
    /\ k \notin DOMAIN checkpoints[s] /\ DOMAIN checkpoints'[s] = {k} \cup DOMAIN checkpoints[s]
    /\ checkpoints'[s][k] = pruner[p].rows[k]
    /\ \A n \in DOMAIN checkpoints[s] \ {k} : checkpoints'[s][n] = checkpoints[s][n]

\* The rows that are deleted by id are the candidates that are still there.
LEMMA DeleteFacts ==
    ASSUME IInv, NEW p \in Pruners, pruner[p].phase = "archived", DeleteAndCheckpoint(p)
    PROVE  \E s \in Streams : \E a, k \in Nat : DeletedRows(p, s, a, k)
<1> USE DEF IInv
<1>q. PICK q \in PrunerType : q = pruner[p]
  BY PrunerFields
<1> DEFINE s == q.stream
<1>1. SelectionOk(p) /\ s \in Streams /\ q.rows \in Rows
  BY <1>q, PrunerFields DEF PrunerInv, PrunerOk, SelectionOk
<1>2. PICK a, k \in Nat : /\ 1 <= a /\ a <= k /\ k < Len(Chain(s)) /\ DOMAIN q.rows = a .. k
                          /\ \A n \in DOMAIN audits[s] : a <= n
  BY <1>q, <1>1 DEF SelectionOk
<1>3. Last(q.rows) = k /\ k \in DOMAIN q.rows /\ Len(Chain(s)) \in Nat
  <2>1. a <= k /\ DOMAIN q.rows = a .. k
    BY <1>2
  <2>2. Last(q.rows) = k
    BY <2>1, HeadOfInterval
  <2>3. k \in DOMAIN q.rows
    BY <2>1
  <2> QED BY <1>1, <2>2, <2>3, ChainFacts
<1> DEFINE gone == IdsOf(q.rows)
<1>4. ASSUME NEW n \in DOMAIN q.rows PROVE IdOf[q.rows[n].event] = IdAt(s, n) /\ n \in 1 .. Len(Chain(s))
  <2>1. OnChain(n, q.rows[n], Chain(s))
    BY <1>q, <1>1 DEF SelectionOk
  <2>2. Chain(s)[n] = [event |-> q.rows[n].event, seq |-> n]
    BY <2>1 DEF OnChain
  <2> QED BY <1>2, <1>3, <2>2 DEF IdAt
<1>5. ASSUME NEW t \in Streams, NEW n \in DOMAIN audits[t]
      PROVE  IdOf[audits[t][n].event] = IdAt(t, n) /\ n \in 1 .. Len(Chain(t))
  <2>1. OnChain(n, audits[t][n], Chain(t))
    BY DEF ChainInv
  <2>2. Chain(t)[n] = [event |-> audits[t][n].event, seq |-> n]
    BY <2>1 DEF OnChain
  <2> QED BY <2>2, ChainFacts DEF IdAt
<1>6. ASSUME NEW t \in Streams, NEW n \in DOMAIN audits[t]
      PROVE  IdOf[audits[t][n].event] \in gone <=> t = s /\ n \in a .. k
  <2>1. ASSUME IdOf[audits[t][n].event] \in gone PROVE t = s /\ n \in a .. k
    <3>1. PICK m \in DOMAIN q.rows : IdOf[q.rows[m].event] = IdOf[audits[t][n].event]
      BY <2>1 DEF IdsOf
    <3>2. IdAt(t, n) = IdAt(s, m) /\ n \in 1 .. Len(Chain(t)) /\ m \in 1 .. Len(Chain(s))
      BY <1>4, <1>5, <3>1
    <3>3. t = s /\ n = m
      BY <1>1, <3>2 DEF IdInv
    <3> QED BY <1>2, <3>3
  <2>2. ASSUME t = s, n \in a .. k PROVE IdOf[audits[t][n].event] \in gone
    <3>1. IdOf[q.rows[n].event] = IdOf[audits[t][n].event] /\ n \in DOMAIN q.rows
      BY <1>2, <1>4, <1>5, <2>2
    <3> QED BY <3>1 DEF IdsOf
  <2> QED BY <2>1, <2>2
<1> HIDE DEF gone
<1> DEFINE Kept(t) == {n \in DOMAIN audits[t] : IdOf[audits[t][n].event] \notin gone}
<1>7. audits' = [t \in Streams |-> Only(audits[t], Kept(t))]
  BY <1>q DEF DeleteAndCheckpoint, gone
<1>8. ASSUME NEW t \in Streams
      PROVE  /\ audits'[t] \in Rows /\ DOMAIN audits'[t] = Kept(t)
             /\ \A n \in Kept(t) : audits'[t][n] = audits[t][n]
  <2>1. audits[t] \in Rows /\ DOMAIN audits[t] \in SUBSET Nat
    BY RowsType DEF TypeOK
  <2>2. Kept(t) \subseteq DOMAIN audits[t] /\ Kept(t) \in SUBSET Nat
    BY <2>1
  <2>3. audits'[t] = Only(audits[t], Kept(t))
    BY <1>7
  <2> HIDE DEF Kept
  <2> QED BY <2>1, <2>2, <2>3, OnlyType
<1>9. ASSUME NEW t \in Streams \ {s} PROVE audits'[t] = audits[t]
  <2>1. Kept(t) = DOMAIN audits[t]
    BY <1>6
  <2>2. audits[t] \in Rows
    BY DEF TypeOK
  <2> HIDE DEF Kept
  <2> QED BY <1>8, <2>1, <2>2, RowsEqual
<1>10. Kept(s) = DOMAIN audits[s] \ (a .. k)
  BY <1>1, <1>6
<1>11. audits' \in [Streams -> Rows]
  <2> HIDE DEF Kept
  <2> QED BY <1>7, <1>8
<1>12. /\ checkpoints' \in [Streams -> Rows] /\ DOMAIN checkpoints'[s] = {k} \cup DOMAIN checkpoints[s]
       /\ checkpoints'[s][k] = q.rows[k]
       /\ \A n \in DOMAIN checkpoints[s] \ {k} : checkpoints'[s][n] = checkpoints[s][n]
       /\ \A t \in Streams \ {s} : checkpoints'[t] = checkpoints[t]
  <2>1. checkpoints \in [Streams -> Rows]
    BY DEF TypeOK
  <2>2. PICK R : R = Only(q.rows, {k})
    OBVIOUS
  <2>3. R \in Rows /\ DOMAIN R = {k} /\ R[k] = q.rows[k]
    <3>1. {k} \in SUBSET Nat /\ {k} \subseteq DOMAIN q.rows
      BY <1>3
    <3> QED BY <1>1, <2>2, <3>1, OnlyType
  <2>4. checkpoints' = Insert(checkpoints, s, R)
    BY <1>q, <1>3, <2>2 DEF DeleteAndCheckpoint
  <2> HIDE DEF s, Kept
  <2>0. R \in Rows
    BY <2>3
  <2> DEFINE new == Insert(checkpoints, s, R)
  <2>5. /\ new \in [Streams -> Rows]
        /\ DOMAIN new[s] = DOMAIN R \cup DOMAIN checkpoints[s]
        /\ \A n \in DOMAIN R : new[s][n] = R[n]
        /\ \A n \in DOMAIN checkpoints[s] \ DOMAIN R : new[s][n] = checkpoints[s][n]
        /\ \A t \in Streams \ {s} : new[t] = checkpoints[t]
    <3>1. s \in Streams
      BY <1>1
    <3> QED BY <2>0, <2>1, <3>1, InsertType, Zenon
  <2> HIDE DEF new
  <2>6. checkpoints' = new
    BY <2>4 DEF new
  <2> QED BY <2>3, <2>5, <2>6
<1>13. DOMAIN audits'[s] = DOMAIN audits[s] \ (a .. k) /\ \A n \in DOMAIN audits'[s] : audits'[s][n] = audits[s][n]
  <2> HIDE DEF Kept
  <2> QED BY <1>1, <1>8, <1>10
<1> HIDE DEF Kept
<1>14. k \notin DOMAIN checkpoints[s]
  BY <1>q, <1>3 DEF DeleteAndCheckpoint
<1>15. DeletedRows(p, s, a, k)
  BY <1>q, <1>1, <1>2, <1>9, <1>11, <1>12, <1>13, <1>14 DEF DeletedRows
<1> QED BY <1>1, <1>15

\* A delete takes rows away from the front, never the last one: the chains stay.
LEMMA DeleteKeepsChains ==
    ASSUME IInv, NEW p, NEW s \in Streams, NEW a \in Nat, NEW k \in Nat, DeletedRows(p, s, a, k)
    PROVE  LET L == Len(Chain(s))
               f == First(audits[s])
               b == IF f <= k THEN k + 1 ELSE f
           IN  /\ L \in Nat /\ f \in 1 .. L /\ DOMAIN audits[s] = f .. L
               /\ b \in 1 .. L /\ DOMAIN audits'[s] = b .. L /\ First(audits'[s]) = b
               /\ Grown /\ \A t \in Streams : Chain(t)' = Chain(t)
<1> USE DEF IInv
<1> DEFINE L == Len(Chain(s))
           f == First(audits[s])
           b == IF f <= k THEN k + 1 ELSE f
<1>1. /\ 1 <= a /\ a <= k /\ k < L /\ audits' \in [Streams -> Rows]
      /\ \A t \in Streams \ {s} : audits'[t] = audits[t]
      /\ \A n \in DOMAIN audits[s] : a <= n
      /\ DOMAIN audits'[s] = DOMAIN audits[s] \ (a .. k)
      /\ \A n \in DOMAIN audits'[s] : audits'[s][n] = audits[s][n]
  BY DEF DeletedRows
<1>2. L \in Nat /\ f \in 1 .. L /\ DOMAIN audits[s] = f .. L
  <2>1. DOMAIN audits[s] # {} /\ L \in Nat
    BY <1>1, ChainFacts
  <2> QED BY <2>1, ChainFacts
<1>3. b \in 1 .. L /\ DOMAIN audits'[s] = b .. L
  <2>1. b \in 1 .. L
    BY <1>1, <1>2
  <2>2. DOMAIN audits'[s] = (f .. L) \ (a .. k) /\ a <= f
    BY <1>1, <1>2
  <2>3. (f .. L) \ (a .. k) = b .. L
    BY <1>1, <1>2, <2>2
  <2> QED BY <2>1, <2>2, <2>3
<1> HIDE DEF b
<1>4. First(audits'[s]) = b /\ HeadOf(audits'[s]).hash = audits'[s][L].hash
  <2>1. b \in Nat /\ b <= L
    BY <1>2, <1>3
  <2>2. HeadOf(audits'[s]) = [seq |-> L, hash |-> audits'[s][L].hash] /\ First(audits'[s]) = b
    BY <1>2, <1>3, <2>1, HeadOfInterval
  <2> QED BY <2>2
<1>5. HeadOf(audits[s]).hash = audits[s][L].hash
  <2>1. f \in Nat /\ f <= L
    BY <1>2
  <2> QED BY <1>2, <2>1, HeadOfInterval
<1>6. audits'[s][L] = audits[s][L]
  BY <1>1, <1>2, <1>3
<1>7. \A t \in Streams : Chain(t)' = Chain(t)
  BY <1>1, <1>4, <1>5, <1>6 DEF Chain
<1>8. Grown
  BY <1>7, ChainFacts, ExtendsReflexive DEF Grown
<1> QED BY <1>2, <1>3, <1>4, <1>7, <1>8 DEF b

\* A prune deletes archived rows that are past, never the head.
LEMMA DeletedInv ==
    ASSUME IInv, NEW p \in Pruners, pruner[p].phase = "archived", DeleteAndCheckpoint(p),
           UNCHANGED <<pruneFrame, archive, exported>>,
           pruner' \in [Pruners -> PrunerType], \A q \in Pruners \ {p} : pruner'[q] = pruner[q],
           PrunerOk(p)', calls' \in Nat, prunes' \in Nat, faults' \in Nat
    PROVE  IInv'
<1> USE DEF IInv
<1>q. PICK q \in PrunerType : q = pruner[p]
  BY PrunerFields
<1>1. PICK s \in Streams : \E a, k \in Nat : DeletedRows(p, s, a, k)
  BY DeleteFacts
<1>0. PICK a, k \in Nat : DeletedRows(p, s, a, k)
  BY <1>1
<1>2. /\ s = q.stream /\ DOMAIN q.rows = a .. k
      /\ 1 <= a /\ a <= k /\ k < Len(Chain(s))
      /\ audits' \in [Streams -> Rows] /\ checkpoints' \in [Streams -> Rows]
      /\ \A t \in Streams \ {s} : audits'[t] = audits[t] /\ checkpoints'[t] = checkpoints[t]
      /\ \A n \in DOMAIN audits[s] : a <= n
      /\ DOMAIN audits'[s] = DOMAIN audits[s] \ (a .. k)
      /\ \A n \in DOMAIN audits'[s] : audits'[s][n] = audits[s][n]
      /\ DOMAIN checkpoints'[s] = {k} \cup DOMAIN checkpoints[s]
      /\ checkpoints'[s][k] = q.rows[k]
      /\ \A n \in DOMAIN checkpoints[s] \ {k} : checkpoints'[s][n] = checkpoints[s][n]
  BY <1>q, <1>0 DEF DeletedRows
<1> DEFINE L == Len(Chain(s))
<1>3. /\ archive' = archive /\ exported' = exported
      /\ writer' = writer /\ expired' = expired /\ returned' = returned
  BY DEF pruneFrame
<1>4. /\ L \in Nat /\ Grown /\ \A t \in Streams : Chain(t)' = Chain(t)
      /\ \E b \in 1 .. L : DOMAIN audits'[s] = b .. L
  BY <1>0, DeleteKeepsChains
<1>5. \E b \in 1 .. L : DOMAIN audits'[s] = b .. L
  BY <1>4
<1>6. \A t \in Streams : Chain(t)' = Chain(t)
  BY <1>4
<1>7. /\ \A id : Past(id)' <=> Past(id)
      /\ \A t \in Streams : \A i : IdAt(t, i)' = IdAt(t, i)
      /\ Grown
  BY <1>3, <1>4 DEF Past, IdAt
<1>8. TypeOK'
  BY <1>2, <1>3, PrunerStepType DEF TypeOK
<1>9. \A n \in DOMAIN q.rows :
        /\ OnChain(n, q.rows[n], Chain(s)) /\ Past(IdOf[q.rows[n].event])
        /\ n \in DOMAIN archive[s]
  BY <1>q, <1>2 DEF PrunerInv, PrunerOk, SelectionOk
<1>10. \A t \in Streams : \A n \in DOMAIN audits'[t] :
          n \in DOMAIN audits[t] /\ audits'[t][n] = audits[t][n]
  BY <1>2
<1>11. ASSUME NEW t \in Streams, NEW n \in DOMAIN checkpoints'[t]
       PROVE  1 <= n /\ n \notin DOMAIN audits'[t] /\ OnChain(n, checkpoints'[t][n], Chain(t))
  <2>1. CASE t = s /\ n = k
    BY <1>2, <1>9, <2>1
  <2>2. CASE ~(t = s /\ n = k)
    <3>1. n \in DOMAIN checkpoints[t] /\ checkpoints'[t][n] = checkpoints[t][n]
      BY <1>2, <2>2
    <3> QED BY <1>10, <3>1 DEF ChainInv
  <2> QED BY <2>1, <2>2
<1>12. ASSUME NEW t \in Streams, NEW i \in 1 .. Len(Chain(t)), i \notin DOMAIN audits'[t]
       PROVE  Past(IdAt(t, i)) /\ i \in DOMAIN archive[t]
  <2>1. CASE i \in DOMAIN audits[t]
    <3>1. t = s /\ i \in DOMAIN q.rows
      BY <1>2, <1>12, <2>1
    <3>2. OnChain(i, q.rows[i], Chain(s)) /\ Past(IdOf[q.rows[i].event]) /\ i \in DOMAIN archive[s]
      BY <1>9, <3>1
    <3>3. Chain(s)[i] = [event |-> q.rows[i].event, seq |-> i]
      BY <3>2 DEF OnChain
    <3> QED BY <3>1, <3>2, <3>3 DEF IdAt
  <2>2. CASE i \notin DOMAIN audits[t]
    BY <2>2 DEF ChainInv
  <2> QED BY <2>1, <2>2
<1>13. ASSUME NEW t \in Streams, DOMAIN audits'[t] # {}
       PROVE  \E b \in 1 .. Len(Chain(t)) : DOMAIN audits'[t] = b .. Len(Chain(t))
  <2>1. CASE t = s
    BY <1>5, <2>1
  <2>2. CASE t # s
    BY <1>2, <1>13, <2>2 DEF ChainInv
  <2> QED BY <2>1, <2>2
<1>14. ChainInv'
  BY <1>3, <1>6, <1>7, <1>10, <1>11, <1>12, <1>13 DEF ChainInv
<1>15. IdInv'
  BY <1>6, <1>7 DEF IdInv
<1>16. WriterInv'
  <2> SUFFICES ASSUME NEW w \in Writers PROVE WriterOk(w)'
    BY DEF WriterInv
  <2>1. ASSUME writer[w].phase \in Pending
        PROVE  ~Refuses(audits', writer[w].stream, writer[w].rows)
    <3>1. ~Refuses(audits, writer[w].stream, writer[w].rows) /\ writer[w].stream \in Streams
      BY <2>1 DEF WriterInv, WriterOk, RowsFit, Pending, InTransaction
    <3>2. \A t \in Streams : IdsOf(audits'[t]) \subseteq IdsOf(audits[t])
      BY <1>10 DEF IdsOf
    <3>3. \A t \in Streams : DOMAIN audits'[t] \subseteq DOMAIN audits[t]
      BY <1>10
    <3> QED BY <3>1, <3>2, <3>3 DEF Refuses
  <2>2. \A t \in Streams : \A i \in Len(Chain(t)) + 1 .. Len(Chain(t)') : FALSE
    BY <1>6, ChainFacts
  <2> QED BY <1>3, <1>7, <2>1, <2>2, WriterKept DEF WriterInv
<1>17. PendingInv'
  BY <1>3 DEF PendingInv, Apart
<1>18. PrunerInv'
  BY <1>3, <1>7, <1>8, <1>10, PrunerKept DEF PrunerInv
<1>19. ReturnInv'
  BY <1>3, <1>7, ReturnKept
<1> QED BY <1>8, <1>14, <1>15, <1>16, <1>17, <1>18, <1>19

LEMMA DeleteInv ==
    ASSUME IInv, NEW p \in Pruners, Delete(p)
    PROVE  IInv'
<1> USE DEF IInv
<1>1. /\ pruner[p].phase = "archived" /\ UNCHANGED <<pruneFrame, archive, exported>>
      /\ calls' \in Nat /\ prunes' \in Nat /\ faults' \in Nat
  BY DEF Delete, MayDelete, bounds, TypeOK
<1>q. PICK q \in PrunerType : q = pruner[p]
  BY PrunerFields
<1>2. CASE /\ DeleteAndCheckpoint(p)
           /\ pruner' = [pruner EXCEPT ![p] =
                  [pruner[p] EXCEPT !.phase = "selecting", !.todo = @ \ {pruner[p].stream},
                       !.stream = Free, !.rows = NoRows, !.missing = {}]]
  <2>1. pruner \in [Pruners -> PrunerType]
    BY DEF TypeOK, PrunerType
  <2> DEFINE new == [q EXCEPT !.phase = "selecting", !.todo = @ \ {q.stream},
                         !.stream = Free, !.rows = NoRows, !.missing = {}]
  <2>2. new \in PrunerType /\ new.phase = "selecting" /\ new.cutoff = q.cutoff
    BY NoRowsType DEF PrunerType, PrunerPhases
  <2>3. pruner' = [pruner EXCEPT ![p] = new]
    BY <1>q, <1>2
  <2> HIDE DEF new
  <2>4. /\ pruner' \in [Pruners -> PrunerType] /\ \A v \in Pruners \ {p} : pruner'[v] = pruner[v]
        /\ pruner'[p] = new
    BY <2>1, <2>2, <2>3
  <2>5. q.cutoff \subseteq expired
    BY <1>1, <1>q DEF PrunerInv, PrunerOk
  <2>6. expired' = expired
    BY <1>1 DEF pruneFrame
  <2>7. PrunerOk(p)'
    BY <2>2, <2>4, <2>5, <2>6 DEF PrunerOk
  <2> QED BY <1>1, <1>2, <2>4, <2>7, DeletedInv
<1>3. CASE PruneEnds(p) /\ UNCHANGED <<audits, checkpoints>>
  BY <1>1, <1>3, PruneEndsInv DEF tables
<1> QED BY <1>2, <1>3 DEF Delete

LEMMA PruneFailsInv ==
    ASSUME IInv, NEW p \in Pruners, PruneFails(p)
    PROVE  IInv'
<1> USE DEF IInv
<1>1. /\ PruneEnds(p) /\ UNCHANGED <<pruneFrame, exported>>
      /\ calls' \in Nat /\ prunes' \in Nat /\ faults' \in Nat
  BY DEF PruneFails, Fault, TypeOK
<1>2. CASE UNCHANGED tables
  BY <1>1, <1>2, PruneEndsInv
<1>3. CASE /\ pruner[p].phase = "exported"
           /\ archive' = Insert(archive, pruner[p].stream, Only(pruner[p].rows, pruner[p].missing))
           /\ UNCHANGED <<audits, checkpoints>>
  BY <1>1, <1>3, PruneEndsType, ArchivedInv
<1>4. CASE MayDelete(p) /\ DeleteAndCheckpoint(p) /\ UNCHANGED archive
  BY <1>1, <1>4, PruneEndsType, DeletedInv DEF MayDelete
<1> QED BY <1>2, <1>3, <1>4 DEF PruneFails

\* Every step of prune() keeps the invariant.
LEMMA PruneStepInv ==
    ASSUME IInv, NEW p \in Pruners, PruneStep(p)
    PROVE  IInv'
<1>1. CASE \E filter \in Filters : Prune(p, filter)
  BY <1>1, PruneInv
<1>2. CASE DeleteTimeout(p) \/ Report(p)
  BY <1>2, PruneEndsInv DEF DeleteTimeout, Report, bounds, IInv, TypeOK
<1> QED BY <1>1, <1>2, SelectStreamInv, LookUpArchiveInv, ArchiveRowsInv, DeleteInv, PruneFailsInv
        DEF PruneStep

\* The clock moves while nobody writes.
LEMMA ExpireInv ==
    ASSUME IInv, NEW e \in Events, Expire(e)
    PROVE  IInv'
<1> USE DEF IInv
<1>1. /\ UNCHANGED <<dialect, tables, lock, writer, pruner, outside, bounds>>
      /\ expired' = expired \cup {e} /\ \A w \in Writers : writer[w].phase = "idle"
  BY DEF Expire
<1>2. /\ audits' = audits /\ archive' = archive /\ exported' = exported /\ returned' = returned
      /\ checkpoints' = checkpoints /\ writer' = writer /\ pruner' = pruner
      /\ expired \subseteq expired'
  BY <1>1 DEF tables, outside
<1>3. TypeOK'
  BY <1>1, <1>2 DEF TypeOK, bounds
<1>4. Grown
  BY <1>2, SameTablesGrow
<1>5. ChainInv' /\ IdInv'
  BY <1>1, <1>2, ChainKept
<1>6. WriterInv' /\ PendingInv'
  BY <1>1, <1>2 DEF WriterInv, WriterOk, PendingInv, InTransaction, Headed, Pending
<1>7. PrunerInv'
  BY <1>2, <1>3, <1>4, PrunerKept DEF PrunerInv
<1>8. ReturnInv'
  BY <1>2, <1>4, ReturnKept
<1> QED BY <1>3, <1>5, <1>6, <1>7, <1>8

LEMMA NextInv ==
    ASSUME IInv, Prompt, [Next]_vars
    PROVE  IInv'
<1>1. CASE UNCHANGED vars
  <2>1. /\ UNCHANGED <<pruneFrame, tables, exported>> /\ pruner' = pruner
        /\ UNCHANGED <<dialect, lock, writer, expired, returned, calls, prunes, faults>>
    BY <1>1 DEF vars, pruneFrame, outside, bounds
  <2>2. audits' = audits /\ archive' = archive /\ checkpoints' = checkpoints
    BY <2>1 DEF tables
  <2>3. TypeOK'
    BY <2>1, <2>2 DEF IInv, TypeOK
  <2>4. Grown
    BY <2>2, SameTablesGrow DEF IInv
  <2>5. ChainInv' /\ IdInv'
    BY <2>1, ChainKept DEF IInv
  <2>6. WriterInv' /\ PendingInv'
    BY <2>1, <2>2, WriterKeptSame DEF IInv, WriterInv, PendingInv, Apart
  <2>7. PrunerInv'
    BY <2>1, <2>2, <2>3, <2>4, PrunerKept DEF IInv, PrunerInv
  <2>8. ReturnInv'
    BY <2>1, <2>4, ReturnKept DEF IInv
  <2> QED BY <2>3, <2>5, <2>6, <2>7, <2>8 DEF IInv
<1> QED BY <1>1, WriteStepInv, PruneStepInv, ExpireInv DEF Next

-----------------------------------------------------------------------------
(* Theorems.  Prompt: nobody writes an event again once its retention has  *)
(* passed; without it a pruned event can be chained a second time.         *)

\* The inductive invariant holds of any number of processes, of every dialect, and
\* through every failure.
THEOREM Invariance ==
    ASSUME Prompt
    PROVE  Spec => []IInv
<1>1. IInv /\ [Next]_vars => IInv'
  BY NextInv
<1> QED BY <1>1, InitInv, PTL DEF Spec

\* What the tables know of a stream is one chain (lucid_store.ts:566-655, 438-494).
THEOREM ChainIsOne ==
    ASSUME Prompt
    PROVE  Spec => []OneChain
BY Invariance, InvGivesOneChain, PTL

\* What write() has returned resolves to the same hash for ever
\* (lucid_store.ts:186-216, 349-366, 438-494).
THEOREM ReturnedStays ==
    ASSUME Prompt
    PROVE  Spec => []ReturnedResolves
BY Invariance, InvGivesReturnedResolves, PTL

\* Rows are archived before they are deleted, and exported before they are archived
\* (lucid_store.ts:458-479).
THEOREM ArchivesComeFirst ==
    ASSUME Prompt
    PROVE  Spec => []ArchivedFirst
BY Invariance, InvGivesArchivedFirst, PTL

-----------------------------------------------------------------------------
(* What a step does to the live rows. *)

\* Only a commit and a delete touch them.
LEMMA StepKinds ==
    ASSUME [Next]_vars
    PROVE  \/ UNCHANGED <<audits, checkpoints>>
           \/ \E w \in Writers :
                 CommitRows(w) /\ UNCHANGED <<archive, checkpoints, expired, exported>>
           \/ \E p \in Pruners : pruner[p].phase = "archived" /\ DeleteAndCheckpoint(p)
<1>1. CASE UNCHANGED vars
  BY <1>1 DEF vars, tables
<1>2. ASSUME NEW w \in Writers, WriteStep(w)
      PROVE  \/ UNCHANGED <<audits, checkpoints>>
             \/ CommitRows(w) /\ UNCHANGED <<archive, checkpoints, expired, exported>>
  <2>1. CASE Commit(w) \/ CommitUnheard(w)
    BY <2>1 DEF Commit, CommitUnheard, writeFrame
  <2>2. CASE ~(Commit(w) \/ CommitUnheard(w))
    BY <1>2, <2>2 DEF WriteStep, Write, AcquireLock, LockTimeout, ReadHead, InsertRows, ReleaseLock,
                      WriteFails, Return, writeFrame
  <2> QED BY <2>1, <2>2
<1>3. ASSUME NEW p \in Pruners, PruneStep(p)
      PROVE  \/ UNCHANGED <<audits, checkpoints>>
             \/ pruner[p].phase = "archived" /\ DeleteAndCheckpoint(p)
  <2>1. CASE Delete(p)
    BY <2>1 DEF Delete, MayDelete
  <2>2. CASE PruneFails(p)
    BY <2>2 DEF PruneFails, MayDelete, tables
  <2>3. CASE ~Delete(p) /\ ~PruneFails(p)
    BY <1>3, <2>3
    DEF PruneStep, Prune, SelectStream, LookUpArchive, ArchiveRows, DeleteTimeout, Report, tables
  <2> QED BY <2>1, <2>2, <2>3
<1>4. ASSUME NEW e \in Events, Expire(e) PROVE UNCHANGED <<audits, checkpoints>>
  BY <1>4 DEF Expire, tables
<1> QED BY <1>1, <1>2, <1>3, <1>4 DEF Next

-----------------------------------------------------------------------------
(* The store implements AuditLog. *)

\* How many entries of a stream retention has removed.
Gone(s) == IF DOMAIN audits[s] = {} THEN 0 ELSE First(audits[s]) - 1

\* The mapped state of AuditLog.
Logs == [s \in Streams |-> Chain(s)]
Gones == [s \in Streams |-> Gone(s)]

\* A commit makes the log of one stream grow.
LEMMA CommitGrows ==
    ASSUME IInv, NEW w \in Writers, CommitRows(w), UNCHANGED <<archive, checkpoints, expired, exported>>
    PROVE  Log!Next
<1> USE DEF IInv
<1>1. PICK s \in Streams : s = writer[w].stream
  BY DEF CommitRows, WriterInv, WriterOk, InTransaction
<1> DEFINE L == Len(Chain(s))
           N == Len(Chain(s)')
<1>2. /\ Grown /\ L + 1 <= N
      /\ DOMAIN audits'[s] = DOMAIN audits[s] \cup (L + 1 .. N)
      /\ \A t \in Streams \ {s} : audits'[t] = audits[t] /\ Chain(t)' = Chain(t)
  BY <1>1, CommittedRows
<1>3. /\ L \in Nat /\ N \in Nat /\ Chain(s) \in Hash /\ Chain(s)' \in Hash
      /\ SubSeq(Chain(s)', 1, L) = Chain(s)
  <2>1. L \in Nat /\ N \in Nat /\ Chain(s) \in Hash /\ Chain(s)' \in Hash
    BY <1>2, GrownFacts DEF Grown
  <2>2. L \in 0 .. L
    BY <2>1
  <2>3. SubSeq(Chain(s)', 1, L) = SubSeq(Chain(s), 1, L)
    BY <1>2, <2>2, GrownFacts
  <2>4. SubSeq(Chain(s), 1, L) = Chain(s)
    BY <2>1, SubSeqFull DEF Hash
  <2> QED BY <2>1, <2>3, <2>4
<1>4. ChainInv' /\ IdInv'
  BY <1>1, CommitChains, CommitIds
<1>5. \A i \in L + 1 .. N : i \in 1 .. N
  BY <1>3
<1>6. ASSUME NEW i \in L + 1 .. N PROVE Chain(s)'[i].seq = i
  BY <1>4, <1>5 DEF ChainInv
<1>7. ASSUME NEW i \in L + 1 .. N, NEW t \in Streams, NEW j \in 1 .. Len(Chain(t)'),
             <<t, j>> # <<s, i>>
      PROVE  IdAt(t, j)' # IdAt(s, i)'
  BY <1>4, <1>5, <1>7 DEF IdInv
<1>8. \A t \in Streams : Gone(t)' = Gone(t)
  <2>1. Gone(s)' = Gone(s)
    <3>1. CASE DOMAIN audits[s] = {}
      <4>1. L = 0
        BY <3>1, ChainFacts
      <4>2. DOMAIN audits'[s] = 1 .. N /\ 1 \in Nat /\ 1 <= N
        BY <1>2, <1>3, <3>1, <4>1
      <4>3. First(audits'[s]) = 1 /\ DOMAIN audits'[s] # {}
        BY <1>3, <4>2, HeadOfInterval
      <4> QED BY <3>1, <4>3 DEF Gone
    <3>2. CASE DOMAIN audits[s] # {}
      <4> DEFINE a == First(audits[s])
      <4>1. a \in 1 .. L /\ DOMAIN audits[s] = a .. L
        BY <3>2, ChainFacts
      <4>2. DOMAIN audits'[s] = a .. N /\ a \in Nat /\ a <= N
        BY <1>2, <1>3, <4>1
      <4>3. First(audits'[s]) = a /\ DOMAIN audits'[s] # {}
        BY <1>3, <4>2, HeadOfInterval
      <4> QED BY <3>2, <4>3 DEF Gone
    <3> QED BY <3>1, <3>2
  <2> QED BY <1>2, <2>1 DEF Gone
<1>9. Log!Grow(s)
  <2>1. /\ Len(Logs[s]) < Len(Logs'[s]) /\ SubSeq(Logs'[s], 1, Len(Logs[s])) = Logs[s]
    BY <1>2, <1>3 DEF Logs
  <2>2. \A t \in Streams \ {s} : Logs'[t] = Logs[t]
    BY <1>2 DEF Logs
  <2>3. Gones' = Gones
    BY <1>8 DEF Gones
  <2>4. ASSUME NEW i \in Len(Logs[s]) + 1 .. Len(Logs'[s])
        PROVE  /\ Logs'[s][i].seq = i
               /\ \A t \in Streams : \A j \in 1 .. Len(Logs'[t]) :
                     <<t, j>> # <<s, i>> => IdOf[Logs'[t][j].event] # IdOf[Logs'[s][i].event]
    BY <1>6, <1>7 DEF Logs, IdAt
  <2> QED BY <2>1, <2>2, <2>3, <2>4 DEF Log!Grow, Log!Id, Logs, Gones, Chain, Gone
<1> QED BY <1>9 DEF Log!Next

\* A delete takes entries away from the front of one log, or has nothing left to take.
LEMMA DeleteTrims ==
    ASSUME IInv, NEW p \in Pruners, pruner[p].phase = "archived", DeleteAndCheckpoint(p)
    PROVE  [Log!Next]_(Log!vars)
<1> USE DEF IInv
<1>1. PICK s \in Streams, a \in Nat, k \in Nat : DeletedRows(p, s, a, k)
  BY DeleteFacts
<1> DEFINE L == Len(Chain(s))
           f == First(audits[s])
           b == IF f <= k THEN k + 1 ELSE f
<1>2. /\ k < L /\ \A t \in Streams \ {s} : audits'[t] = audits[t]
  BY <1>1 DEF DeletedRows
<1>3. /\ L \in Nat /\ f \in 1 .. L /\ DOMAIN audits[s] = f .. L
      /\ b \in 1 .. L /\ DOMAIN audits'[s] = b .. L /\ First(audits'[s]) = b
      /\ \A t \in Streams : Chain(t)' = Chain(t)
  BY <1>1, DeleteKeepsChains
<1> HIDE DEF b
<1>4. Gone(s) = f - 1 /\ Gone(s)' = b - 1 /\ \A t \in Streams \ {s} : Gone(t)' = Gone(t)
  <2>1. DOMAIN audits[s] # {} /\ DOMAIN audits'[s] # {}
    BY <1>3
  <2> QED BY <1>2, <1>3, <2>1 DEF Gone
<1> USE DEF b
<1> HIDE DEF f
<1>5. CASE f <= k
  <2>1. f - 1 < b - 1 /\ b - 1 < L
    BY <1>2, <1>3, <1>5
  <2>2. Log!Trim(s)
    <3>1. Gones[s] < Gones'[s] /\ Gones'[s] < Len(Logs[s])
      BY <1>4, <2>1 DEF Gones, Logs
    <3>2. Logs' = Logs
      BY <1>3 DEF Logs
    <3>3. \A t \in Streams \ {s} : Gones'[t] = Gones[t]
      BY <1>4 DEF Gones
    <3> QED BY <3>1, <3>2, <3>3 DEF Log!Trim, Logs, Gones, Chain, Gone
  <2> QED BY <2>2 DEF Log!Next
<1>6. CASE ~(f <= k)
  <2>1. \A t \in Streams : Gone(t)' = Gone(t)
    BY <1>4, <1>6
  <2>2. Logs' = Logs /\ Gones' = Gones
    BY <1>3, <2>1 DEF Logs, Gones
  <2> QED BY <2>2 DEF Log!vars, Logs, Gones, Chain, Gone
<1> QED BY <1>5, <1>6

\* A step that leaves the live rows alone is a stutter.
LEMMA StutterRefines ==
    ASSUME UNCHANGED audits
    PROVE  [Log!Next]_(Log!vars)
BY DEF Log!vars

LEMMA StepRefines ==
    ASSUME IInv, [Next]_vars
    PROVE  [Log!Next]_(Log!vars)
BY StepKinds, StutterRefines, CommitGrows, DeleteTrims

LEMMA InitRefines == Init => Log!Init
<1> SUFFICES ASSUME Init PROVE Log!Init
  OBVIOUS
<1>1. \A s \in Streams : audits[s] = NoRows
  BY DEF Init
<1>2. \A s \in Streams : Chain(s) = <<>> /\ Gone(s) = 0
  BY <1>1, NoRowsType DEF Chain, Gone, HeadOf, NoHead, GENESIS
<1>3. Logs = [s \in Streams |-> <<>>] /\ Gones = [s \in Streams |-> 0]
  BY <1>2 DEF Logs, Gones
<1> QED BY <1>3 DEF Log!Init, Logs, Gones, Chain, Gone

\* The store implements the append-only log per stream: a commit adds new events at the end
\* of one log, a delete takes entries away from its front and leaves the last one, and no
\* other step of any process is seen (lucid_store.ts:166-217, 368-505).
THEOREM StoreImplementsLog ==
    ASSUME Prompt
    PROVE  Spec => LogSpec
<1>1. IInv /\ [Next]_vars => [Log!Next]_(Log!vars)
  BY StepRefines
<1> QED BY <1>1, Invariance, InitRefines, PTL DEF Spec, LogSpec, Log!Spec

=============================================================================
