-------------------------- MODULE AnchoringProofs --------------------------
(***************************************************************************)
(* Theorems about Anchoring, for any streams, deliverers, batches and      *)
(* intervals: what was delivered is anchored, a check fails only for a     *)
(* loss or a torn line of the anchors file, and a check that passes has    *)
(* overlooked less than an interval of any loss, as long as no lost event  *)
(* is delivered again.                                                     *)
(***************************************************************************)
EXTENDS Anchoring, SequenceTheorems, FiniteSetTheorems, WellFoundedInduction, TLAPS

-----------------------------------------------------------------------------
(* Numbers. *)

\* A set of natural numbers that is not empty has a least element.
LEMMA LeastElement ==
    ASSUME NEW T \in SUBSET Nat, T # {}
    PROVE  \E x \in T : \A y \in T : x <= y
<1> DEFINE F == {1 .. x : x \in T}
<1>1. IsWellFoundedOn(StrictSubsetOrdering(Nat), FiniteSubsetsOf(Nat))
  BY FS_StrictSubsetOrderingWellFounded
<1>2. F \subseteq FiniteSubsetsOf(Nat) /\ F # {}
  <2>1. ASSUME NEW x \in T PROVE 1 .. x \in FiniteSubsetsOf(Nat)
    <3>1. 1 \in Int /\ x \in Int /\ 1 .. x \subseteq Nat
      OBVIOUS
    <3>2. IsFiniteSet(1 .. x)
      BY <3>1, FS_Interval
    <3> QED BY <3>1, <3>2 DEF FiniteSubsetsOf
  <2> QED BY <2>1
<1>3. PICK s \in F : \A t \in F : ~(<<t, s>> \in StrictSubsetOrdering(Nat))
  BY <1>1, <1>2, WFMin
<1>4. PICK x \in T : s = 1 .. x
  OBVIOUS
<1>5. ASSUME NEW y \in T, y < x PROVE FALSE
  <2>1. 1 .. y \in F
    OBVIOUS
  <2>2. 1 .. y \subseteq 1 .. x /\ x \in 1 .. x /\ x \notin 1 .. y
    BY <1>5
  <2>3. <<1 .. y, 1 .. x>> \in StrictSubsetOrdering(Nat)
    BY <2>2 DEF StrictSubsetOrdering
  <2> QED BY <2>1, <2>3, <1>3, <1>4
<1> QED BY <1>5

\* A bounded one has a greatest.
LEMMA GreatestElement ==
    ASSUME NEW T \in SUBSET Nat, T # {}, NEW bound \in Nat, \A n \in T : n <= bound
    PROVE  \E x \in T : \A y \in T : y <= x
<1> DEFINE D == {d \in Nat : bound - d \in T}
<1>1. PICK t \in T : TRUE
  OBVIOUS
<1>2. bound - t \in D
  BY <1>1
<1>3. PICK d \in D : \A e \in D : d <= e
  BY <1>2, LeastElement
<1>4. ASSUME NEW y \in T PROVE y <= bound - d
  <2>1. y \in Nat /\ y <= bound
    OBVIOUS
  <2>2. bound - y \in Nat /\ bound - (bound - y) = y
    BY <2>1
  <2>3. d <= bound - y
    BY <1>3, <2>2
  <2> QED BY <2>1, <2>3
<1> QED BY <1>3, <1>4

\* A later row is not in an earlier bucket.
LEMMA BucketMonotone ==
    ASSUME NEW m \in Nat, NEW n \in Nat, m <= n
    PROVE  Bucket(m) \in Nat /\ Bucket(m) <= Bucket(n)
<1>1. Every \in Nat \ {0}
  BY EveryAssumption
<1> QED BY <1>1 DEF Bucket

-----------------------------------------------------------------------------
(* onFlush(). *)

\* Every row has a head of its stream that is not before it.
LEMMA RowHasHead ==
    ASSUME NEW rows, DOMAIN rows \subseteq Nat, \A k \in DOMAIN rows : RowOk(rows[k]),
           NEW k \in DOMAIN rows
    PROVE  \E h \in LastPerStream(rows) : h.stream = rows[k].stream /\ rows[k].seq <= h.seq
<1> DEFINE s == rows[k].stream
           S == {i \in DOMAIN rows : rows[i].stream = s}
           T == {rows[i].seq : i \in S}
<1>1. s \in Streams /\ MaxRows[s] \in Nat
  BY BoundsAssumption DEF RowOk
<1>2. T \in SUBSET Nat /\ T # {} /\ \A n \in T : n <= MaxRows[s]
  BY <1>1, SMTT(20) DEF RowOk
<1>3. PICK x \in T : \A y \in T : y <= x
  BY <1>1, <1>2, GreatestElement
<1>4. PICK i \in S : x = rows[i].seq
  OBVIOUS
<1>5. rows[i] \in LastPerStream(rows)
  BY <1>3, <1>4 DEF LastPerStream
<1> QED BY <1>3, <1>4, <1>5

\* What Continue passes over needs no anchor, the rest is kept.
LEMMA ContinueKeeps ==
    ASSUME NEW j, NEW heads, NEW st, DOMAIN j.rows \subseteq Nat,
           \A h \in heads : \E k \in DOMAIN j.rows : h = j.rows[k]
    PROVE  LET c == Continue(j, heads, st)
           IN  /\ \/ c = Idle
                  \/ /\ c.phase = "publishing" /\ c.rows = j.rows /\ c.day = today
                     /\ c.head \in heads /\ c.left \subseteq heads
               /\ \A h \in heads : ShouldAnchor(st, h) =>
                     c.phase = "publishing" /\ h \in {c.head} \cup c.left
<1> DEFINE due == {h \in heads : ShouldAnchor(st, h)}
           next == CHOOSE h \in due : \A g \in due : ~Before(j.rows, g, h)
<1>1. CASE due = {}
  BY <1>1 DEF Continue
<1>2. CASE due # {}
  <2> DEFINE K == {k \in DOMAIN j.rows : \E h \in due : h.stream = j.rows[k].stream}
  <2>1. K \in SUBSET Nat /\ K # {}
    BY <1>2
  <2>2. PICK k \in K : \A i \in K : k <= i
    BY <2>1, LeastElement
  <2>3. PICK h \in due : h.stream = j.rows[k].stream
    OBVIOUS
  <2>4. ASSUME NEW g \in due PROVE ~Before(j.rows, g, h)
    <3>1. SUFFICES ASSUME NEW i \in DOMAIN j.rows, j.rows[i].stream = g.stream, i < k
                   PROVE  FALSE
      BY <2>3 DEF Before
    <3>2. i \in K
      BY <3>1
    <3> QED BY <3>1, <3>2, <2>1, <2>2
  <2>5. next \in due /\ \A g \in due : ~Before(j.rows, g, next)
    BY <2>4
  <2> HIDE DEF next
  <2>6. Continue(j, heads, st) =
          [phase |-> "publishing", rows |-> j.rows, head |-> next, day |-> today,
           left |-> {g \in heads \ {next} : ~Before(j.rows, g, next)}]
    BY <1>2 DEF Continue, next
  <2> QED BY <2>5, <2>6
<1> QED BY <1>1, <1>2

-----------------------------------------------------------------------------
(* Types. *)

\* A count is a number, grows along the batch, and counts the event itself.
LEMMA CountOfBounds ==
    ASSUME NEW batch \in Seq(Streams), NEW s \in Streams, NEW k \in 0 .. Len(batch)
    PROVE  /\ CountOf(batch, s, k) \in Nat
           /\ CountOf(batch, s, k) <= CountOf(batch, s, Len(batch))
           /\ k \in DOMAIN batch /\ batch[k] = s => 1 <= CountOf(batch, s, k)
<1> DEFINE C(i) == {n \in 1 .. i : batch[n] = s}
<1>1. ASSUME NEW i \in 0 .. Len(batch) PROVE IsFiniteSet(C(i)) /\ Cardinality(C(i)) \in Nat
  <2>1. IsFiniteSet(1 .. i)
    BY FS_Interval
  <2>2. C(i) \subseteq 1 .. i
    OBVIOUS
  <2>3. IsFiniteSet(C(i))
    BY <2>1, <2>2, FS_Subset
  <2> QED BY <2>3, FS_CardinalityType
<1>2. Len(batch) \in 0 .. Len(batch)
  BY LenProperties
<1>3. C(k) \subseteq C(Len(batch))
  OBVIOUS
<1>4. Cardinality(C(k)) <= Cardinality(C(Len(batch)))
  <2>1. IsFiniteSet(C(Len(batch)))
    BY <1>1, <1>2
  <2> HIDE DEF C
  <2> QED BY <2>1, <1>3, FS_Subset
<1>5. k \in DOMAIN batch /\ batch[k] = s => 1 <= Cardinality(C(k))
  <2>1. SUFFICES ASSUME k \in DOMAIN batch, batch[k] = s PROVE 1 <= Cardinality(C(k))
    OBVIOUS
  <2>2. {k} \subseteq C(k)
    BY <2>1
  <2>3. IsFiniteSet(C(k)) /\ Cardinality({k}) = 1
    BY <1>1, FS_Singleton
  <2> HIDE DEF C
  <2> QED BY <2>2, <2>3, FS_Subset
<1> QED BY <1>1, <1>4, <1>5 DEF CountOf

\* The first n entries of a chain are a hash.
LEMMA HashType ==
    ASSUME NEW c \in Seq(Events), NEW n \in 0 .. Len(c)
    PROVE  SubSeq(c, 1, n) \in Seq(Events)
<1>1. \A i \in 1 .. n : c[i] \in Events
  BY ElementOfSeq
<1> QED BY <1>1, SubSeqProperties

\* A delivery is typed in every state of its day.
LEMMA IdleOk == ASSUME today \in Nat PROVE JobOk(Idle)
BY DEF JobOk, Idle

LEMMA TypeInit == Init => TypeOK
<1>1. SUFFICES ASSUME Init PROVE TypeOK
  OBVIOUS
<1>2. NotAnchored \in {NotAnchored} \cup [seq : Nat, day : Nat]
  OBVIOUS
<1>3. check.stream \in Streams
  BY <1>1, StreamsAssumption DEF Init, NoCheck
<1> QED BY <1>1, <1>2, <1>3, IdleOk, EmptySeq DEF Init, TypeOK, NoCheck

\* New events bear the mark of the present.
LEMMA NewEventsType ==
    ASSUME TypeOK, NEW s \in Streams, NEW m \in Nat
    PROVE  /\ NewEvents(s, m) \in Seq(Events) /\ Len(NewEvents(s, m)) = m
           /\ \A k \in 1 .. m : NewEvents(s, m)[k][1] = restores
<1>1. restores \in Nat /\ Len(chain[s]) \in Nat
  BY LenProperties DEF TypeOK
<1>2. PICK l \in Nat : l = Len(chain[s])
  BY <1>1
<1>3. \A k \in Nat : Event(l + k) \in Events /\ Event(l + k)[1] = restores
  BY <1>1 DEF Event, Events
<1>4. NewEvents(s, m) = [k \in 1 .. m |-> Event(l + k)]
  BY <1>2 DEF NewEvents
<1> DEFINE f == [k \in 1 .. m |-> Event(l + k)]
<1>5. f \in Seq(Events) /\ Len(f) = m /\ \A k \in 1 .. m : f[k][1] = restores
  BY <1>3
<1> QED BY <1>4, <1>5

\* What a batch becomes, and what of it is delivered.
LEMMA WriteType ==
    ASSUME TypeOK, NEW d \in Deliverers, NEW batch \in Batches, Write(d, batch)
    PROVE  /\ chain' \in [Streams -> Seq(Events)]
           /\ \A s \in Streams : \A n \in 0 .. Len(chain[s]) :
                 /\ Len(chain[s]) <= Len(chain'[s])
                 /\ SubSeq(chain'[s], 1, n) = SubSeq(chain[s], 1, n)
           /\ job'[d].phase = "written" /\ job'[d].day = 0
           /\ DOMAIN job'[d].rows \subseteq Nat
           /\ \A k \in DOMAIN job'[d].rows :
                 LET r == job'[d].rows[k]
                 IN  RowOk(r) /\ r.seq <= Len(chain'[r.stream]) /\ r = Row(chain', r.stream, r.seq)
<1> DEFINE new(s) == NewEvents(s, CountOf(batch, s, Len(batch)))
<1>1. batch \in Seq(Streams) /\ Len(batch) \in Nat /\ DOMAIN batch = 1 .. Len(batch)
  BY BatchesAssumption, LenProperties
<1>2. ASSUME NEW s \in Streams
      PROVE  /\ new(s) \in Seq(Events) /\ Len(new(s)) = CountOf(batch, s, Len(batch))
             /\ CountOf(batch, s, Len(batch)) \in Nat
  <2>1. CountOf(batch, s, Len(batch)) \in Nat
    BY <1>1, CountOfBounds
  <2> QED BY <2>1, NewEventsType
<1>3. ASSUME NEW s \in Streams
      PROVE  /\ chain'[s] = chain[s] \o new(s) /\ chain'[s] \in Seq(Events)
             /\ Len(chain'[s]) = Len(chain[s]) + CountOf(batch, s, Len(batch))
             /\ Len(chain'[s]) <= MaxRows[s]
             /\ chain[s] \in Seq(Events) /\ Len(chain[s]) \in Nat
             /\ \A n \in 0 .. Len(chain[s]) : SubSeq(chain'[s], 1, n) = SubSeq(chain[s], 1, n)
  <2>1. chain'[s] = chain[s] \o new(s) /\ Len(chain'[s]) <= MaxRows[s]
    BY DEF Write
  <2>2. chain[s] \in Seq(Events)
    BY DEF TypeOK
  <2> HIDE DEF new
  <2>3. Len(chain[s]) \in Nat
    BY <2>2, LenProperties
  <2>4. chain[s] \o new(s) \in Seq(Events) /\ Len(chain[s] \o new(s)) = Len(chain[s]) + Len(new(s))
    BY <2>2, <1>2, ConcatProperties
  <2>5. ASSUME NEW n \in 0 .. Len(chain[s])
        PROVE  SubSeq(chain[s] \o new(s), 1, n) = SubSeq(chain[s], 1, n)
    BY <2>2, <1>2, <2>3, SubSeqOfConcat1
  <2> QED BY <2>1, <2>2, <2>3, <2>4, <2>5, <1>2
<1>4. chain' \in [Streams -> Seq(Events)]
  <2>1. chain' = [s \in Streams |-> chain[s] \o new(s)]
    BY DEF Write
  <2> QED BY <2>1, <1>3
<1>5. job'[d] = [Idle EXCEPT
          !.phase = "written",
          !.rows = [k \in DOMAIN batch |->
             LET s == batch[k] IN Row(chain', s, Len(chain[s]) + CountOf(batch, s, k))]]
  BY DEF Write, TypeOK
<1>6. ASSUME NEW k \in DOMAIN batch
      PROVE  LET s == batch[k]
                 n == Len(chain[s]) + CountOf(batch, s, k)
             IN  /\ s \in Streams /\ n \in 1 .. Len(chain'[s]) /\ n \in 1 .. MaxRows[s]
                 /\ RowOk(Row(chain', s, n))
  <2> DEFINE s == batch[k]
             n == Len(chain[s]) + CountOf(batch, s, k)
  <2>1. s \in Streams /\ k \in 0 .. Len(batch)
    BY <1>1, ElementOfSeq
  <2>2. /\ CountOf(batch, s, k) \in Nat /\ 1 <= CountOf(batch, s, k)
        /\ CountOf(batch, s, k) <= CountOf(batch, s, Len(batch))
    BY <1>1, <2>1, CountOfBounds
  <2>3. n \in 1 .. Len(chain'[s]) /\ n \in 1 .. MaxRows[s]
    <3>1. /\ Len(chain'[s]) = Len(chain[s]) + CountOf(batch, s, Len(batch))
          /\ Len(chain'[s]) <= MaxRows[s] /\ Len(chain[s]) \in Nat
          /\ CountOf(batch, s, Len(batch)) \in Nat /\ MaxRows[s] \in Nat
      BY <1>2, <1>3, <2>1, BoundsAssumption
    <3> HIDE DEF s
    <3> QED BY <2>2, <3>1, SMTT(20)
  <2>4. SubSeq(chain'[s], 1, n) \in Seq(Events)
    <3>1. chain'[s] \in Seq(Events)
      BY <1>3, <2>1
    <3> HIDE DEF n, s
    <3> QED BY <3>1, <2>3, HashType
  <2> HIDE DEF n
  <2> QED BY <2>1, <2>3, <2>4 DEF RowOk, Row, Hash, n
<1>7. /\ job'[d].phase = "written" /\ job'[d].day = 0
      /\ job'[d].rows = [k \in DOMAIN batch |->
             LET s == batch[k] IN Row(chain', s, Len(chain[s]) + CountOf(batch, s, k))]
  BY <1>5 DEF Idle
<1>8. ASSUME NEW k \in DOMAIN job'[d].rows
      PROVE  LET r == job'[d].rows[k]
             IN  RowOk(r) /\ r.seq <= Len(chain'[r.stream]) /\ r = Row(chain', r.stream, r.seq)
  <2> DEFINE s == batch[k]
             n == Len(chain[s]) + CountOf(batch, s, k)
  <2>1. k \in DOMAIN batch /\ job'[d].rows[k] = Row(chain', s, n)
    BY <1>7
  <2>2. s \in Streams /\ n \in 1 .. Len(chain'[s]) /\ RowOk(Row(chain', s, n))
    BY <1>6, <2>1
  <2>3. Row(chain', s, n).stream = s /\ Row(chain', s, n).seq = n
    BY DEF Row
  <2> HIDE DEF n, s
  <2> QED BY <2>1, <2>2, <2>3, <1>3
<1>9. ASSUME NEW s \in Streams PROVE Len(chain[s]) <= Len(chain'[s])
  <2>1. /\ Len(chain'[s]) = Len(chain[s]) + CountOf(batch, s, Len(batch))
        /\ Len(chain[s]) \in Nat /\ CountOf(batch, s, Len(batch)) \in Nat
    BY <1>2, <1>3
  <2> QED BY <2>1
<1>10. DOMAIN job'[d].rows \subseteq Nat
  <2>1. DOMAIN job'[d].rows = DOMAIN batch
    BY <1>7
  <2> QED BY <1>1, <2>1
<1> HIDE DEF new
<1> QED BY <1>3, <1>4, <1>7, <1>8, <1>9, <1>10

\* A step of one deliverer leaves the other jobs alone.
LEMMA OneJob ==
    ASSUME TypeOK, NEW d \in Deliverers, NEW j, job' = [job EXCEPT ![d] = j], today' = today
    PROVE  /\ job'[d] = j
           /\ \A e \in Deliverers \ {d} : job'[e] = job[e]
           /\ JobOk(j) => DOMAIN job' = Deliverers /\ (\A e \in Deliverers : JobOk(job[e]))'
BY DEF TypeOK, JobOk

\* What Continue makes of a typed job is typed.
LEMMA ContinueOk ==
    ASSUME TypeOK, NEW d \in Deliverers, NEW heads, NEW st,
           \A h \in heads : \E k \in DOMAIN job[d].rows : h = job[d].rows[k]
    PROVE  JobOk(Continue(job[d], heads, st))
<1> DEFINE c == Continue(job[d], heads, st)
<1>1. JobOk(job[d]) /\ today \in Nat
  BY DEF TypeOK
<1>2. DOMAIN job[d].rows \subseteq Nat /\ \A h \in heads : RowOk(h)
  BY <1>1 DEF JobOk
<1>3. \/ c = Idle
      \/ /\ c.phase = "publishing" /\ c.rows = job[d].rows /\ c.day = today
         /\ c.head \in heads /\ c.left \subseteq heads
  BY <1>2, ContinueKeeps
<1> HIDE DEF c
<1>4. JobOk(c)
  <2>1. CASE c = Idle
    BY <1>1, <2>1, IdleOk
  <2>2. CASE /\ c.phase = "publishing" /\ c.rows = job[d].rows /\ c.day = today
             /\ c.head \in heads /\ c.left \subseteq heads
    BY <1>1, <1>2, <2>2 DEF JobOk
  <2> QED BY <1>3, <2>1, <2>2
<1> QED BY <1>4 DEF c

\* Heads come from the rows of the delivery.
HeadsAreRows ==
    \A d \in Deliverers : job[d].phase = "publishing" =>
        \A h \in {job[d].head} \cup job[d].left : \E k \in DOMAIN job[d].rows : h = job[d].rows[k]

TypeInv == TypeOK /\ HeadsAreRows

LEMMA PublishedType ==
    ASSUME TypeOK, NEW d \in Deliverers, job[d].phase = "publishing"
    PROVE  Published(d) \in AnchorType /\ Published(d).day \in 0 .. today
<1>1. JobOk(job[d])
  BY DEF TypeOK
<1> QED BY <1>1 DEF JobOk, RowOk, Published, AnchorType

LEMMA LastPerStreamRows ==
    ASSUME NEW rows
    PROVE  \A h \in LastPerStream(rows) : \E k \in DOMAIN rows : h = rows[k]
BY DEF LastPerStream

\* What is left to publish comes from the rows of the delivery.
LEMMA LeftAreRows ==
    ASSUME HeadsAreRows, NEW d \in Deliverers, job[d].phase = "publishing"
    PROVE  \A h \in job[d].left : \E k \in DOMAIN job[d].rows : h = job[d].rows[k]
BY DEF HeadsAreRows

\* What comes of appends of which some are cut short.
LEMMA CutShortAdds ==
    ASSUME NEW ds, CutShort(ds)
    PROVE  /\ \E whole \in SUBSET ds : anchors' = anchors \cup {Published(d) : d \in whole}
           /\ file' = file \/ file' \in {"whole", "open", "unreadable"}
           /\ file # "whole" => file' # "whole"
BY DEF CutShort

\* What becomes of an event that comes back.
LEMMA RedeliverType ==
    ASSUME TypeOK, NEW d \in Deliverers, NEW s \in Streams, NEW e \in taken[s], Redeliver(d, s, e)
    PROVE  /\ chain' \in [Streams -> Seq(Events)] /\ chain'[s] \in Seq(Events)
           /\ RowOk(Row(chain', s, Len(chain'[s])))
<1>1. /\ chain[s] \in Seq(Events) /\ e \in Events /\ Len(chain[s]) \in Nat
      /\ MaxRows[s] \in Nat /\ Len(chain[s]) < MaxRows[s]
  BY BoundsAssumption, LenProperties DEF TypeOK, Redeliver
<1>2. chain'[s] = Append(chain[s], e) /\ \A r \in Streams \ {s} : chain'[r] = chain[r]
  BY DEF Redeliver, TypeOK
<1>3. chain'[s] \in Seq(Events) /\ Len(chain'[s]) = Len(chain[s]) + 1
  BY <1>1, <1>2, AppendProperties
<1>4. chain' \in [Streams -> Seq(Events)]
  BY <1>3 DEF Redeliver, TypeOK
<1>5. PICK n : n = Len(chain'[s])
  OBVIOUS
<1>6. n \in 1 .. MaxRows[s] /\ n \in Nat /\ n \in 0 .. Len(chain'[s])
  BY <1>1, <1>3, <1>5
<1>7. SubSeq(chain'[s], 1, n) \in Seq(Events)
  BY <1>3, <1>6, HashType
<1> QED BY <1>3, <1>4, <1>5, <1>6, <1>7 DEF RowOk, Row, Hash

LEMMA TypeStep == TypeInv /\ [Next]_vars => TypeInv'
<1> SUFFICES ASSUME TypeInv, [Next]_vars PROVE TypeInv'
  OBVIOUS
<1> USE DEF TypeInv
<1>1. ASSUME NEW d \in Deliverers, NEW j, job' = [job EXCEPT ![d] = j], today' = today, JobOk(j),
             j.phase = "publishing" =>
                \A h \in {j.head} \cup j.left : \E k \in DOMAIN j.rows : h = j.rows[k]
      PROVE  /\ DOMAIN job' = Deliverers /\ \A e \in Deliverers : JobOk(job[e])'
             /\ HeadsAreRows'
  <2>1. /\ job'[d] = j /\ \A e \in Deliverers \ {d} : job'[e] = job[e]
        /\ DOMAIN job' = Deliverers
    BY <1>1 DEF TypeOK
  <2>2. \A e \in Deliverers : JobOk(job[e])'
    BY <1>1, <2>1 DEF TypeOK, JobOk
  <2>3. HeadsAreRows'
    BY <1>1, <2>1 DEF HeadsAreRows
  <2> QED BY <2>1, <2>2, <2>3
<1>2. ASSUME NEW d \in Deliverers, NEW b \in Batches, Write(d, b) PROVE TypeInv'
  <2>1. /\ chain' \in [Streams -> Seq(Events)]
        /\ job'[d].phase = "written" /\ job'[d].day = 0
        /\ DOMAIN job'[d].rows \subseteq Nat
        /\ \A k \in DOMAIN job'[d].rows : RowOk(job'[d].rows[k])
    BY <1>2, WriteType
  <2>2. JobOk(job'[d])
    BY <2>1 DEF JobOk, TypeOK
  <2>3. job' = [job EXCEPT ![d] = job'[d]] /\ today' = today
    BY <1>2 DEF Write, TypeOK
  <2>4. /\ DOMAIN job' = Deliverers /\ \A e \in Deliverers : JobOk(job[e])'
        /\ HeadsAreRows'
    BY <1>1, <2>1, <2>2, <2>3
  <2> QED BY <1>2, <2>1, <2>4 DEF Write, TypeOK, counters, losses, published
<1>3. ASSUME NEW d \in Deliverers, NEW s \in Streams, NEW n \in 1 .. MaxRows[s], Replay(d, s, n)
      PROVE  TypeInv'
  <2> DEFINE j == [Idle EXCEPT !.phase = "written", !.rows = <<Row(chain, s, n)>>]
  <2>1. /\ j.phase = "written" /\ j.day = 0 /\ DOMAIN j.rows = {1}
        /\ j.rows[1] = Row(chain, s, n)
    BY DEF Idle
  <2>2. RowOk(Row(chain, s, n))
    <3>1. chain[s] \in Seq(Events) /\ n \in 0 .. Len(chain[s])
      BY <1>3 DEF Replay, TypeOK
    <3>2. SubSeq(chain[s], 1, n) \in Seq(Events)
      BY <3>1, HashType
    <3>3. MaxRows[s] \in Nat
      BY BoundsAssumption
    <3> QED BY <3>2, <3>3 DEF RowOk, Row, Hash
  <2>3. JobOk(j)
    BY <2>1, <2>2 DEF JobOk, TypeOK
  <2>4. job' = [job EXCEPT ![d] = j] /\ today' = today
    BY <1>3 DEF Replay
  <2>5. /\ DOMAIN job' = Deliverers /\ \A e \in Deliverers : JobOk(job[e])'
        /\ HeadsAreRows'
    BY <1>1, <2>1, <2>3, <2>4
  <2>6. /\ UNCHANGED <<chain, archived, gone, mode, today, delivered, state, anchors, file, check>>
        /\ UNCHANGED <<restores, taken, lost, redelivered>> /\ faults' = faults + 1
    BY <1>3 DEF Replay, Fault, database, published, losses
  <2> QED BY <2>5, <2>6 DEF TypeOK
<1>4. ASSUME NEW d \in Deliverers, Notify(d) PROVE TypeInv'
  <2> DEFINE rows == job[d].rows
             fresh == [k \in {i \in DOMAIN rows : IdOf(rows[i]) \notin Announced} |-> rows[k]]
             j == [Idle EXCEPT !.phase = "emitting", !.rows = fresh]
  <2>1. JobOk(job[d]) /\ today \in Nat /\ today' = today
    BY <1>4 DEF Notify, TypeOK
  <2>2. DOMAIN fresh \subseteq Nat /\ \A k \in DOMAIN fresh : RowOk(fresh[k])
    BY <2>1 DEF JobOk
  <2>3. j.phase = "emitting" /\ j.rows = fresh /\ j.day = 0
    BY DEF Idle
  <2>4. JobOk(j)
    BY <2>1, <2>2, <2>3 DEF JobOk
  <2>5. CASE job' = [job EXCEPT ![d] = Idle] /\ UNCHANGED delivered
    <3>1. /\ DOMAIN job' = Deliverers /\ \A e \in Deliverers : JobOk(job[e])'
          /\ HeadsAreRows'
      BY <1>1, <2>1, <2>5, IdleOk DEF Idle
    <3> QED BY <1>4, <2>5, <3>1 DEF Notify, TypeOK, database, published, counters, losses
  <2>6. CASE /\ delivered' = delivered \cup {[row |-> fresh[k], day |-> today] : k \in DOMAIN fresh}
             /\ job' = [job EXCEPT ![d] = j]
    <3>1. /\ DOMAIN job' = Deliverers /\ \A e \in Deliverers : JobOk(job[e])'
          /\ HeadsAreRows'
      BY <1>1, <2>1, <2>3, <2>4, <2>6
    <3>2. \A x \in delivered' : RowOk(x.row) /\ x.day \in 0 .. today
      <4>1. SUFFICES ASSUME NEW x \in delivered' PROVE RowOk(x.row) /\ x.day \in 0 .. today
        OBVIOUS
      <4>2. CASE x \in delivered
        BY <4>2 DEF TypeOK
      <4>3. CASE \E k \in DOMAIN fresh : x = [row |-> fresh[k], day |-> today]
        BY <2>1, <2>2, <4>3
      <4> QED BY <2>6, <4>1, <4>2, <4>3
    <3> QED BY <1>4, <3>1, <3>2 DEF Notify, TypeOK, database, published, counters, losses
  <2> QED BY <1>4, <2>5, <2>6 DEF Notify
<1>5. ASSUME NEW d \in Deliverers, Emitted(d) PROVE TypeInv'
  <2> DEFINE heads == LastPerStream(job[d].rows)
             j == Continue(job[d], heads, state)
  <2>1. \A h \in heads : \E k \in DOMAIN job[d].rows : h = job[d].rows[k]
    BY LastPerStreamRows
  <2>2. DOMAIN job[d].rows \subseteq Nat
    BY DEF TypeOK, JobOk
  <2> HIDE DEF heads
  <2>3. JobOk(j)
    BY <2>1, ContinueOk
  <2>4. \/ j = Idle
        \/ j.rows = job[d].rows /\ j.head \in heads /\ j.left \subseteq heads
    BY <2>1, <2>2, ContinueKeeps
  <2>5. job' = [job EXCEPT ![d] = j] /\ today' = today
    BY <1>5 DEF Emitted, heads
  <2> HIDE DEF j
  <2>6. j.phase = "publishing" =>
           \A h \in {j.head} \cup j.left : \E k \in DOMAIN j.rows : h = j.rows[k]
    BY <2>1, <2>4 DEF Idle
  <2>7. /\ DOMAIN job' = Deliverers /\ \A e \in Deliverers : JobOk(job[e])'
        /\ HeadsAreRows'
    BY <1>1, <2>3, <2>5, <2>6
  <2> QED BY <1>5, <2>7 DEF Emitted, TypeOK, database, published, counters, losses
<1>6. ASSUME NEW d \in Deliverers, PublishResolves(d) PROVE TypeInv'
  <2> DEFINE anchor == Published(d)
             st == [state EXCEPT ![anchor.stream] = [seq |-> anchor.seq, day |-> anchor.day]]
             j == Continue(job[d], job[d].left, st)
  <2>1. \A h \in job[d].left : \E k \in DOMAIN job[d].rows : h = job[d].rows[k]
    BY <1>6, LeftAreRows DEF PublishResolves
  <2>2. DOMAIN job[d].rows \subseteq Nat
    BY DEF TypeOK, JobOk
  <2>3. anchor \in AnchorType
    BY <1>6, PublishedType DEF PublishResolves
  <2> HIDE DEF anchor
  <2>4. st \in [Streams -> {NotAnchored} \cup [seq : Nat, day : Nat]]
    BY <2>3 DEF TypeOK, AnchorType
  <2>5. /\ job' = [job EXCEPT ![d] = j] /\ today' = today /\ state' = st
        /\ anchors' = anchors \cup {anchor}
    BY <1>6 DEF PublishResolves, anchor
  <2> HIDE DEF st
  <2>6. JobOk(j)
    BY <2>1, ContinueOk
  <2>7. \/ j = Idle
        \/ j.rows = job[d].rows /\ j.head \in job[d].left /\ j.left \subseteq job[d].left
    BY <2>1, <2>2, ContinueKeeps
  <2> HIDE DEF j
  <2>8. j.phase = "publishing" =>
           \A h \in {j.head} \cup j.left : \E k \in DOMAIN j.rows : h = j.rows[k]
    BY <2>1, <2>7 DEF Idle
  <2>9. /\ DOMAIN job' = Deliverers /\ \A e \in Deliverers : JobOk(job[e])'
        /\ HeadsAreRows'
    BY <1>1, <2>5, <2>6, <2>8
  <2> QED BY <1>6, <2>3, <2>4, <2>5, <2>9 DEF PublishResolves, Appended, TypeOK, database, counters, losses
<1>7. ASSUME NEW d \in Deliverers, PublishRejects(d) PROVE TypeInv'
  <2>1. anchors' \subseteq AnchorType /\ file' \in {"whole", "open", "unreadable"}
    <3>1. PICK whole \in SUBSET {d} : anchors' = anchors \cup {Published(e) : e \in whole}
      BY <1>7, CutShortAdds DEF PublishRejects
    <3>2. Published(d) \in AnchorType
      BY <1>7, PublishedType DEF PublishRejects
    <3>3. file' \in {"whole", "open", "unreadable"}
      BY <1>7, CutShortAdds DEF PublishRejects, TypeOK
    <3> QED BY <3>1, <3>2, <3>3 DEF TypeOK
  <2>2. job' = [job EXCEPT ![d] = Idle] /\ today' = today /\ JobOk(Idle)
    BY <1>7, IdleOk DEF PublishRejects, TypeOK
  <2>3. /\ DOMAIN job' = Deliverers /\ \A e \in Deliverers : JobOk(job[e])'
        /\ HeadsAreRows'
    BY <1>1, <2>2 DEF Idle
  <2> QED BY <1>7, <2>1, <2>3 DEF PublishRejects, Fault, TypeOK, database, losses
<1>8. ASSUME Midnight PROVE TypeInv'
  BY <1>8 DEF Midnight, TypeOK, JobOk, HeadsAreRows, database, process, published, counters, losses
<1>9. ASSUME Restart PROVE TypeInv'
  <2>1. PICK whole \in SUBSET {d \in Deliverers : job[d].phase = "publishing"} :
           anchors' = anchors \cup {Published(d) : d \in whole}
    BY CutShortAdds, <1>9 DEF Restart
  <2>2. anchors' \subseteq AnchorType /\ file' \in {"whole", "open", "unreadable"}
    <3>1. anchors' \subseteq AnchorType
      BY <2>1, PublishedType DEF TypeOK
    <3>2. file' \in {"whole", "open", "unreadable"}
      BY <1>9, CutShortAdds DEF Restart, TypeOK
    <3> QED BY <3>1, <3>2
  <2>3. JobOk(Idle)' /\ Idle' = Idle
    BY <1>9, IdleOk DEF Restart, TypeOK, JobOk
  <2>4. job' = [d \in Deliverers |-> Idle] /\ HeadsAreRows'
    BY <1>9 DEF Restart, HeadsAreRows, Idle
  <2>5. state' \in [Streams -> {NotAnchored} \cup [seq : Nat, day : Nat]]
    BY <1>9 DEF Restart
  <2> QED BY <1>9, <2>2, <2>3, <2>4, <2>5 DEF Restart, Fault, TypeOK, database, losses
<1>10. ASSUME NEW s \in Streams, Archive(s) \/ Delete(s) PROVE TypeInv'
  <2>1. archived' \in [Streams -> Nat] /\ gone' \in [Streams -> Nat]
    <3>1. CASE Archive(s)
      <4>1. PICK n \in archived[s] + 1 .. Len(chain[s]) - 1 : archived' = [archived EXCEPT ![s] = n]
        BY <3>1 DEF Archive
      <4>2. n \in Nat
        BY LenProperties DEF TypeOK
      <4> QED BY <3>1, <4>1, <4>2 DEF Archive, TypeOK
    <3>2. CASE Delete(s)
      BY <3>2 DEF Delete, TypeOK
    <3> QED BY <1>10, <3>1, <3>2
  <2>2. UNCHANGED <<chain, mode, today, process, published, check, counters>>
    BY <1>10 DEF Archive, Delete
  <2> QED BY <2>1, <2>2 DEF TypeOK, JobOk, HeadsAreRows, process, published, counters, losses
<1>11. ASSUME NEW s \in Streams, Restore(s) PROVE TypeInv'
  <2>1. PICK n \in 0 .. Len(chain[s]) - 1 : chain' = [chain EXCEPT ![s] = SubSeq(@, 1, n)]
    BY <1>11 DEF Restore
  <2>2. chain[s] \in Seq(Events) /\ n \in 0 .. Len(chain[s])
    BY LenProperties DEF TypeOK
  <2>3. SubSeq(chain[s], 1, n) \in Seq(Events)
    BY <2>2, HashType
  <2>4. chain' \in [Streams -> Seq(Events)]
    BY <2>1, <2>3 DEF TypeOK
  <2>5. taken' \in [Streams -> SUBSET Events]
    <3>1. \A k \in 1 .. Len(chain[s]) : chain[s][k] \in Events
      BY <2>2, ElementOfSeq
    <3>2. PICK m \in 0 .. Len(chain[s]) - 1 :
             taken' = [taken EXCEPT ![s] = @ \cup {chain[s][k] : k \in m + 1 .. Len(chain[s])}]
      BY <1>11 DEF Restore
    <3>3. Len(chain[s]) \in Nat
      BY <2>2, LenProperties
    <3>4. m + 1 .. Len(chain[s]) \subseteq 1 .. Len(chain[s])
      BY <3>2, <3>3
    <3>5. {chain[s][k] : k \in m + 1 .. Len(chain[s])} \subseteq Events
      BY <3>1, <3>4
    <3> QED BY <3>2, <3>5 DEF TypeOK
  <2> QED BY <1>11, <2>4, <2>5 DEF Restore, TypeOK, JobOk, HeadsAreRows, process, published
<1>12. ASSUME NEW s \in Streams, StartCheck(s) PROVE TypeInv'
  BY <1>12 DEF StartCheck, TypeOK, JobOk, HeadsAreRows, process, database, published, counters, losses
<1>13. ASSUME LookIntoAudits \/ LookIntoArchive PROVE TypeInv'
  <2>1. /\ check'.phase \in {"idle", "audits", "archive"} /\ check'.stream \in Streams
        /\ check'.verdict \in {"none", "passed", "mismatch", "unavailable"}
        /\ check'.lost = check.lost
    BY <1>13 DEF LookIntoAudits, LookIntoArchive, Compared, Ends, CheckAt, TypeOK
  <2>2. UNCHANGED <<database, mode, today, process, published, counters>>
    BY <1>13 DEF LookIntoAudits, LookIntoArchive
  <2> QED BY <2>1, <2>2 DEF TypeOK, JobOk, HeadsAreRows, process, database, published, counters, losses
<1>14. CASE UNCHANGED vars
  BY <1>14 DEF vars, TypeOK, JobOk, HeadsAreRows, process, database, published, counters, losses
<1>15. ASSUME NEW d \in Deliverers, NEW s \in Streams, NEW e \in taken[s], Redeliver(d, s, e)
      PROVE  TypeInv'
  <2> DEFINE j == [Idle EXCEPT !.phase = "written", !.rows = <<Row(chain', s, Len(chain'[s]))>>]
  <2>1. /\ j.phase = "written" /\ j.day = 0 /\ DOMAIN j.rows = {1}
        /\ j.rows[1] = Row(chain', s, Len(chain'[s]))
    BY DEF Idle
  <2>2. /\ chain' \in [Streams -> Seq(Events)] /\ chain'[s] \in Seq(Events)
        /\ RowOk(Row(chain', s, Len(chain'[s])))
    BY <1>15, RedeliverType
  <2>3. JobOk(j)
    BY <2>1, <2>2 DEF JobOk, TypeOK
  <2>4. job' = [job EXCEPT ![d] = j] /\ today' = today
    BY <1>15 DEF Redeliver
  <2>5. /\ DOMAIN job' = Deliverers /\ \A f \in Deliverers : JobOk(job[f])'
        /\ HeadsAreRows'
    BY <1>1, <2>1, <2>3, <2>4
  <2>6. /\ UNCHANGED <<archived, gone, mode, today, delivered, state, anchors, file, check>>
        /\ UNCHANGED <<restores, taken, lost>> /\ faults' = faults + 1 /\ redelivered' = TRUE
    BY <1>15 DEF Redeliver, Fault, published, losses
  <2> QED BY <2>2, <2>5, <2>6 DEF TypeOK
<1> QED
  BY <1>2, <1>3, <1>4, <1>5, <1>6, <1>7, <1>8, <1>9, <1>10, <1>11, <1>12, <1>13, <1>14, <1>15 DEF Next

\* The variables have the values that the code gives them.
THEOREM TypeCorrect == Spec => []TypeOK
<1>1. Init => TypeInv
  BY TypeInit DEF Init, TypeInv, HeadsAreRows, Idle
<1>2. TypeInv /\ [Next]_vars => TypeInv'
  BY TypeStep
<1> QED BY <1>1, <1>2, PTL DEF Spec, TypeInv

-----------------------------------------------------------------------------
(* What was delivered is anchored.  DeliveredIsAnchored is not inductive: what a deliverer *)
(* still works on must be covered, or on its way to a head that covers it (HeadsPending),  *)
(* and a head that is passed over is covered because the state of the service never says   *)
(* more than the anchors do (StateIsAnchored).                                             *)

StateBackedBy(st, as) ==
    \A s \in Streams : st[s] # NotAnchored =>
        \E a \in as : a.stream = s /\ a.seq = st[s].seq /\ a.day = st[s].day

StateIsAnchored == StateBackedBy(state, anchors)

\* A head that covers a row once it is anchored.
Leads(h, x) == h.stream = x.row.stream /\ x.row.seq <= h.seq

\* The rows under which events were announced.
AnnouncedRows == {x.row : x \in delivered}

WorkIsAnnounced == \A d \in Deliverers : Working(d) \subseteq AnnouncedRows

WorkIsOfItsDay ==
    \A d \in Deliverers, x \in delivered :
        job[d].phase = "publishing" /\ x.row \in Working(d) => x.day <= job[d].day

HeadsPending ==
    \A d \in Deliverers, x \in delivered :
        job[d].phase = "publishing" /\ x.row \in Working(d) =>
            \/ \E a \in anchors : Covers(a, x)
            \/ \E h \in {job[d].head} \cup job[d].left : Leads(h, x)

AnchorInv == /\ StateIsAnchored /\ WorkIsAnnounced /\ WorkIsOfItsDay /\ HeadsPending
             /\ DeliveredIsAnchored

\* A head that needs no anchor is covered by the anchor behind the state.
LEMMA NotDueIsCovered ==
    ASSUME TypeOK, NEW st, st \in [Streams -> {NotAnchored} \cup [seq : Nat, day : Nat]],
           NEW as, as \subseteq AnchorType, StateBackedBy(st, as),
           NEW x \in delivered, NEW h, RowOk(h), Leads(h, x), ~ShouldAnchor(st, h)
    PROVE  \E a \in as : Covers(a, x)
<1>1. RowOk(x.row) /\ x.day \in 0 .. today /\ today \in Nat /\ mode \in {"count", "daily"}
  BY EveryAssumption DEF TypeOK
<1>2. h.stream \in Streams /\ st[h.stream] # NotAnchored
  BY DEF ShouldAnchor, RowOk
<1>3. PICK a \in as : a.stream = h.stream /\ a.seq = st[h.stream].seq /\ a.day = st[h.stream].day
  BY <1>2 DEF StateBackedBy
<1>4. a.seq \in Nat /\ h.seq \in Nat /\ x.row.seq \in Nat /\ x.row.seq <= h.seq
  BY <1>1, <1>3 DEF AnchorType, RowOk, Leads
<1>5. CASE mode = "count"
  <2>1. Bucket(x.row.seq) \in Nat /\ Bucket(x.row.seq) <= Bucket(h.seq)
    BY <1>4, BucketMonotone
  <2>2. Bucket(h.seq) \in Nat /\ Bucket(a.seq) \in Nat
    BY <1>4, BucketMonotone
  <2>3. ~(Bucket(a.seq) < Bucket(h.seq))
    BY <1>3, <1>5 DEF ShouldAnchor
  <2>4. Bucket(a.seq) >= Bucket(x.row.seq)
    BY <2>1, <2>2, <2>3
  <2> QED BY <1>3, <1>5, <2>4 DEF Covers, Leads
<1>6. CASE mode = "daily"
  <2>1. a.day = today
    BY <1>3, <1>6 DEF ShouldAnchor
  <2>2. a.day >= x.day /\ a.stream = x.row.stream
    BY <1>1, <1>3, <2>1 DEF Leads
  <2> QED BY <1>6, <2>2 DEF Covers
<1> QED BY <1>1, <1>5, <1>6

\* The anchor of a head covers the rows that it leads.
LEMMA PublishedCovers ==
    ASSUME TypeOK, NEW d \in Deliverers, job[d].phase = "publishing",
           NEW x \in delivered, Leads(job[d].head, x), x.day <= job[d].day
    PROVE  Covers(Published(d), x)
<1>1. RowOk(x.row) /\ x.day \in 0 .. today /\ mode \in {"count", "daily"} /\ RowOk(job[d].head)
  BY EveryAssumption DEF TypeOK, JobOk
<1>2. /\ Published(d).stream = job[d].head.stream /\ Published(d).seq = job[d].head.seq
      /\ Published(d).day = job[d].day
  BY DEF Published
<1>3. Bucket(x.row.seq) <= Bucket(job[d].head.seq)
  <2>1. x.row.seq \in Nat /\ job[d].head.seq \in Nat /\ x.row.seq <= job[d].head.seq
    BY <1>1 DEF RowOk, Leads
  <2> QED BY <2>1, BucketMonotone
<1>4. Bucket(x.row.seq) \in Nat /\ Bucket(job[d].head.seq) \in Nat
  <2>1. x.row.seq \in Nat /\ job[d].head.seq \in Nat
    BY <1>1 DEF RowOk
  <2> QED BY <2>1, BucketMonotone
<1>5. job[d].day \in Nat
  BY DEF TypeOK, JobOk
<1> QED BY <1>1, <1>2, <1>3, <1>4, <1>5 DEF Covers, Leads

\* After Continue, the rows of the delivery are covered or have a head that waits.
LEMMA ContinueCovers ==
    ASSUME TypeOK, NEW d \in Deliverers, NEW heads,
           \A h \in heads : \E k \in DOMAIN job[d].rows : h = job[d].rows[k],
           NEW st, st \in [Streams -> {NotAnchored} \cup [seq : Nat, day : Nat]],
           NEW as, as \subseteq AnchorType, StateBackedBy(st, as),
           NEW x \in delivered,
           (\E a \in as : Covers(a, x)) \/ (\E h \in heads : Leads(h, x))
    PROVE  LET j == Continue(job[d], heads, st)
           IN  \/ \E a \in as : Covers(a, x)
               \/ j.phase = "publishing" /\ \E h \in {j.head} \cup j.left : Leads(h, x)
<1> DEFINE j == Continue(job[d], heads, st)
<1>1. DOMAIN job[d].rows \subseteq Nat /\ \A h \in heads : RowOk(h)
  BY DEF TypeOK, JobOk
<1>2. \A h \in heads : ShouldAnchor(st, h) => j.phase = "publishing" /\ h \in {j.head} \cup j.left
  BY <1>1, ContinueKeeps
<1> HIDE DEF j
<1>3. SUFFICES ASSUME NEW h \in heads, Leads(h, x)
               PROVE  \/ \E a \in as : Covers(a, x)
                      \/ j.phase = "publishing" /\ \E g \in {j.head} \cup j.left : Leads(g, x)
  BY DEF j
<1>4. CASE ShouldAnchor(st, h)
  BY <1>2, <1>3, <1>4
<1>5. CASE ~ShouldAnchor(st, h)
  BY <1>1, <1>3, <1>5, NotDueIsCovered
<1> QED BY <1>4, <1>5

LEMMA AnchorInit == Init => AnchorInv
BY DEF Init, AnchorInv, StateIsAnchored, StateBackedBy, WorkIsAnnounced, WorkIsOfItsDay, HeadsPending,
       DeliveredIsAnchored, Working, Done, Idle

\* A step that leaves the notifier and the service alone.
LEMMA AnchorFrame ==
    ASSUME AnchorInv, UNCHANGED <<process, anchors, mode>>
    PROVE  AnchorInv'
<1>1. /\ delivered' = delivered /\ state' = state /\ job' = job /\ missed' = missed
      /\ anchors' = anchors /\ mode' = mode
  BY DEF process
<1>2. \A d \in Deliverers : Working(d)' = Working(d)
  BY <1>1 DEF Working
<1>3. \A a, x : Covers(a, x)' <=> Covers(a, x)
  BY <1>1 DEF Covers
<1>4. StateIsAnchored' /\ WorkIsAnnounced' /\ WorkIsOfItsDay'
  BY <1>1, <1>2 DEF AnchorInv, StateIsAnchored, StateBackedBy, WorkIsAnnounced, WorkIsOfItsDay, AnnouncedRows
<1>5. HeadsPending'
  BY <1>1, <1>2, <1>3 DEF AnchorInv, HeadsPending, Leads
<1>6. DeliveredIsAnchored'
  BY <1>1, <1>2, <1>3 DEF AnchorInv, DeliveredIsAnchored, Done
<1> QED BY <1>4, <1>5, <1>6 DEF AnchorInv

\* A deliverer that goes on in onFlush(), with the anchors and the state it has got.
LEMMA AnchorContinue ==
    ASSUME TypeOK, AnchorInv, NEW d \in Deliverers, job[d].phase \in {"emitting", "publishing"},
           NEW heads, \A h \in heads : \E k \in DOMAIN job[d].rows : h = job[d].rows[k],
           job' = [job EXCEPT ![d] = Continue(job[d], heads, state')],
           state' \in [Streams -> {NotAnchored} \cup [seq : Nat, day : Nat]],
           anchors \subseteq anchors', anchors' \subseteq AnchorType, StateIsAnchored',
           UNCHANGED <<delivered, missed, mode, today>>,
           \A x \in delivered : x.row \in Working(d) =>
              (\E a \in anchors' : Covers(a, x)) \/ (\E h \in heads : Leads(h, x))
    PROVE  AnchorInv'
<1> DEFINE j == Continue(job[d], heads, state')
<1>1. DOMAIN job[d].rows \subseteq Nat
  BY DEF TypeOK, JobOk
<1>2. \/ j = Idle
      \/ j.phase = "publishing" /\ j.rows = job[d].rows /\ j.day = today
  BY <1>1, ContinueKeeps
<1>3. \A x \in delivered : x.row \in Working(d) =>
         \/ \E a \in anchors' : Covers(a, x)
         \/ j.phase = "publishing" /\ \E h \in {j.head} \cup j.left : Leads(h, x)
  <2>1. StateBackedBy(state', anchors')
    BY DEF StateIsAnchored
  <2> HIDE DEF j
  <2>2. SUFFICES ASSUME NEW x \in delivered, x.row \in Working(d)
                 PROVE  \/ \E a \in anchors' : Covers(a, x)
                        \/ j.phase = "publishing" /\ \E h \in {j.head} \cup j.left : Leads(h, x)
    OBVIOUS
  <2> QED BY <2>1, <2>2, ContinueCovers DEF j
<1> HIDE DEF j
<1>4. job'[d] = j /\ \A e \in Deliverers \ {d} : job'[e] = job[e]
  BY DEF TypeOK, j
<1>5. /\ Working(d)' = IF j = Idle THEN {} ELSE Working(d)
      /\ \A e \in Deliverers \ {d} : Working(e)' = Working(e)
  <2>1. ASSUME NEW e \in Deliverers \ {d} PROVE Working(e)' = Working(e)
    BY <1>4 DEF Working
  <2>2. CASE j = Idle
    BY <1>4, <2>1, <2>2 DEF Working, Idle
  <2>3. CASE j.phase = "publishing" /\ j.rows = job[d].rows
    <3>1. Working(d)' = {j.rows[k] : k \in DOMAIN j.rows} /\ j # Idle
      BY <1>4, <2>3 DEF Working, Idle
    <3>2. Working(d) = {job[d].rows[k] : k \in DOMAIN job[d].rows}
      BY DEF Working
    <3> QED BY <2>1, <2>3, <3>1, <3>2
  <2> QED BY <1>2, <2>2, <2>3
<1>6. \A a \in anchors', x \in delivered : Covers(a, x)' <=> Covers(a, x)
  BY DEF Covers
<1>7. WorkIsAnnounced'
  BY <1>5 DEF AnchorInv, WorkIsAnnounced, AnnouncedRows
<1>8. WorkIsOfItsDay'
  <2>1. SUFFICES ASSUME NEW e \in Deliverers, NEW x \in delivered,
                        job'[e].phase = "publishing", x.row \in Working(e)'
                 PROVE  x.day <= job'[e].day
    BY DEF WorkIsOfItsDay
  <2>2. CASE e = d
    <3>1. j.phase = "publishing" /\ j.day = today
      BY <1>2, <1>4, <2>1, <2>2 DEF Idle
    <3>2. x.day \in 0 .. today /\ today \in Nat
      BY DEF TypeOK
    <3> QED BY <1>4, <2>2, <3>1, <3>2
  <2>3. CASE e # d
    BY <1>4, <1>5, <2>1, <2>3 DEF AnchorInv, WorkIsOfItsDay
  <2> QED BY <2>2, <2>3
<1>9. HeadsPending'
  <2>1. SUFFICES ASSUME NEW e \in Deliverers, NEW x \in delivered,
                        job'[e].phase = "publishing", x.row \in Working(e)'
                 PROVE  \/ \E a \in anchors' : Covers(a, x)
                        \/ \E h \in {job'[e].head} \cup job'[e].left : Leads(h, x)
    BY <1>6 DEF HeadsPending, Leads
  <2>2. CASE e = d
    <3>1. x.row \in Working(d)
      BY <1>5, <2>1, <2>2
    <3> QED BY <1>3, <1>4, <2>2, <3>1
  <2>3. CASE e # d
    BY <1>4, <1>5, <2>1, <2>3 DEF AnchorInv, HeadsPending
  <2> QED BY <2>2, <2>3
<1>10. DeliveredIsAnchored'
  <2>1. SUFFICES ASSUME NEW x \in delivered, x.row \notin missed,
                        \A e \in Deliverers : x.row \notin Working(e)'
                 PROVE  \E a \in anchors' : Covers(a, x)
    BY <1>6 DEF DeliveredIsAnchored, Done
  <2>2. CASE x.row \in Working(d)
    <3>1. j = Idle
      BY <1>5, <2>1, <2>2
    <3> QED BY <1>3, <2>2, <3>1 DEF Idle
  <2>3. CASE x.row \notin Working(d)
    <3>1. \A e \in Deliverers : x.row \notin Working(e)
      BY <1>5, <2>1, <2>3
    <3>2. x \in Done
      BY <2>1, <3>1 DEF Done
    <3> QED BY <3>2 DEF AnchorInv, DeliveredIsAnchored
  <2> QED BY <2>2, <2>3
<1> QED BY <1>7, <1>8, <1>9, <1>10 DEF AnchorInv

LEMMA AnchorStep == TypeInv /\ AnchorInv /\ [Next]_vars => AnchorInv'
<1> SUFFICES ASSUME TypeInv, AnchorInv, [Next]_vars PROVE AnchorInv'
  OBVIOUS
<1>1. TypeOK /\ HeadsAreRows /\ TypeOK'
  BY TypeStep DEF TypeInv
<1>2. ASSUME NEW d \in Deliverers, job[d].phase \in {"idle", "written"},
             job'[d].phase \in {"idle", "written"},
             \A e \in Deliverers \ {d} : job'[e] = job[e],
             UNCHANGED <<delivered, state, missed, anchors, mode>>
      PROVE  AnchorInv'
  <2>1. \A e \in Deliverers : Working(e)' = Working(e)
    BY <1>2 DEF Working
  <2>2. \A a, x : Covers(a, x)' <=> Covers(a, x)
    BY <1>2 DEF Covers
  <2>3. StateIsAnchored' /\ WorkIsAnnounced' /\ WorkIsOfItsDay'
    BY <1>2, <2>1 DEF AnchorInv, StateIsAnchored, StateBackedBy, WorkIsAnnounced, WorkIsOfItsDay,
                      AnnouncedRows
  <2>4. HeadsPending'
    BY <1>2, <2>1, <2>2 DEF AnchorInv, HeadsPending, Leads
  <2>5. DeliveredIsAnchored'
    BY <1>2, <2>1, <2>2 DEF AnchorInv, DeliveredIsAnchored, Done
  <2> QED BY <2>3, <2>4, <2>5 DEF AnchorInv
<1>3. ASSUME NEW d \in Deliverers, NEW b \in Batches, Write(d, b) PROVE AnchorInv'
  <2>1. job'[d].phase = "written" /\ \A e \in Deliverers \ {d} : job'[e] = job[e]
    BY <1>1, <1>3 DEF Write, TypeOK, Idle
  <2> QED BY <1>2, <1>3, <2>1 DEF Write, published
<1>4. ASSUME NEW d \in Deliverers, NEW s \in Streams, NEW n \in 1 .. MaxRows[s], Replay(d, s, n)
      PROVE  AnchorInv'
  <2>1. job'[d].phase = "written" /\ \A e \in Deliverers \ {d} : job'[e] = job[e]
    BY <1>1, <1>4 DEF Replay, TypeOK, Idle
  <2> QED BY <1>2, <1>4, <2>1 DEF Replay, published
<1>5. ASSUME NEW d \in Deliverers, Notify(d) PROVE AnchorInv'
  <2> DEFINE rows == job[d].rows
             fresh == [k \in {i \in DOMAIN rows : IdOf(rows[i]) \notin Announced} |-> rows[k]]
             news == {[row |-> fresh[k], day |-> today] : k \in DOMAIN fresh}
  <2>1. CASE job' = [job EXCEPT ![d] = Idle] /\ UNCHANGED delivered
    <3>1. job'[d].phase = "idle" /\ \A e \in Deliverers \ {d} : job'[e] = job[e]
      BY <1>1, <2>1 DEF TypeOK, Idle
    <3> QED BY <1>2, <1>5, <2>1, <3>1 DEF Notify, published
  <2>2. CASE /\ delivered' = delivered \cup news
             /\ job' = [job EXCEPT ![d] = [Idle EXCEPT !.phase = "emitting", !.rows = fresh]]
    <3>1. /\ job'[d].phase = "emitting" /\ job'[d].rows = fresh
          /\ \A e \in Deliverers \ {d} : job'[e] = job[e]
      BY <1>1, <2>2 DEF TypeOK, Idle
    <3>2. Working(d)' = {fresh[k] : k \in DOMAIN fresh}
      BY <3>1 DEF Working
    <3>3. \A e \in Deliverers \ {d} : Working(e)' = Working(e)
      BY <3>1 DEF Working
    <3>4. \A x \in news : x.row \notin AnnouncedRows /\ x.row \in Working(d)'
      <4>1. \A k \in DOMAIN fresh : fresh[k] \notin AnnouncedRows
        <5>1. \A r : IdOf(r) \notin Announced => r \notin AnnouncedRows
          BY DEF Announced, AnnouncedRows
        <5> QED BY <5>1
      <4> HIDE DEF fresh
      <4>2. SUFFICES ASSUME NEW k \in DOMAIN fresh
                     PROVE  fresh[k] \notin AnnouncedRows /\ fresh[k] \in Working(d)'
        OBVIOUS
      <4> QED BY <3>2, <4>1, <4>2
    <3>5. UNCHANGED <<state, missed, anchors, mode, today>>
      BY <1>5 DEF Notify, published
    <3>6. \A a, x : Covers(a, x)' <=> Covers(a, x)
      BY <3>5 DEF Covers
    <3> HIDE DEF fresh
    <3>7. StateIsAnchored'
      BY <3>5 DEF AnchorInv, StateIsAnchored, StateBackedBy
    <3>8. WorkIsAnnounced'
      <4>1. Working(d)' \subseteq AnnouncedRows'
        <5>1. SUFFICES ASSUME NEW k \in DOMAIN fresh PROVE fresh[k] \in AnnouncedRows'
          BY <3>2
        <5>2. [row |-> fresh[k], day |-> today] \in delivered'
          BY <2>2
        <5> QED BY <5>2 DEF AnnouncedRows
      <4>2. AnnouncedRows \subseteq AnnouncedRows'
        BY <2>2 DEF AnnouncedRows
      <4> QED BY <3>3, <4>1, <4>2 DEF AnchorInv, WorkIsAnnounced
    <3>9. ASSUME NEW e \in Deliverers, NEW x \in delivered',
                 job'[e].phase = "publishing", x.row \in Working(e)'
          PROVE  e # d /\ x \in delivered /\ x.row \in Working(e)
      <4>1. e # d /\ x.row \in Working(e)
        BY <3>1, <3>3, <3>9
      <4>2. x.row \in AnnouncedRows
        BY <4>1 DEF AnchorInv, WorkIsAnnounced
      <4> QED BY <2>2, <3>4, <3>9, <4>1, <4>2
    <3>10. WorkIsOfItsDay'
      BY <3>1, <3>9 DEF AnchorInv, WorkIsOfItsDay
    <3>11. HeadsPending'
      BY <3>1, <3>5, <3>6, <3>9 DEF AnchorInv, HeadsPending, Leads
    <3>12. DeliveredIsAnchored'
      <4>1. SUFFICES ASSUME NEW x \in delivered', x.row \notin missed,
                            \A e \in Deliverers : x.row \notin Working(e)'
                     PROVE  \E a \in anchors : Covers(a, x)
        BY <3>5, <3>6 DEF DeliveredIsAnchored, Done
      <4>2. x \in delivered
        BY <2>2, <3>4, <4>1
      <4>3. \A e \in Deliverers : x.row \notin Working(e)
        <5>1. Working(d) = {}
          BY <1>5 DEF Notify, Working
        <5> QED BY <3>3, <4>1, <5>1
      <4> QED BY <4>1, <4>2, <4>3 DEF AnchorInv, DeliveredIsAnchored, Done
    <3> QED BY <3>7, <3>8, <3>10, <3>11, <3>12 DEF AnchorInv
  <2> QED BY <1>5, <2>1, <2>2 DEF Notify
<1>6. ASSUME NEW d \in Deliverers, Emitted(d) PROVE AnchorInv'
  <2> DEFINE heads == LastPerStream(job[d].rows)
  <2>1. \A h \in heads : \E k \in DOMAIN job[d].rows : h = job[d].rows[k]
    BY LastPerStreamRows
  <2>2. \A x \in delivered : x.row \in Working(d) => \E h \in heads : Leads(h, x)
    <3>1. DOMAIN job[d].rows \subseteq Nat /\ \A k \in DOMAIN job[d].rows : RowOk(job[d].rows[k])
      BY <1>1 DEF TypeOK, JobOk
    <3>2. SUFFICES ASSUME NEW x \in delivered, NEW k \in DOMAIN job[d].rows, x.row = job[d].rows[k]
                   PROVE  \E h \in heads : Leads(h, x)
      BY DEF Working
    <3> QED BY <3>1, <3>2, RowHasHead DEF Leads
  <2>3. /\ job' = [job EXCEPT ![d] = Continue(job[d], heads, state')]
        /\ UNCHANGED <<delivered, state, anchors, missed, mode, today>>
        /\ job[d].phase = "emitting"
    BY <1>6 DEF Emitted, published
  <2>4. /\ state' \in [Streams -> {NotAnchored} \cup [seq : Nat, day : Nat]]
        /\ anchors' \subseteq AnchorType /\ StateIsAnchored'
    BY <1>1, <2>3 DEF TypeOK, AnchorInv, StateIsAnchored, StateBackedBy
  <2> HIDE DEF heads
  <2> QED BY <1>1, <2>1, <2>2, <2>3, <2>4, AnchorContinue
<1>7. ASSUME NEW d \in Deliverers, PublishResolves(d) PROVE AnchorInv'
  <2> DEFINE anchor == Published(d)
  <2>1. /\ job[d].phase = "publishing" /\ anchors' = anchors \cup {anchor}
        /\ state' = [state EXCEPT ![anchor.stream] = [seq |-> anchor.seq, day |-> anchor.day]]
        /\ job' = [job EXCEPT ![d] = Continue(job[d], job[d].left, state')]
        /\ UNCHANGED <<delivered, missed, mode, today>>
    BY <1>7 DEF PublishResolves
  <2>2. \A h \in job[d].left : \E k \in DOMAIN job[d].rows : h = job[d].rows[k]
    BY <1>1, <2>1, LeftAreRows
  <2>3. anchor \in AnchorType
    BY <1>1, <2>1, PublishedType
  <2>4. ASSUME NEW x \in delivered, x.row \in Working(d)
        PROVE  (\E a \in anchors' : Covers(a, x)) \/ (\E h \in job[d].left : Leads(h, x))
    <3>1. x.day <= job[d].day
      BY <2>1, <2>4 DEF AnchorInv, WorkIsOfItsDay
    <3>2. Leads(job[d].head, x) => Covers(anchor, x)
      BY <1>1, <2>1, <3>1, PublishedCovers
    <3>3. (\E a \in anchors : Covers(a, x)) \/ (\E h \in {job[d].head} \cup job[d].left : Leads(h, x))
      BY <2>1, <2>4 DEF AnchorInv, HeadsPending
    <3> QED BY <2>1, <3>2, <3>3
  <2> HIDE DEF anchor
  <2>5. state' \in [Streams -> {NotAnchored} \cup [seq : Nat, day : Nat]] /\ anchors' \subseteq AnchorType
    BY <1>1 DEF TypeOK
  <2>6. StateIsAnchored'
    <3>1. SUFFICES ASSUME NEW s \in Streams, state'[s] # NotAnchored
                   PROVE  \E a \in anchors' : a.stream = s /\ a.seq = state'[s].seq
                                             /\ a.day = state'[s].day
      BY DEF StateIsAnchored, StateBackedBy
    <3>2. CASE s = anchor.stream
      BY <1>1, <2>1, <3>2 DEF TypeOK
    <3>3. CASE s # anchor.stream
      <4>1. state'[s] = state[s]
        BY <1>1, <2>1, <3>3 DEF TypeOK
      <4> QED BY <2>1, <3>1, <4>1 DEF AnchorInv, StateIsAnchored, StateBackedBy
    <3> QED BY <3>2, <3>3
  <2>7. anchors \subseteq anchors'
    BY <2>1
  <2>8. AnchorInv'
    BY <1>1, <2>1, <2>2, <2>4, <2>5, <2>6, <2>7, AnchorContinue
  <2> QED BY <2>8
<1>8. ASSUME NEW d \in Deliverers, PublishRejects(d) PROVE AnchorInv'
  <2>1. /\ job'[d].phase = "idle" /\ \A e \in Deliverers \ {d} : job'[e] = job[e]
        /\ UNCHANGED <<delivered, state, mode>> /\ anchors \subseteq anchors'
        /\ missed' = missed \cup Working(d)
    BY <1>1, <1>8, CutShortAdds DEF PublishRejects, TypeOK, Idle, Working
  <2>2. Working(d)' = {} /\ \A e \in Deliverers \ {d} : Working(e)' = Working(e)
    BY <2>1 DEF Working
  <2>3. \A a, x : Covers(a, x)' <=> Covers(a, x)
    BY <2>1 DEF Covers
  <2>4. StateIsAnchored' /\ WorkIsAnnounced' /\ WorkIsOfItsDay'
    BY <2>1, <2>2 DEF AnchorInv, StateIsAnchored, StateBackedBy, WorkIsAnnounced, WorkIsOfItsDay,
                      AnnouncedRows
  <2>5. HeadsPending'
    BY <2>1, <2>2, <2>3 DEF AnchorInv, HeadsPending, Leads
  <2>6. DeliveredIsAnchored'
    BY <2>1, <2>2, <2>3 DEF AnchorInv, DeliveredIsAnchored, Done
  <2> QED BY <2>4, <2>5, <2>6 DEF AnchorInv
<1>9. ASSUME Restart PROVE AnchorInv'
  <2>1. delivered' = {} /\ state' = [s \in Streams |-> NotAnchored]
        /\ job' = [d \in Deliverers |-> Idle]
    BY <1>9 DEF Restart
  <2> QED BY <2>1 DEF AnchorInv, StateIsAnchored, StateBackedBy, WorkIsAnnounced, WorkIsOfItsDay,
                      HeadsPending, DeliveredIsAnchored, Done, Working, Idle
<1>10. CASE \/ Midnight \/ LookIntoAudits \/ LookIntoArchive \/ UNCHANGED vars
           \/ \E s \in Streams : Archive(s) \/ Delete(s) \/ Restore(s) \/ StartCheck(s)
  <2>1. UNCHANGED <<process, anchors, mode>>
    BY <1>10 DEF Midnight, LookIntoAudits, LookIntoArchive, Archive, Delete, Restore, StartCheck, vars,
                 published
  <2> QED BY <2>1, AnchorFrame
<1>11. ASSUME NEW d \in Deliverers, NEW s \in Streams, NEW e \in taken[s], Redeliver(d, s, e)
       PROVE  AnchorInv'
  <2>1. job'[d].phase = "written" /\ \A f \in Deliverers \ {d} : job'[f] = job[f]
    BY <1>1, <1>11 DEF Redeliver, TypeOK, Idle
  <2> QED BY <1>2, <1>11, <2>1 DEF Redeliver, published
<1> QED BY <1>3, <1>4, <1>5, <1>6, <1>7, <1>8, <1>9, <1>10, <1>11 DEF Next

\* When a delivery is over and no publication has failed under it, its rows are covered by
\* an anchor (anchor.ts:26-42, successful_delivery_notifier.ts:28-50).
THEOREM DeliveriesAreAnchored == Spec => []DeliveredIsAnchored
<1>1. Init => TypeInv /\ AnchorInv
  BY TypeInit, AnchorInit DEF Init, TypeInv, HeadsAreRows, Idle
<1>2. TypeInv /\ AnchorInv /\ [Next]_vars => TypeInv' /\ AnchorInv'
  BY TypeStep, AnchorStep
<1>3. AnchorInv => DeliveredIsAnchored
  BY DEF AnchorInv
<1> QED BY <1>1, <1>2, <1>3, PTL DEF Spec

-----------------------------------------------------------------------------
(* A check fails for a loss or a torn line.  AnchorsResolve is not inductive: as long as no *)
(* restore has happened, whatever holds a hash must hold that of a row of the store, and    *)
(* what is gone from audits must be in the archive; and the file never becomes whole again. *)

Resolves(r) ==
    /\ r.seq \in 1 .. Len(chain[r.stream])
    /\ r.hash = Hash(chain, r.stream, r.seq)

JobsResolve == \A d \in Deliverers : \A k \in DOMAIN job[d].rows : Resolves(job[d].rows[k])

AnchorsAreStored == \A a \in anchors : Resolves(a)

ArchiveIsComplete ==
    \A s \in Streams : gone[s] <= archived[s] /\ archived[s] <= Len(chain[s])

CheckIsRight ==
    /\ check.phase # "idle" =>
          /\ check.todo # {} /\ check.todo \subseteq anchors
          /\ \A a \in check.todo : a.stream = check.stream
    /\ check.phase = "archive" => Current.seq <= gone[check.stream]
    /\ check.verdict \notin {"mismatch", "unavailable"}

ResolveInv == restores = 0 => JobsResolve /\ AnchorsAreStored /\ ArchiveIsComplete /\ CheckIsRight

\* Only a restore takes events.
NothingTaken == restores = 0 => \A s \in Streams : taken[s] = {}

UnreadableIsTorn == check.verdict = "unreadable" => file # "whole"

LossIsBehind == NothingTaken /\ UnreadableIsTorn

\* The anchor that is looked up is one of those that are left.
LEMMA CurrentIsLeft ==
    ASSUME check.todo # {}, check.todo \subseteq AnchorType
    PROVE  Current \in check.todo
<1> DEFINE T == {a.seq : a \in check.todo}
<1>1. T \in SUBSET Nat /\ T # {}
  BY DEF AnchorType
<1>2. PICK n \in T : \A m \in T : n <= m
  BY <1>1, LeastElement
<1>3. \E a \in check.todo : \A b \in check.todo : a.seq <= b.seq
  BY <1>2
<1> QED BY <1>3 DEF Current

LEMMA ResolveInit == Init => ResolveInv
BY DEF Init, ResolveInv, JobsResolve, AnchorsAreStored, ArchiveIsComplete, CheckIsRight, Idle, NoCheck

\* A step that lets every chain grow at its end keeps every hash.
LEMMA ResolvesStable ==
    ASSUME TypeOK, NEW r, r.stream \in Streams, Resolves(r),
           \A s \in Streams : \A n \in 0 .. Len(chain[s]) :
              Len(chain[s]) <= Len(chain'[s]) /\ SubSeq(chain'[s], 1, n) = SubSeq(chain[s], 1, n),
           chain' \in [Streams -> Seq(Events)]
    PROVE  Resolves(r)'
<1> DEFINE c == chain[r.stream]
           e == chain'[r.stream]
<1>1. c \in Seq(Events) /\ e \in Seq(Events) /\ Len(c) \in Nat /\ Len(e) \in Nat
  BY LenProperties DEF TypeOK
<1>2. r.seq \in 1 .. Len(c) /\ r.hash = SubSeq(c, 1, r.seq)
  BY DEF Resolves, Hash
<1>3. r.seq \in 0 .. Len(c)
  BY <1>1, <1>2
<1>4. Len(c) <= Len(e) /\ SubSeq(e, 1, r.seq) = SubSeq(c, 1, r.seq)
  BY <1>3
<1> HIDE DEF c
<1>5. r.seq \in 1 .. Len(e) /\ r.hash = SubSeq(e, 1, r.seq)
  BY <1>1, <1>2, <1>4
<1> QED BY <1>5 DEF Resolves, Hash

LEMMA BehindStep == TypeOK /\ LossIsBehind /\ [Next]_vars => LossIsBehind'
<1> SUFFICES ASSUME TypeOK, LossIsBehind, [Next]_vars PROVE LossIsBehind'
  OBVIOUS
<1>1. NothingTaken'
  <2>1. CASE \E s \in Streams : Restore(s)
    <3>1. restores' = restores + 1 /\ restores \in Nat
      BY <2>1 DEF Restore, TypeOK
    <3> QED BY <3>1 DEF NothingTaken
  <2>2. CASE ~ \E s \in Streams : Restore(s)
    <3>1. UNCHANGED <<restores, taken>>
      BY <2>2 DEF Next, Write, Replay, Redeliver, Notify, Emitted, PublishResolves, PublishRejects, Midnight,
             Restart, Archive, Delete, StartCheck, LookIntoAudits, LookIntoArchive, vars, counters, losses
    <3> QED BY <3>1 DEF LossIsBehind, NothingTaken
  <2> QED BY <2>1, <2>2
<1>2. UnreadableIsTorn'
  <2>1. ASSUME UNCHANGED check, file # "whole" => file' # "whole" PROVE UnreadableIsTorn'
    BY <2>1 DEF LossIsBehind, UnreadableIsTorn
  <2>2. CASE Restart \/ \E d \in Deliverers : PublishRejects(d)
    BY <2>1, <2>2, CutShortAdds DEF PublishRejects, Restart
  <2>3. CASE \E d \in Deliverers : PublishResolves(d)
    BY <2>1, <2>3 DEF PublishResolves, Appended
  <2>4. CASE \E s \in Streams : StartCheck(s)
    BY <2>4 DEF StartCheck, UnreadableIsTorn, published
  <2>5. CASE LookIntoAudits \/ LookIntoArchive
    BY <2>5 DEF LookIntoAudits, LookIntoArchive, Compared, Ends, CheckAt, UnreadableIsTorn
  <2>6. CASE \/ \E d \in Deliverers :
                   \/ \E b \in Batches : Write(d, b)
                   \/ \E s \in Streams : \E n \in 1 .. MaxRows[s] : Replay(d, s, n)
                   \/ \E s \in Streams : \E e \in taken[s] : Redeliver(d, s, e)
                   \/ Notify(d) \/ Emitted(d)
             \/ Midnight \/ UNCHANGED vars
             \/ \E s \in Streams : Archive(s) \/ Delete(s) \/ Restore(s)
    <3>1. UNCHANGED <<check, file>>
      BY <2>6 DEF Write, Replay, Redeliver, Notify, Emitted, Midnight, Archive, Delete, Restore, vars, published
    <3> QED BY <2>1, <3>1
  <2> QED BY <2>2, <2>3, <2>4, <2>5, <2>6 DEF Next
<1> QED BY <1>1, <1>2 DEF LossIsBehind

LEMMA ResolveStep == TypeInv /\ LossIsBehind /\ ResolveInv /\ [Next]_vars => ResolveInv'
<1> SUFFICES ASSUME TypeInv, LossIsBehind, ResolveInv, [Next]_vars, restores' = 0 PROVE ResolveInv'
  BY DEF ResolveInv
<1>1. TypeOK /\ HeadsAreRows /\ TypeOK'
  BY TypeStep DEF TypeInv
<1>2. restores = 0 \/ \E s \in Streams : Restore(s)
  BY DEF Next, Write, Replay, Redeliver, Notify, Emitted, PublishResolves, PublishRejects, Midnight,
         Restart, Archive, Delete, StartCheck, LookIntoAudits, LookIntoArchive, vars, counters, losses
<1>3. ~ \E s \in Streams : Restore(s)
  BY <1>1 DEF Restore, TypeOK
<1>4. restores = 0 /\ JobsResolve /\ AnchorsAreStored /\ ArchiveIsComplete /\ CheckIsRight
  BY <1>2, <1>3 DEF ResolveInv
<1>5. /\ \A d \in Deliverers : \A k \in DOMAIN job[d].rows : job[d].rows[k].stream \in Streams
      /\ \A a \in anchors : a.stream \in Streams
  BY <1>1 DEF TypeOK, JobOk, RowOk, AnchorType
<1>6. ASSUME UNCHANGED chain,
             \A d \in Deliverers : \A k \in DOMAIN job'[d].rows : Resolves(job'[d].rows[k]),
             \A a \in anchors' : Resolves(a)
      PROVE  JobsResolve' /\ AnchorsAreStored'
  <2>1. \A r : Resolves(r)' <=> Resolves(r)
    BY <1>6 DEF Resolves, Hash
  <2> QED BY <1>6, <2>1 DEF JobsResolve, AnchorsAreStored
<1>7. ASSUME NEW d \in Deliverers, NEW j, job' = [job EXCEPT ![d] = j],
             \A k \in DOMAIN j.rows : Resolves(j.rows[k])
      PROVE  \A e \in Deliverers : \A k \in DOMAIN job'[e].rows : Resolves(job'[e].rows[k])
  <2>1. job'[d] = j /\ \A e \in Deliverers \ {d} : job'[e] = job[e]
    BY <1>1, <1>7 DEF TypeOK
  <2> QED BY <1>4, <1>7, <2>1 DEF JobsResolve
<1>8. ASSUME anchors \subseteq anchors', UNCHANGED <<archived, gone, check>>,
             \A s \in Streams : Len(chain[s]) <= Len(chain'[s])
      PROVE  ArchiveIsComplete' /\ CheckIsRight'
  <2>1. ArchiveIsComplete'
    <3>1. SUFFICES ASSUME NEW s \in Streams PROVE gone[s] <= archived[s] /\ archived[s] <= Len(chain'[s])
      BY <1>8 DEF ArchiveIsComplete
    <3>2. chain[s] \in Seq(Events) /\ chain'[s] \in Seq(Events) /\ archived[s] \in Nat
      BY <1>1 DEF TypeOK
    <3>3. Len(chain[s]) \in Nat /\ Len(chain'[s]) \in Nat
      BY <3>2, LenProperties
    <3> QED BY <1>4, <1>8, <3>2, <3>3 DEF ArchiveIsComplete
  <2>2. CheckIsRight'
    BY <1>4, <1>8 DEF CheckIsRight, Current
  <2> QED BY <2>1, <2>2
<1>9. ASSUME UNCHANGED <<database, check>>, anchors \subseteq anchors' PROVE ArchiveIsComplete' /\ CheckIsRight'
  <2>1. \A s \in Streams : Len(chain[s]) <= Len(chain'[s])
    BY <1>1, <1>9, LenProperties DEF TypeOK, database
  <2> QED BY <1>8, <1>9, <2>1 DEF database
<1>10. ASSUME NEW d \in Deliverers, job[d].phase = "publishing" PROVE Resolves(Published(d))
  <2>1. PICK k \in DOMAIN job[d].rows : job[d].head = job[d].rows[k]
    BY <1>1, <1>10 DEF HeadsAreRows
  <2>2. Resolves(job[d].head)
    BY <1>4, <2>1 DEF JobsResolve
  <2> QED BY <2>2 DEF Published, Resolves
<1>11. ASSUME NEW d \in Deliverers, NEW heads, NEW st,
              \A h \in heads : \E k \in DOMAIN job[d].rows : h = job[d].rows[k]
       PROVE  \A k \in DOMAIN Continue(job[d], heads, st).rows : Resolves(Continue(job[d], heads, st).rows[k])
  <2>1. DOMAIN job[d].rows \subseteq Nat
    BY <1>1 DEF TypeOK, JobOk
  <2>2. \/ Continue(job[d], heads, st) = Idle
        \/ Continue(job[d], heads, st).rows = job[d].rows
    BY <1>11, <2>1, ContinueKeeps
  <2>3. Idle.rows = <<>>
    BY DEF Idle
  <2> QED BY <1>4, <2>2, <2>3 DEF JobsResolve
<1>12. ASSUME NEW d \in Deliverers, NEW b \in Batches, Write(d, b) PROVE ResolveInv'
  <2>1. /\ chain' \in [Streams -> Seq(Events)]
        /\ \A s \in Streams : \A n \in 0 .. Len(chain[s]) :
              Len(chain[s]) <= Len(chain'[s]) /\ SubSeq(chain'[s], 1, n) = SubSeq(chain[s], 1, n)
        /\ \A k \in DOMAIN job'[d].rows :
              LET r == job'[d].rows[k]
              IN  RowOk(r) /\ r.seq <= Len(chain'[r.stream]) /\ r = Row(chain', r.stream, r.seq)
    BY <1>1, <1>12, WriteType
  <2>2. \A r : r.stream \in Streams /\ Resolves(r) => Resolves(r)'
    BY <1>1, <2>1, ResolvesStable
  <2>3. UNCHANGED <<anchors, archived, gone, check>> /\ \A e \in Deliverers \ {d} : job'[e] = job[e]
    BY <1>1, <1>12 DEF Write, TypeOK, published
  <2>4. AnchorsAreStored'
    BY <1>4, <1>5, <2>2, <2>3 DEF AnchorsAreStored
  <2>5. ASSUME NEW k \in DOMAIN job'[d].rows PROVE Resolves(job[d].rows[k])'
    <3> DEFINE r == job'[d].rows[k]
    <3>1. RowOk(r) /\ r.seq <= Len(chain'[r.stream]) /\ r = Row(chain', r.stream, r.seq)
      BY <2>1
    <3>2. r.seq \in Nat /\ r.seq >= 1 /\ Len(chain'[r.stream]) \in Nat
      <4>1. r.stream \in Streams /\ r.seq \in 1 .. MaxRows[r.stream] /\ r.seq \in Nat
        BY <3>1 DEF RowOk
      <4>2. chain'[r.stream] \in Seq(Events)
        BY <2>1, <4>1
      <4>3. MaxRows[r.stream] \in Nat
        BY <4>1, BoundsAssumption
      <4> QED BY <4>1, <4>2, <4>3, LenProperties
    <3>3. r.hash = Hash(chain', r.stream, r.seq)
      BY <3>1 DEF Row
    <3> HIDE DEF r
    <3>4. r.seq \in 1 .. Len(chain'[r.stream])
      BY <3>1, <3>2
    <3> QED BY <3>3, <3>4 DEF Resolves, Hash, r
  <2>6. JobsResolve'
    <3>1. SUFFICES ASSUME NEW e \in Deliverers, NEW k \in DOMAIN job'[e].rows
                   PROVE  Resolves(job[e].rows[k])'
      BY DEF JobsResolve
    <3>2. CASE e = d
      BY <2>5, <3>1, <3>2
    <3>3. CASE e # d
      <4>1. job'[e].rows[k] = job[e].rows[k] /\ k \in DOMAIN job[e].rows
        BY <2>3, <3>1, <3>3
      <4>2. Resolves(job[e].rows[k]) /\ job[e].rows[k].stream \in Streams
        BY <1>4, <1>5, <4>1 DEF JobsResolve
      <4> QED BY <4>1, <4>2, <2>2 DEF Resolves, Hash
    <3> QED BY <3>2, <3>3
  <2>7. \A s \in Streams : Len(chain[s]) <= Len(chain'[s])
    <3>1. \A s \in Streams : 0 \in 0 .. Len(chain[s])
      BY <1>1, LenProperties DEF TypeOK
    <3> QED BY <2>1, <3>1
  <2> QED BY <1>8, <2>3, <2>4, <2>6, <2>7 DEF ResolveInv
<1>13. ASSUME NEW d \in Deliverers, NEW s \in Streams, NEW n \in 1 .. MaxRows[s], Replay(d, s, n)
       PROVE  ResolveInv'
  <2> DEFINE j == [Idle EXCEPT !.phase = "written", !.rows = <<Row(chain, s, n)>>]
  <2>1. DOMAIN j.rows = {1} /\ j.rows[1] = Row(chain, s, n)
    BY DEF Idle
  <2>2. Resolves(Row(chain, s, n))
    BY <1>13 DEF Replay, Resolves, Row
  <2>3. job' = [job EXCEPT ![d] = j] /\ UNCHANGED <<database, anchors, check>>
    BY <1>13 DEF Replay, published
  <2> HIDE DEF j
  <2>4. \A e \in Deliverers : \A k \in DOMAIN job'[e].rows : Resolves(job'[e].rows[k])
    BY <1>7, <2>1, <2>2, <2>3
  <2> QED BY <1>4, <1>6, <1>9, <2>3, <2>4 DEF ResolveInv, AnchorsAreStored, database
<1>14. ASSUME NEW d \in Deliverers, Notify(d) PROVE ResolveInv'
  <2> DEFINE rows == job[d].rows
             fresh == [k \in {i \in DOMAIN rows : IdOf(rows[i]) \notin Announced} |-> rows[k]]
             j == [Idle EXCEPT !.phase = "emitting", !.rows = fresh]
  <2>1. j.rows = fresh /\ Idle.rows = <<>>
    BY DEF Idle
  <2>2. \A k \in DOMAIN fresh : Resolves(fresh[k])
    BY <1>4 DEF JobsResolve
  <2>3. /\ job' = [job EXCEPT ![d] = j] \/ job' = [job EXCEPT ![d] = Idle]
        /\ UNCHANGED <<database, anchors, check>>
    BY <1>14 DEF Notify, published
  <2> HIDE DEF j, fresh
  <2>4. \A e \in Deliverers : \A k \in DOMAIN job'[e].rows : Resolves(job'[e].rows[k])
    BY <1>7, <2>1, <2>2, <2>3
  <2> QED BY <1>4, <1>6, <1>9, <2>3, <2>4 DEF ResolveInv, AnchorsAreStored, database
<1>15. ASSUME NEW d \in Deliverers, Emitted(d) PROVE ResolveInv'
  <2>1. /\ job' = [job EXCEPT ![d] = Continue(job[d], LastPerStream(job[d].rows), state)]
        /\ UNCHANGED <<database, anchors, check>>
    BY <1>15 DEF Emitted, published
  <2>2. \A e \in Deliverers : \A k \in DOMAIN job'[e].rows : Resolves(job'[e].rows[k])
    <3> DEFINE heads == LastPerStream(job[d].rows)
    <3>1. \A h \in heads : \E k \in DOMAIN job[d].rows : h = job[d].rows[k]
      BY LastPerStreamRows
    <3> HIDE DEF heads
    <3>2. \A k \in DOMAIN Continue(job[d], heads, state).rows : Resolves(Continue(job[d], heads, state).rows[k])
      BY <1>11, <3>1
    <3>3. job' = [job EXCEPT ![d] = Continue(job[d], heads, state)]
      BY <2>1 DEF heads
    <3> QED BY <1>7, <3>2, <3>3
  <2> QED BY <1>4, <1>6, <1>9, <2>1, <2>2 DEF ResolveInv, AnchorsAreStored, database
<1>16. ASSUME NEW d \in Deliverers, PublishResolves(d) PROVE ResolveInv'
  <2>1. /\ job[d].phase = "publishing" /\ anchors' = anchors \cup {Published(d)}
        /\ job' = [job EXCEPT ![d] = Continue(job[d], job[d].left, state')]
        /\ UNCHANGED <<database, check>>
    BY <1>16 DEF PublishResolves
  <2>2. \A e \in Deliverers : \A k \in DOMAIN job'[e].rows : Resolves(job'[e].rows[k])
    BY <1>1, <1>7, <1>11, <2>1, LeftAreRows
  <2>3. \A a \in anchors' : Resolves(a)
    BY <1>4, <1>10, <2>1 DEF AnchorsAreStored
  <2> QED BY <1>4, <1>6, <1>9, <2>1, <2>2, <2>3 DEF ResolveInv, database
<1>17. ASSUME NEW d \in Deliverers, PublishRejects(d) PROVE ResolveInv'
  <2>1. /\ job[d].phase = "publishing"
        /\ \E whole \in SUBSET {d} : anchors' = anchors \cup {Published(e) : e \in whole}
        /\ job' = [job EXCEPT ![d] = Idle]
        /\ UNCHANGED <<database, check>>
    BY <1>17, CutShortAdds DEF PublishRejects
  <2>2. \A e \in Deliverers : \A k \in DOMAIN job'[e].rows : Resolves(job'[e].rows[k])
    <3>1. \A k \in DOMAIN Idle.rows : Resolves(Idle.rows[k])
      BY DEF Idle
    <3> QED BY <1>7, <2>1, <3>1
  <2>3. \A a \in anchors' : Resolves(a)
    BY <1>4, <1>10, <2>1 DEF AnchorsAreStored
  <2> QED BY <1>4, <1>6, <1>9, <2>1, <2>2, <2>3 DEF ResolveInv, database
<1>18. ASSUME Restart PROVE ResolveInv'
  <2>1. PICK whole \in SUBSET {d \in Deliverers : job[d].phase = "publishing"} :
           anchors' = anchors \cup {Published(d) : d \in whole}
    BY CutShortAdds, <1>18 DEF Restart
  <2>2. job' = [d \in Deliverers |-> Idle] /\ UNCHANGED <<database, check>> /\ Idle.rows = <<>>
    BY <1>18 DEF Restart, Idle
  <2>3. \A e \in Deliverers : \A k \in DOMAIN job'[e].rows : Resolves(job'[e].rows[k])
    BY <2>2
  <2>4. \A a \in anchors' : Resolves(a)
    BY <1>4, <1>10, <2>1 DEF AnchorsAreStored
  <2>5. anchors \subseteq anchors'
    BY <2>1
  <2> QED BY <1>4, <1>6, <1>9, <2>2, <2>3, <2>4, <2>5 DEF ResolveInv, database
<1>19. ASSUME NEW s \in Streams, Archive(s) \/ Delete(s) PROVE ResolveInv'
  <2>1. UNCHANGED <<chain, job, anchors, check>>
    BY <1>19 DEF Archive, Delete, process, published
  <2>2. /\ archived[s] \in Nat /\ gone[s] \in Nat /\ Len(chain[s]) \in Nat
        /\ gone[s] <= archived[s] /\ archived[s] <= Len(chain[s])
    BY <1>1, <1>4, LenProperties DEF TypeOK, ArchiveIsComplete
  <2>3. /\ gone'[s] \in Nat /\ gone[s] <= gone'[s]
        /\ gone'[s] <= archived'[s] /\ archived'[s] <= Len(chain[s])
    <3>1. CASE Archive(s)
      <4>1. PICK n \in archived[s] + 1 .. Len(chain[s]) - 1 : archived' = [archived EXCEPT ![s] = n]
        BY <3>1 DEF Archive
      <4>2. archived'[s] = n /\ gone'[s] = gone[s]
        BY <1>1, <3>1, <4>1 DEF TypeOK, Archive
      <4> QED BY <2>2, <4>1, <4>2
    <3>2. CASE Delete(s)
      <4>1. archived'[s] = archived[s] /\ gone'[s] = archived[s]
        BY <1>1, <3>2 DEF TypeOK, Delete
      <4> QED BY <2>2, <4>1
    <3> QED BY <1>19, <3>1, <3>2
  <2>4. \A r \in Streams \ {s} : archived'[r] = archived[r] /\ gone'[r] = gone[r]
    BY <1>1, <1>19 DEF TypeOK, Archive, Delete
  <2>5. ArchiveIsComplete'
    BY <1>4, <2>1, <2>3, <2>4 DEF ArchiveIsComplete
  <2>6. CheckIsRight'
    <3>1. ASSUME check.phase = "archive" PROVE Current.seq <= gone'[check.stream]
      <4>1. Current.seq <= gone[check.stream] /\ check.stream \in Streams
        BY <1>1, <1>4, <3>1 DEF CheckIsRight, TypeOK
      <4>2. Current \in AnchorType
        BY <1>1, <1>4, <3>1, CurrentIsLeft DEF CheckIsRight, TypeOK
      <4>3. Current.seq \in Nat
        BY <4>2 DEF AnchorType
      <4> HIDE DEF Current
      <4> QED BY <2>2, <2>3, <2>4, <4>1, <4>3
    <3> QED BY <1>4, <2>1, <3>1 DEF CheckIsRight, Current
  <2>7. JobsResolve' /\ AnchorsAreStored'
    BY <1>4, <1>6, <2>1 DEF JobsResolve, AnchorsAreStored
  <2> QED BY <2>5, <2>6, <2>7 DEF ResolveInv
<1>20. ASSUME NEW s \in Streams, StartCheck(s) PROVE ResolveInv'
  <2>1. UNCHANGED <<chain, archived, gone, job, anchors>>
    BY <1>20 DEF StartCheck, database, process, published
  <2>2. JobsResolve' /\ AnchorsAreStored' /\ ArchiveIsComplete'
    BY <1>4, <1>6, <2>1 DEF JobsResolve, AnchorsAreStored, ArchiveIsComplete
  <2>3. CheckIsRight'
    BY <1>20, <2>1 DEF StartCheck, CheckIsRight
  <2> QED BY <2>2, <2>3 DEF ResolveInv
<1>21. ASSUME LookIntoAudits \/ LookIntoArchive PROVE ResolveInv'
  <2>1. UNCHANGED <<chain, archived, gone, job, anchors>>
    BY <1>21 DEF LookIntoAudits, LookIntoArchive, database, process, published
  <2>2. JobsResolve' /\ AnchorsAreStored' /\ ArchiveIsComplete'
    BY <1>4, <1>6, <2>1 DEF JobsResolve, AnchorsAreStored, ArchiveIsComplete
  <2> DEFINE s == check.stream
             n == Current.seq
  <2>3. /\ Current \in check.todo /\ Current \in anchors /\ Current.stream = s /\ s \in Streams
        /\ Current \in AnchorType
    <3>1. check.todo # {} /\ check.todo \subseteq anchors /\ anchors \subseteq AnchorType
      BY <1>1, <1>4, <1>21 DEF CheckIsRight, LookIntoAudits, LookIntoArchive, TypeOK
    <3>2. Current \in check.todo
      BY <3>1, CurrentIsLeft
    <3> QED BY <1>1, <1>4, <1>21, <3>1, <3>2 DEF CheckIsRight, LookIntoAudits, LookIntoArchive, TypeOK
  <2>4. /\ n \in 1 .. Len(chain[s]) /\ Current.hash = Hash(chain, s, n)
        /\ gone[s] <= archived[s] /\ gone[s] \in Nat /\ archived[s] \in Nat
        /\ Len(chain[s]) \in Nat
    BY <1>1, <1>4, <2>3, LenProperties DEF AnchorsAreStored, Resolves, ArchiveIsComplete, TypeOK
  <2>5. CASE check' = Compared(Hash(chain, s, n))
    <3>1. /\ check'.phase \in {"idle", "audits"}
          /\ check'.phase = "audits" => check'.todo = check.todo \ {Current} /\ check.todo # {Current}
          /\ check'.verdict \in {"none", "passed"} /\ check'.stream = s
      BY <2>4, <2>5 DEF Compared, Ends, CheckAt
    <3> QED BY <1>4, <1>21, <2>1, <2>2, <2>3, <3>1
            DEF ResolveInv, CheckIsRight, LookIntoAudits, LookIntoArchive
  <2>6. CASE LookIntoAudits /\ ~(gone[s] < n /\ n <= Len(chain[s]))
    <3>1. check' = CheckAt("archive", check.todo, "none")
      BY <2>6 DEF LookIntoAudits
    <3>2. /\ check'.phase = "archive" /\ check'.todo = check.todo /\ check'.verdict = "none"
          /\ check'.stream = s
      BY <3>1 DEF CheckAt
    <3>3. n <= gone[s]
      BY <2>4, <2>6
    <3>4. check.phase = "audits" /\ Current' = Current
      BY <2>6, <3>2 DEF LookIntoAudits, Current
    <3> HIDE DEF Current
    <3> QED BY <1>4, <2>1, <2>2, <3>2, <3>3, <3>4 DEF ResolveInv, CheckIsRight
  <2>7. LookIntoArchive => n <= archived[s]
    BY <1>4, <2>4 DEF LookIntoArchive, CheckIsRight
  <2> QED BY <1>21, <2>5, <2>6, <2>7 DEF LookIntoAudits, LookIntoArchive
<1>22. CASE Midnight \/ UNCHANGED vars
  <2>1. UNCHANGED <<database, job, anchors, check>>
    BY <1>22 DEF Midnight, vars, process, published
  <2> QED BY <1>4, <1>6, <1>9, <2>1 DEF ResolveInv, JobsResolve, AnchorsAreStored, database
<1>23. ASSUME NEW d \in Deliverers, NEW s \in Streams, NEW e \in taken[s], Redeliver(d, s, e) PROVE FALSE
  BY <1>4, <1>23 DEF LossIsBehind, NothingTaken
<1> QED
  BY <1>3, <1>12, <1>13, <1>14, <1>15, <1>16, <1>17, <1>18, <1>19, <1>20, <1>21, <1>22, <1>23 DEF Next

\* The check fails only when the store has lost rows or an append to the anchors file was
\* cut short (audit_verify.ts:125-157).
THEOREM ChecksFailForLossOrTornLine == Spec => []AnchorsResolve
<1>1. Init => TypeInv /\ LossIsBehind /\ ResolveInv
  <2>1. Init => LossIsBehind
    BY DEF Init, LossIsBehind, NothingTaken, UnreadableIsTorn, NoCheck
  <2> QED BY <2>1, TypeInit, ResolveInit DEF Init, TypeInv, HeadsAreRows, Idle
<1>2. TypeInv /\ LossIsBehind /\ ResolveInv /\ [Next]_vars => TypeInv' /\ LossIsBehind' /\ ResolveInv'
  BY TypeStep, BehindStep, ResolveStep DEF TypeInv
<1>3. TypeInv /\ LossIsBehind /\ ResolveInv => AnchorsResolve
  BY DEF TypeInv, TypeOK, LossIsBehind, UnreadableIsTorn, ResolveInv, CheckIsRight, AnchorsResolve
<1> QED BY <1>1, <1>2, <1>3, PTL DEF Spec

-----------------------------------------------------------------------------
(* A check that passes has overlooked little.  LossIsBounded is not inductive: as long as    *)
(* the check has not met it, there must be an anchor that the stream can no longer resolve   *)
(* (Outrun).  As long as nothing is delivered again, a row that a restore takes never comes  *)
(* back, because the rows that come after it bear another mark: the restores before them.    *)

\* The marks in a row's hash, or an anchor's, are of the past.
Marked(r) == \A i \in 1 .. r.seq : r.hash[i][1] \in 0 .. restores

RowsAreMarked ==
    /\ \A s \in Streams : \A i \in 1 .. Len(chain[s]) : chain[s][i][1] \in 0 .. restores
    /\ \A d \in Deliverers : \A k \in DOMAIN job[d].rows : Marked(job[d].rows[k])
    /\ \A a \in anchors : Marked(a)

\* One of the rows that an anchor commits to was lost, and the stream goes on with later ones.
Outrun(a) ==
    \E i \in 1 .. a.seq :
        /\ a.hash[i][1] < restores
        /\ \A j \in i .. Len(chain[a.stream]) : a.hash[i][1] < chain[a.stream][j][1]

ArchiveIsOfStream == \A s \in Streams : archived[s] <= Len(chain[s])

LossIsAnchored ==
    mode = "count" => \A s \in lost : \E a \in anchors : a.stream = s /\ Outrun(a)

TodoIsOfStream ==
    check.phase # "idle" =>
        check.todo # {} /\ \A a \in check.todo : a \in anchors /\ a.stream = check.stream

LossAwaitsCheck ==
    mode = "count" /\ check.lost =>
        /\ check.verdict # "passed"
        /\ check.phase # "idle" => \E a \in check.todo : Outrun(a)

LossInv == /\ RowsAreMarked /\ ArchiveIsOfStream /\ LossIsAnchored
           /\ TodoIsOfStream /\ LossAwaitsCheck

\* A chain whose rows are those it had, or new ones with the mark m.
Follows(new, old, m) ==
    \A s \in Streams : \A j \in 1 .. Len(new[s]) :
        (j <= Len(old[s]) /\ new[s][j] = old[s][j]) \/ new[s][j][1] = m

\* Rows a whole interval apart are not of the same bucket.
LEMMA NextBucket ==
    ASSUME NEW m \in Nat, NEW n \in Nat, n - m >= Every
    PROVE  Bucket(m) < Bucket(n)
<1>1. Every \in Nat \ {0} /\ m + Every \in Nat /\ m + Every <= n
  BY EveryAssumption
<1>2. Bucket(m) \in Nat /\ Bucket(m + Every) \in Nat /\ Bucket(m + Every) <= Bucket(n)
  BY <1>1, BucketMonotone
<1>3. Bucket(n) \in Nat
  BY BucketMonotone
<1>4. Bucket(m + Every) = Bucket(m) + 1
  BY <1>1 DEF Bucket
<1> QED BY <1>2, <1>3, <1>4

\* Of two delivered rows that far apart, the later one has an anchor behind the earlier one.
LEMMA AnchorBetween ==
    ASSUME TypeOK, DeliveredIsAnchored, mode = "count", NEW s \in Streams, NEW n \in Nat,
           NEW g \in Taken(s, n), NEW h \in Taken(s, n), h.seq - g.seq >= Every
    PROVE  \E a \in anchors : a.stream = s /\ a.seq > n
<1>1. PICK x \in Done : x.row = h /\ h.stream = s /\ h.seq > n
  BY DEF Taken
<1>2. PICK y \in Done : y.row = g /\ g.seq > n
  BY DEF Taken
<1>3. RowOk(h) /\ RowOk(g)
  BY <1>1, <1>2 DEF TypeOK, Done
<1>4. PICK a \in anchors : Covers(a, x)
  BY <1>1 DEF DeliveredIsAnchored
<1>5. a.stream = s /\ Bucket(a.seq) >= Bucket(h.seq)
  BY <1>1, <1>4 DEF Covers
<1>6. a.seq \in Nat /\ h.seq \in Nat /\ g.seq \in Nat
  BY <1>3 DEF TypeOK, AnchorType, RowOk
<1>7. Bucket(g.seq) < Bucket(h.seq)
  BY <1>6, NextBucket
<1>8. Bucket(a.seq) \in Nat /\ Bucket(h.seq) \in Nat /\ Bucket(g.seq) \in Nat
  BY <1>6, BucketMonotone
<1>9. ~(a.seq <= g.seq)
  <2>1. a.seq <= g.seq => Bucket(a.seq) <= Bucket(g.seq)
    BY <1>6, BucketMonotone
  <2> QED BY <1>5, <1>7, <1>8, <2>1
<1>10. a.seq > n
  BY <1>2, <1>6, <1>9
<1> QED BY <1>5, <1>10

\* An anchor that is outrun does not match the stream.
LEMMA OutrunMismatch ==
    ASSUME TypeOK, NEW a, a.stream \in Streams, a.seq \in Nat, a.seq <= Len(chain[a.stream]),
           Marked(a), Outrun(a)
    PROVE  a.hash # Hash(chain, a.stream, a.seq)
<1> DEFINE c == chain[a.stream]
<1>1. c \in Seq(Events) /\ Len(c) \in Nat
  BY LenProperties DEF TypeOK
<1>2. PICK i \in 1 .. a.seq : \A j \in i .. Len(c) : a.hash[i][1] < c[j][1]
  BY DEF Outrun
<1>3. a.hash[i][1] \in Nat
  <2>1. restores \in Nat /\ a.hash[i][1] \in 0 .. restores
    BY <1>2 DEF Marked, TypeOK
  <2> QED BY <2>1
<1> HIDE DEF c
<1>4. i \in i .. Len(c) /\ i \in 1 .. Len(c)
  BY <1>1, <1>2 DEF c
<1>5. a.hash[i][1] < c[i][1] /\ c[i][1] \in Nat
  <2>1. c[i] \in Events
    BY <1>1, <1>4, ElementOfSeq
  <2> QED BY <1>2, <1>4, <2>1 DEF Events
<1>6. SubSeq(c, 1, a.seq)[i] = c[i]
  BY <1>1, <1>2, <1>4, SubSeqProperties DEF c
<1> QED BY <1>3, <1>5, <1>6 DEF Hash, c

\* It remains so.
LEMMA OutrunStays ==
    ASSUME TypeOK, TypeOK', NEW a, a.stream \in Streams, a.seq \in Nat, Marked(a), Outrun(a),
           restores <= restores', Follows(chain', chain, restores)
    PROVE  Outrun(a)'
<1> DEFINE c == chain[a.stream]
           e == chain'[a.stream]
<1>1. /\ restores \in Nat /\ restores' \in Nat
      /\ Len(c) \in Nat /\ Len(e) \in Nat
  BY LenProperties DEF TypeOK
<1>2. PICK i \in 1 .. a.seq : a.hash[i][1] < restores /\ \A j \in i .. Len(c) : a.hash[i][1] < c[j][1]
  BY DEF Outrun
<1>3. a.hash[i][1] \in Nat
  <2>1. a.hash[i][1] \in 0 .. restores
    BY <1>2 DEF Marked
  <2> QED BY <1>1, <2>1
<1>4. \A j \in 1 .. Len(e) : (j <= Len(c) /\ e[j] = c[j]) \/ e[j][1] = restores
  BY DEF Follows
<1> HIDE DEF c, e
<1>5. ASSUME NEW j \in i .. Len(e) PROVE a.hash[i][1] < e[j][1]
  <2>1. j \in 1 .. Len(e)
    BY <1>1, <1>2
  <2>2. CASE j <= Len(c) /\ e[j] = c[j]
    <3>1. j \in i .. Len(c)
      BY <1>1, <2>2
    <3> QED BY <1>2, <2>2, <3>1
  <2>3. CASE e[j][1] = restores
    BY <1>2, <2>3
  <2> QED BY <1>4, <2>1, <2>2, <2>3
<1>6. a.hash[i][1] < restores'
  BY <1>1, <1>2, <1>3
<1> QED BY <1>2, <1>5, <1>6 DEF Outrun, e

\* The marks of the past remain so.
LEMMA MarkedStays ==
    ASSUME restores \in Nat, restores' \in Nat, restores <= restores', NEW r, Marked(r)
    PROVE  Marked(r)'
<1>1. 0 .. restores \subseteq 0 .. restores'
  OBVIOUS
<1> QED BY <1>1 DEF Marked

\* A row of a marked chain is marked.
LEMMA RowIsMarked ==
    ASSUME NEW c, NEW s \in Streams, c[s] \in Seq(Events), NEW n \in 0 .. Len(c[s]),
           NEW m \in Nat, \A i \in 1 .. Len(c[s]) : c[s][i][1] \in 0 .. m
    PROVE  \A i \in 1 .. n : Row(c, s, n).hash[i][1] \in 0 .. m
<1>1. Len(c[s]) \in Nat
  BY LenProperties
<1>2. Row(c, s, n).hash = SubSeq(c[s], 1, n)
  BY DEF Row, Hash
<1>3. ASSUME NEW i \in 1 .. n PROVE SubSeq(c[s], 1, n)[i] = c[s][i] /\ i \in 1 .. Len(c[s])
  BY <1>1, SubSeqProperties
<1> QED BY <1>2, <1>3

\* What a batch adds bears the mark of the present.
LEMMA WriteFollows ==
    ASSUME TypeOK, NEW d \in Deliverers, NEW batch \in Batches, Write(d, batch)
    PROVE  Follows(chain', chain, restores)
<1>1. SUFFICES ASSUME NEW s \in Streams, NEW j \in 1 .. Len(chain'[s])
               PROVE  (j <= Len(chain[s]) /\ chain'[s][j] = chain[s][j]) \/ chain'[s][j][1] = restores
  BY DEF Follows
<1> DEFINE m == CountOf(batch, s, Len(batch))
           new == NewEvents(s, m)
<1>2. batch \in Seq(Streams) /\ Len(batch) \in Nat
  BY BatchesAssumption, LenProperties
<1>3. m \in Nat
  BY <1>2, CountOfBounds
<1>4. chain'[s] = chain[s] \o new /\ chain[s] \in Seq(Events) /\ restores \in Nat
  BY DEF Write, TypeOK
<1> HIDE DEF m
<1>5. new \in Seq(Events) /\ Len(new) = m /\ \A k \in 1 .. m : new[k][1] = restores
  BY <1>3, NewEventsType
<1>6. Len(chain[s]) \in Nat
  BY <1>4, LenProperties
<1> HIDE DEF new
<1>7. /\ Len(chain'[s]) = Len(chain[s]) + m
      /\ chain'[s][j] = IF j <= Len(chain[s]) THEN chain[s][j] ELSE new[j - Len(chain[s])]
  <2>1. Len(chain'[s]) = Len(chain[s]) + m
    BY <1>4, <1>5, ConcatProperties
  <2>2. j \in 1 .. Len(chain[s]) + Len(new)
    BY <1>1, <1>5, <2>1
  <2>3. (chain[s] \o new)[j] = IF j <= Len(chain[s]) THEN chain[s][j] ELSE new[j - Len(chain[s])]
    BY <1>4, <1>5, <2>2, ConcatProperties
  <2> QED BY <1>4, <2>1, <2>3
<1>8. j > Len(chain[s]) => j - Len(chain[s]) \in 1 .. m
  BY <1>1, <1>3, <1>6, <1>7
<1> QED BY <1>5, <1>6, <1>7, <1>8

LEMMA LossInit == Init => LossInv
BY DEF Init, LossInv, RowsAreMarked, ArchiveIsOfStream, LossIsAnchored, TodoIsOfStream, LossAwaitsCheck,
       Idle, NoCheck

\* A step beside the check, which may take rows and have them anchored.
LEMMA LossFrame ==
    ASSUME TypeOK, TypeOK', LossInv, UNCHANGED <<mode, check>>, anchors \subseteq anchors',
           restores <= restores', Follows(chain', chain, restores),
           \A d \in Deliverers : \A k \in DOMAIN job'[d].rows : Marked(job[d].rows[k])',
           \A a \in anchors' \ anchors : Marked(a)', ArchiveIsOfStream',
           mode = "count" => \A s \in lost' \ lost : \E a \in anchors : a.stream = s /\ Outrun(a)'
    PROVE  LossInv'
<1>1. restores \in Nat /\ restores' \in Nat
  BY DEF TypeOK
<1>2. ASSUME NEW a \in anchors PROVE Marked(a) /\ Marked(a)' /\ (Outrun(a) => Outrun(a)')
  <2>1. Marked(a) /\ a.stream \in Streams /\ a.seq \in Nat
    BY DEF LossInv, RowsAreMarked, TypeOK, AnchorType
  <2>2. Marked(a)'
    BY <1>1, <2>1, MarkedStays
  <2> QED BY <2>1, <2>2, OutrunStays
<1>3. RowsAreMarked'
  <2>1. ASSUME NEW s \in Streams, NEW i \in 1 .. Len(chain'[s]) PROVE chain'[s][i][1] \in 0 .. restores'
    <3>1. CASE chain'[s][i][1] = restores
      BY <1>1, <3>1
    <3>2. CASE i <= Len(chain[s]) /\ chain'[s][i] = chain[s][i]
      <4>1. Len(chain[s]) \in Nat /\ Len(chain'[s]) \in Nat
        BY LenProperties DEF TypeOK
      <4>2. i \in 1 .. Len(chain[s])
        BY <3>2, <4>1
      <4>3. chain[s][i][1] \in 0 .. restores
        BY <4>2 DEF LossInv, RowsAreMarked
      <4> QED BY <1>1, <3>2, <4>3
    <3> QED BY <2>1, <3>1, <3>2 DEF Follows
  <2>2. \A a \in anchors' : Marked(a)'
    BY <1>2
  <2> QED BY <2>1, <2>2 DEF RowsAreMarked
<1>4. LossIsAnchored'
  <2>1. SUFFICES ASSUME mode = "count", NEW s \in lost'
                 PROVE  \E a \in anchors' : a.stream = s /\ Outrun(a)'
    BY DEF LossIsAnchored
  <2>2. CASE s \in lost
    <3>1. PICK a \in anchors : a.stream = s /\ Outrun(a)
      BY <2>1, <2>2 DEF LossInv, LossIsAnchored
    <3> QED BY <1>2, <3>1
  <2>3. CASE s \notin lost
    BY <2>1, <2>3
  <2> QED BY <2>2, <2>3
<1>5. TodoIsOfStream'
  BY DEF LossInv, TodoIsOfStream
<1>6. LossAwaitsCheck'
  <2>1. SUFFICES ASSUME mode = "count", check.lost
                 PROVE  /\ check.verdict # "passed"
                        /\ check.phase # "idle" => \E a \in check.todo : Outrun(a)'
    BY DEF LossAwaitsCheck
  <2>2. /\ check.verdict # "passed"
        /\ check.phase # "idle" => \E a \in check.todo : Outrun(a)
    BY <2>1 DEF LossInv, LossAwaitsCheck
  <2>3. check.phase # "idle" => check.todo \subseteq anchors
    BY DEF LossInv, TodoIsOfStream
  <2> QED BY <1>2, <2>2, <2>3
<1> QED BY <1>3, <1>4, <1>5, <1>6 DEF LossInv

\* A step that leaves the database alone.
LEMMA LossOfDelivery ==
    ASSUME TypeOK, TypeOK', LossInv, UNCHANGED <<mode, check, database, losses>>, anchors \subseteq anchors',
           \A d \in Deliverers : \A k \in DOMAIN job'[d].rows : Marked(job'[d].rows[k]),
           \A a \in anchors' \ anchors : Marked(a)
    PROVE  LossInv'
<1>1. restores \in Nat /\ UNCHANGED <<chain, archived, restores, lost>>
  BY DEF TypeOK, database, losses
<1>2. \A r : Marked(r)' <=> Marked(r)
  BY <1>1 DEF Marked
<1>3. Follows(chain', chain, restores)
  <2>1. SUFFICES ASSUME NEW s \in Streams, NEW j \in 1 .. Len(chain[s]) PROVE j <= Len(chain[s])
    BY <1>1 DEF Follows
  <2>2. Len(chain[s]) \in Nat
    BY LenProperties DEF TypeOK
  <2> QED BY <2>2
<1>4. ArchiveIsOfStream'
  BY <1>1 DEF LossInv, ArchiveIsOfStream
<1>5. \A d \in Deliverers : \A k \in DOMAIN job'[d].rows : Marked(job[d].rows[k])'
  BY <1>1 DEF Marked
<1>6. \A a \in anchors' \ anchors : Marked(a)'
  BY <1>2
<1> QED BY <1>1, <1>3, <1>4, <1>5, <1>6, LossFrame

LEMMA LossStep == TypeInv /\ AnchorInv /\ LossInv /\ [Next]_vars /\ ~redelivered' => LossInv'
<1> SUFFICES ASSUME TypeInv, AnchorInv, LossInv, [Next]_vars, ~redelivered' PROVE LossInv'
  OBVIOUS
<1>1. TypeOK /\ HeadsAreRows /\ TypeOK'
  BY TypeStep DEF TypeInv
<1>2. /\ restores \in Nat
      /\ \A d \in Deliverers : \A k \in DOMAIN job[d].rows : Marked(job[d].rows[k])
  BY <1>1 DEF TypeOK, LossInv, RowsAreMarked
<1>3. ASSUME NEW d \in Deliverers, NEW j, job' = [job EXCEPT ![d] = j],
             \A k \in DOMAIN j.rows : Marked(j.rows[k])
      PROVE  \A e \in Deliverers : \A k \in DOMAIN job'[e].rows : Marked(job'[e].rows[k])
  <2>1. job'[d] = j /\ \A e \in Deliverers \ {d} : job'[e] = job[e]
    BY <1>1, <1>3 DEF TypeOK
  <2> QED BY <1>2, <1>3, <2>1
<1>4. ASSUME NEW d \in Deliverers, job[d].phase = "publishing" PROVE Marked(Published(d))
  <2>1. PICK k \in DOMAIN job[d].rows : job[d].head = job[d].rows[k]
    BY <1>1, <1>4 DEF HeadsAreRows
  <2>2. Marked(job[d].head)
    BY <1>2, <2>1
  <2> QED BY <2>2 DEF Published, Marked
<1>5. ASSUME NEW d \in Deliverers, NEW heads, NEW st,
             \A h \in heads : \E k \in DOMAIN job[d].rows : h = job[d].rows[k]
      PROVE  \A k \in DOMAIN Continue(job[d], heads, st).rows : Marked(Continue(job[d], heads, st).rows[k])
  <2>1. DOMAIN job[d].rows \subseteq Nat
    BY <1>1 DEF TypeOK, JobOk
  <2>2. \/ Continue(job[d], heads, st) = Idle
        \/ Continue(job[d], heads, st).rows = job[d].rows
    BY <1>5, <2>1, ContinueKeeps
  <2>3. Idle.rows = <<>>
    BY DEF Idle
  <2> QED BY <1>2, <2>2, <2>3
<1>6. ASSUME NEW d \in Deliverers, NEW b \in Batches, Write(d, b) PROVE LossInv'
  <2>1. /\ \A s \in Streams : \A n \in 0 .. Len(chain[s]) : Len(chain[s]) <= Len(chain'[s])
        /\ \A k \in DOMAIN job'[d].rows :
              LET r == job'[d].rows[k]
              IN  RowOk(r) /\ r.seq <= Len(chain'[r.stream]) /\ r = Row(chain', r.stream, r.seq)
    BY <1>1, <1>6, WriteType
  <2>2. /\ UNCHANGED <<mode, check, archived, anchors, lost, restores>>
        /\ \A e \in Deliverers \ {d} : job'[e] = job[e]
    BY <1>1, <1>6 DEF Write, TypeOK, counters, losses, published
  <2>3. Follows(chain', chain, restores)
    BY <1>1, <1>6, WriteFollows
  <2>4. \A s \in Streams : /\ chain'[s] \in Seq(Events) /\ Len(chain'[s]) \in Nat
                           /\ Len(chain[s]) \in Nat /\ Len(chain[s]) <= Len(chain'[s])
    <3>1. \A s \in Streams : chain'[s] \in Seq(Events) /\ Len(chain'[s]) \in Nat /\ Len(chain[s]) \in Nat
      BY <1>1, LenProperties DEF TypeOK
    <3>2. \A s \in Streams : 0 \in 0 .. Len(chain[s])
      BY <3>1
    <3> QED BY <2>1, <3>1, <3>2
  <2>5. ASSUME NEW k \in DOMAIN job'[d].rows PROVE Marked(job'[d].rows[k])
    <3>1. PICK r : r = job'[d].rows[k]
      OBVIOUS
    <3>2. RowOk(r) /\ r.seq <= Len(chain'[r.stream]) /\ r = Row(chain', r.stream, r.seq)
      BY <2>1, <3>1
    <3>3. r.stream \in Streams /\ r.seq \in 0 .. Len(chain'[r.stream])
      BY <2>4, <3>2 DEF RowOk
    <3>4. ASSUME NEW i \in 1 .. Len(chain'[r.stream]) PROVE chain'[r.stream][i][1] \in 0 .. restores
      <4>1. \A j \in 1 .. Len(chain[r.stream]) : chain[r.stream][j][1] \in 0 .. restores
        BY <3>3 DEF LossInv, RowsAreMarked
      <4>2. (i <= Len(chain[r.stream]) /\ chain'[r.stream][i] = chain[r.stream][i])
               \/ chain'[r.stream][i][1] = restores
        BY <2>3, <3>3 DEF Follows
      <4>3. i <= Len(chain[r.stream]) => i \in 1 .. Len(chain[r.stream])
        BY <2>4, <3>3
      <4> QED BY <1>2, <4>1, <4>2, <4>3
    <3>5. \A i \in 1 .. r.seq : Row(chain', r.stream, r.seq).hash[i][1] \in 0 .. restores
      BY <1>2, <2>4, <3>3, <3>4, RowIsMarked
    <3> QED BY <3>1, <3>2, <3>5 DEF Marked
  <2>6. \A e \in Deliverers : \A k \in DOMAIN job'[e].rows : Marked(job[e].rows[k])'
    <3>1. SUFFICES ASSUME NEW e \in Deliverers, NEW k \in DOMAIN job'[e].rows
                   PROVE  Marked(job'[e].rows[k])
      BY <2>2 DEF Marked
    <3> QED BY <1>2, <2>2, <2>5
  <2>7. ArchiveIsOfStream'
    BY <1>1, <2>2, <2>4 DEF LossInv, ArchiveIsOfStream, TypeOK
  <2> QED BY <1>1, <1>2, <2>2, <2>3, <2>6, <2>7, LossFrame
<1>7. ASSUME NEW d \in Deliverers, NEW s \in Streams, NEW n \in 1 .. MaxRows[s], Replay(d, s, n)
      PROVE  LossInv'
  <2> DEFINE j == [Idle EXCEPT !.phase = "written", !.rows = <<Row(chain, s, n)>>]
  <2>1. DOMAIN j.rows = {1} /\ j.rows[1] = Row(chain, s, n)
    BY DEF Idle
  <2>2. Marked(Row(chain, s, n))
    <3>1. chain[s] \in Seq(Events) /\ n \in 0 .. Len(chain[s])
      BY <1>1, <1>7 DEF Replay, TypeOK
    <3>2. \A i \in 1 .. Len(chain[s]) : chain[s][i][1] \in 0 .. restores
      BY DEF LossInv, RowsAreMarked
    <3>3. \A i \in 1 .. n : Row(chain, s, n).hash[i][1] \in 0 .. restores
      BY <1>2, <3>1, <3>2, RowIsMarked
    <3> QED BY <3>3 DEF Marked, Row
  <2>3. job' = [job EXCEPT ![d] = j] /\ UNCHANGED <<mode, check, database, losses, anchors>>
    BY <1>7 DEF Replay, published
  <2> HIDE DEF j
  <2>4. \A e \in Deliverers : \A k \in DOMAIN job'[e].rows : Marked(job'[e].rows[k])
    BY <1>3, <2>1, <2>2, <2>3
  <2> QED BY <1>1, <2>3, <2>4, LossOfDelivery
<1>8. ASSUME NEW d \in Deliverers, Notify(d) PROVE LossInv'
  <2> DEFINE rows == job[d].rows
             fresh == [k \in {i \in DOMAIN rows : IdOf(rows[i]) \notin Announced} |-> rows[k]]
             j == [Idle EXCEPT !.phase = "emitting", !.rows = fresh]
  <2>1. j.rows = fresh /\ Idle.rows = <<>>
    BY DEF Idle
  <2>2. \A k \in DOMAIN fresh : Marked(fresh[k])
    BY <1>2
  <2>3. /\ job' = [job EXCEPT ![d] = j] \/ job' = [job EXCEPT ![d] = Idle]
        /\ UNCHANGED <<mode, check, database, losses, anchors>>
    BY <1>8 DEF Notify, counters, published
  <2> HIDE DEF j, fresh
  <2>4. \A e \in Deliverers : \A k \in DOMAIN job'[e].rows : Marked(job'[e].rows[k])
    BY <1>3, <2>1, <2>2, <2>3
  <2> QED BY <1>1, <2>3, <2>4, LossOfDelivery
<1>9. ASSUME NEW d \in Deliverers, Emitted(d) PROVE LossInv'
  <2> DEFINE heads == LastPerStream(job[d].rows)
  <2>1. /\ job' = [job EXCEPT ![d] = Continue(job[d], heads, state)]
        /\ UNCHANGED <<mode, check, database, losses, anchors>>
    BY <1>9 DEF Emitted, counters, published
  <2>2. \A h \in heads : \E k \in DOMAIN job[d].rows : h = job[d].rows[k]
    BY LastPerStreamRows
  <2> HIDE DEF heads
  <2>3. \A k \in DOMAIN Continue(job[d], heads, state).rows : Marked(Continue(job[d], heads, state).rows[k])
    BY <1>5, <2>2
  <2>4. \A e \in Deliverers : \A k \in DOMAIN job'[e].rows : Marked(job'[e].rows[k])
    BY <1>3, <2>1, <2>3
  <2> QED BY <1>1, <2>1, <2>4, LossOfDelivery
<1>10. ASSUME NEW d \in Deliverers, PublishResolves(d) PROVE LossInv'
  <2>1. /\ job[d].phase = "publishing" /\ anchors' = anchors \cup {Published(d)}
        /\ job' = [job EXCEPT ![d] = Continue(job[d], job[d].left, state')]
        /\ UNCHANGED <<mode, check, database, losses>>
    BY <1>10 DEF PublishResolves, counters
  <2>2. \A e \in Deliverers : \A k \in DOMAIN job'[e].rows : Marked(job'[e].rows[k])
    BY <1>1, <1>3, <1>5, <2>1, LeftAreRows
  <2>3. \A a \in anchors' \ anchors : Marked(a)
    BY <1>4, <2>1
  <2>4. anchors \subseteq anchors'
    BY <2>1
  <2> QED BY <1>1, <2>1, <2>2, <2>3, <2>4, LossOfDelivery
<1>11. ASSUME NEW d \in Deliverers, PublishRejects(d) PROVE LossInv'
  <2>1. /\ job[d].phase = "publishing"
        /\ \E whole \in SUBSET {d} : anchors' = anchors \cup {Published(e) : e \in whole}
        /\ job' = [job EXCEPT ![d] = Idle]
        /\ UNCHANGED <<mode, check, database, losses>>
    BY <1>11, CutShortAdds DEF PublishRejects
  <2>2. \A e \in Deliverers : \A k \in DOMAIN job'[e].rows : Marked(job'[e].rows[k])
    <3>1. \A k \in DOMAIN Idle.rows : Marked(Idle.rows[k])
      BY DEF Idle
    <3> QED BY <1>3, <2>1, <3>1
  <2>3. anchors \subseteq anchors' /\ \A a \in anchors' \ anchors : Marked(a)
    BY <1>4, <2>1
  <2> QED BY <1>1, <2>1, <2>2, <2>3, LossOfDelivery
<1>12. ASSUME Restart PROVE LossInv'
  <2>1. PICK whole \in SUBSET {d \in Deliverers : job[d].phase = "publishing"} :
           anchors' = anchors \cup {Published(d) : d \in whole}
    BY CutShortAdds, <1>12 DEF Restart
  <2>2. /\ job' = [d \in Deliverers |-> Idle] /\ Idle.rows = <<>>
        /\ UNCHANGED <<mode, check, database, losses>>
    BY <1>12 DEF Restart, Idle
  <2>3. \A e \in Deliverers : \A k \in DOMAIN job'[e].rows : Marked(job'[e].rows[k])
    BY <2>2
  <2>4. anchors \subseteq anchors' /\ \A a \in anchors' \ anchors : Marked(a)
    BY <1>4, <2>1
  <2> QED BY <1>1, <2>2, <2>3, <2>4, LossOfDelivery

<1>13. ASSUME UNCHANGED <<chain, job, anchors, restores, lost, mode>>
       PROVE  RowsAreMarked' /\ LossIsAnchored' /\ \A a : Outrun(a)' <=> Outrun(a)
  <2>1. \A r : Marked(r)' <=> Marked(r)
    BY <1>13 DEF Marked
  <2>2. \A a : Outrun(a)' <=> Outrun(a)
    BY <1>13 DEF Outrun
  <2>3. RowsAreMarked'
    <3>1. \A s \in Streams : \A i \in 1 .. Len(chain'[s]) : chain'[s][i][1] \in 0 .. restores'
      BY <1>13 DEF LossInv, RowsAreMarked
    <3>2. \A d \in Deliverers : \A k \in DOMAIN job'[d].rows : Marked(job[d].rows[k])'
      BY <1>2, <1>13 DEF Marked
    <3>3. \A a \in anchors' : Marked(a)'
      BY <1>13, <2>1 DEF LossInv, RowsAreMarked
    <3> QED BY <3>1, <3>2, <3>3 DEF RowsAreMarked
  <2>4. LossIsAnchored'
    BY <1>13, <2>2 DEF LossInv, LossIsAnchored
  <2> QED BY <2>2, <2>3, <2>4
<1>14. ASSUME NEW s \in Streams, Archive(s) \/ Delete(s) PROVE LossInv'
  <2>1. UNCHANGED <<chain, job, anchors, restores, lost, mode, check>>
    BY <1>14 DEF Archive, Delete, process, counters, losses, published
  <2>2. ArchiveIsOfStream'
    <3>1. \A r \in Streams : archived[r] <= Len(chain[r]) /\ Len(chain[r]) \in Nat /\ archived[r] \in Nat
      BY <1>1, LenProperties DEF LossInv, ArchiveIsOfStream, TypeOK
    <3>2. CASE Archive(s)
      <4>1. PICK n \in archived[s] + 1 .. Len(chain[s]) - 1 : archived' = [archived EXCEPT ![s] = n]
        BY <3>2 DEF Archive
      <4>2. n <= Len(chain[s])
        BY <3>1, <4>1
      <4>3. ASSUME NEW r \in Streams PROVE archived'[r] <= Len(chain[r])
        BY <1>1, <3>1, <4>1, <4>2 DEF TypeOK
      <4> QED BY <2>1, <4>3 DEF ArchiveIsOfStream
    <3>3. CASE Delete(s)
      BY <2>1, <3>1, <3>3 DEF Delete, ArchiveIsOfStream
    <3> QED BY <1>14, <3>2, <3>3
  <2>3. RowsAreMarked' /\ LossIsAnchored' /\ \A a : Outrun(a)' <=> Outrun(a)
    BY <1>13, <2>1
  <2>4. TodoIsOfStream' /\ LossAwaitsCheck'
    BY <2>1, <2>3 DEF LossInv, TodoIsOfStream, LossAwaitsCheck
  <2> QED BY <2>2, <2>3, <2>4 DEF LossInv
<1>15. ASSUME NEW s \in Streams, Restore(s) PROVE LossInv'
  <2>1. PICK n \in 0 .. Len(chain[s]) - 1 :
           /\ archived[s] = 0 \/ archived[s] < n
           /\ chain' = [chain EXCEPT ![s] = SubSeq(@, 1, n)]
           /\ lost' = IF \E g, h \in Taken(s, n) : h.seq - g.seq >= Every THEN lost \cup {s} ELSE lost
    BY <1>15 DEF Restore
  <2>2. /\ restores' = restores + 1
        /\ UNCHANGED <<archived, job, anchors, mode, check>>
    BY <1>15 DEF Restore, process, published
  <2>3. chain[s] \in Seq(Events) /\ Len(chain[s]) \in Nat /\ n \in Nat /\ n < Len(chain[s])
    <3>1. chain[s] \in Seq(Events) /\ Len(chain[s]) \in Nat
      BY <1>1, LenProperties DEF TypeOK
    <3> QED BY <2>1, <3>1
  <2>4. /\ chain'[s] = SubSeq(chain[s], 1, n) /\ Len(chain'[s]) = n
        /\ \A j \in 1 .. n : chain'[s][j] = chain[s][j]
        /\ \A r \in Streams \ {s} : chain'[r] = chain[r]
    <3>1. chain'[s] = SubSeq(chain[s], 1, n) /\ \A r \in Streams \ {s} : chain'[r] = chain[r]
      BY <1>1, <2>1 DEF TypeOK
    <3> QED BY <2>3, <3>1, SubSeqProperties
  <2>5. Follows(chain', chain, restores)
    <3>1. SUFFICES ASSUME NEW r \in Streams, NEW j \in 1 .. Len(chain'[r])
                   PROVE  j <= Len(chain[r]) /\ chain'[r][j] = chain[r][j]
      BY DEF Follows
    <3>2. CASE r = s
      BY <2>3, <2>4, <3>1, <3>2
    <3>3. CASE r # s
      <4>1. Len(chain[r]) \in Nat
        BY <1>1, LenProperties DEF TypeOK
      <4> QED BY <2>4, <3>1, <3>3, <4>1
    <3> QED BY <3>2, <3>3
  <2>6. ArchiveIsOfStream'
    <3>1. \A r \in Streams : archived[r] <= Len(chain[r]) /\ archived[r] \in Nat
      BY <1>1 DEF LossInv, ArchiveIsOfStream, TypeOK
    <3>2. archived[s] <= n
      BY <2>1, <2>3, <3>1
    <3> QED BY <2>2, <2>4, <3>1, <3>2 DEF ArchiveIsOfStream
  <2>7. \A d \in Deliverers : \A k \in DOMAIN job'[d].rows : Marked(job[d].rows[k])'
    <3>1. restores' \in Nat /\ restores <= restores'
      BY <1>2, <2>2
    <3>2. \A r : Marked(r) => Marked(r)'
      BY <1>2, <3>1, MarkedStays
    <3>3. SUFFICES ASSUME NEW d \in Deliverers, NEW k \in DOMAIN job[d].rows
                   PROVE  Marked(job[d].rows[k])'
      BY <2>2
    <3>4. PICK r : r = job[d].rows[k]
      OBVIOUS
    <3>5. Marked(r)'
      BY <1>2, <3>2, <3>4
    <3> QED BY <2>2, <3>4, <3>5 DEF Marked
  <2>8. ASSUME mode = "count", NEW r \in lost' \ lost PROVE \E a \in anchors : a.stream = r /\ Outrun(a)'
    <3>1. r = s /\ \E g, h \in Taken(s, n) : h.seq - g.seq >= Every
      BY <2>1, <2>8
    <3>2. PICK a \in anchors : a.stream = s /\ a.seq > n
      BY <1>1, <2>3, <2>8, <3>1, AnchorBetween DEF AnchorInv
    <3>3. a.seq \in Nat /\ n + 1 \in 1 .. a.seq
      <4>1. a.seq \in Nat
        BY <1>1, <3>2 DEF TypeOK, AnchorType
      <4> QED BY <2>3, <3>2, <4>1
    <3>4. a.hash[n + 1][1] \in 0 .. restores
      BY <3>3 DEF LossInv, RowsAreMarked, Marked
    <3>5. a.hash[n + 1][1] < restores'
      BY <1>2, <2>2, <3>4
    <3>6. \A j \in n + 1 .. Len(chain'[a.stream]) : FALSE
      BY <2>3, <2>4, <3>2
    <3>7. Outrun(a)'
      BY <3>3, <3>5, <3>6 DEF Outrun
    <3> QED BY <3>1, <3>2, <3>7
  <2>9. restores <= restores'
    BY <1>2, <2>2
  <2> QED BY <1>1, <2>2, <2>5, <2>6, <2>7, <2>8, <2>9, LossFrame
<1>16. ASSUME NEW s \in Streams, StartCheck(s) PROVE LossInv'
  <2>1. UNCHANGED <<chain, archived, job, anchors, restores, lost, mode>>
    BY <1>16 DEF StartCheck, process, database, counters, losses, published
  <2>2. RowsAreMarked' /\ LossIsAnchored' /\ \A a : Outrun(a)' <=> Outrun(a)
    BY <1>13, <2>1
  <2>3. ArchiveIsOfStream'
    BY <2>1 DEF LossInv, ArchiveIsOfStream
  <2> DEFINE read == IF file = "unreadable" THEN {} ELSE {a \in anchors : a.stream = s}
  <2>4. check' = [phase |-> IF read = {} THEN "idle" ELSE "audits", stream |-> s, todo |-> read,
                  verdict |-> IF file = "unreadable" THEN "unreadable"
                              ELSE IF read = {} THEN "passed" ELSE "none",
                  lost |-> s \in lost]
    BY <1>16 DEF StartCheck
  <2>5. TodoIsOfStream'
    BY <2>1, <2>4 DEF TodoIsOfStream
  <2>6. LossAwaitsCheck'
    <3>1. SUFFICES ASSUME mode = "count", s \in lost, file # "unreadable"
                   PROVE  /\ check'.verdict # "passed"
                          /\ \E a \in check'.todo : Outrun(a)'
      BY <2>1, <2>4 DEF LossAwaitsCheck
    <3>2. PICK a \in anchors : a.stream = s /\ Outrun(a)
      BY <3>1 DEF LossInv, LossIsAnchored
    <3>3. a \in read
      BY <3>1, <3>2
    <3> HIDE DEF read
    <3> QED BY <2>2, <2>4, <3>1, <3>2, <3>3
  <2> QED BY <2>2, <2>3, <2>5, <2>6 DEF LossInv
<1>17. ASSUME LookIntoAudits \/ LookIntoArchive PROVE LossInv'
  <2>1. UNCHANGED <<chain, archived, gone, job, anchors, restores, lost, mode>>
    BY <1>17 DEF LookIntoAudits, LookIntoArchive, database, process, counters, losses, published
  <2>2. RowsAreMarked' /\ LossIsAnchored' /\ \A a : Outrun(a)' <=> Outrun(a)
    BY <1>13, <2>1
  <2>3. ArchiveIsOfStream'
    BY <2>1 DEF LossInv, ArchiveIsOfStream
  <2>4. PICK cur : cur = Current
    OBVIOUS
  <2>5. /\ \A a \in check.todo : a \in anchors /\ a.stream = check.stream
        /\ check.todo # {}
    BY <1>17 DEF LossInv, TodoIsOfStream, LookIntoAudits, LookIntoArchive
  <2>6. cur \in check.todo /\ cur.stream = check.stream /\ cur.seq \in Nat /\ cur.stream \in Streams /\ Marked(cur)
    <3>1. anchors \subseteq AnchorType
      BY <1>1 DEF TypeOK
    <3>2. cur \in check.todo
      BY <2>4, <2>5, <3>1, CurrentIsLeft
    <3> QED BY <2>5, <3>1, <3>2 DEF AnchorType, LossInv, RowsAreMarked
  <2>7. mode = "count" /\ check.lost => \E a \in check.todo : Outrun(a)
    BY <1>17 DEF LossInv, LossAwaitsCheck, LookIntoAudits, LookIntoArchive
  <2>8. CASE check' = Compared(Hash(chain, check.stream, cur.seq)) /\ cur.seq <= Len(chain[check.stream])
    <3>1. Hash(chain, check.stream, cur.seq) = cur.hash => ~Outrun(cur)
      BY <1>1, <2>6, <2>8, OutrunMismatch
    <3>2. CASE Hash(chain, check.stream, cur.seq) # cur.hash
      <4>1. check'.phase = "idle" /\ check'.verdict = "mismatch"
        BY <2>4, <2>8, <3>2 DEF Compared, Ends, CheckAt
      <4> QED BY <2>2, <2>3, <4>1 DEF LossInv, TodoIsOfStream, LossAwaitsCheck
    <3>3. CASE Hash(chain, check.stream, cur.seq) = cur.hash /\ check.todo = {cur}
      <4>1. check'.phase = "idle" /\ check'.lost = check.lost
        BY <2>4, <2>8, <3>3 DEF Compared, Ends, CheckAt
      <4>2. ~(mode = "count" /\ check.lost)
        BY <2>7, <3>1, <3>3
      <4> QED BY <2>1, <2>2, <2>3, <4>1, <4>2 DEF LossInv, TodoIsOfStream, LossAwaitsCheck
    <3>4. CASE Hash(chain, check.stream, cur.seq) = cur.hash /\ check.todo # {cur}
      <4>1. /\ check'.phase = "audits" /\ check'.verdict = "none" /\ check'.lost = check.lost
            /\ check'.stream = check.stream /\ check'.todo = check.todo \ {cur}
        BY <2>4, <2>8, <3>4 DEF Compared, CheckAt
      <4>2. TodoIsOfStream'
        <5>1. check'.todo # {}
          BY <2>6, <3>4, <4>1
        <5> QED BY <2>1, <2>5, <4>1, <5>1 DEF TodoIsOfStream
      <4>3. LossAwaitsCheck'
        BY <2>1, <2>2, <2>7, <3>1, <3>4, <4>1 DEF LossAwaitsCheck
      <4> QED BY <2>2, <2>3, <4>2, <4>3 DEF LossInv
    <3> QED BY <3>2, <3>3, <3>4
  <2>9. CASE check' = CheckAt("archive", check.todo, "none")
    <3>1. /\ check'.phase = "archive" /\ check'.verdict = "none" /\ check'.lost = check.lost
          /\ check'.stream = check.stream /\ check'.todo = check.todo
      BY <2>9 DEF CheckAt
    <3>2. TodoIsOfStream' /\ LossAwaitsCheck'
      BY <2>1, <2>2, <2>5, <2>7, <3>1 DEF TodoIsOfStream, LossAwaitsCheck
    <3> QED BY <2>2, <2>3, <3>2 DEF LossInv
  <2>10. CASE check' = Ends("unavailable")
    <3>1. check'.phase = "idle" /\ check'.verdict = "unavailable"
      BY <2>10 DEF Ends, CheckAt
    <3> QED BY <2>2, <2>3, <3>1 DEF LossInv, TodoIsOfStream, LossAwaitsCheck
  <2>11. cur.seq <= archived[check.stream] => cur.seq <= Len(chain[check.stream])
    <3>1. /\ archived[check.stream] <= Len(chain[check.stream])
          /\ archived[check.stream] \in Nat /\ Len(chain[check.stream]) \in Nat
      BY <1>1, <2>6, LenProperties DEF LossInv, ArchiveIsOfStream, TypeOK
    <3> QED BY <2>6, <3>1
  <2>12. CASE LookIntoAudits
    BY <2>4, <2>8, <2>9, <2>12 DEF LookIntoAudits
  <2>13. CASE LookIntoArchive
    BY <2>4, <2>8, <2>10, <2>11, <2>13 DEF LookIntoArchive
  <2> QED BY <1>17, <2>12, <2>13
<1>18. CASE Midnight \/ UNCHANGED vars
  <2>1. UNCHANGED <<database, job, mode, anchors, check, losses>>
    BY <1>18 DEF Midnight, vars, process, counters, published
  <2>2. \A d \in Deliverers : \A k \in DOMAIN job'[d].rows : Marked(job'[d].rows[k])
    BY <1>2, <2>1
  <2> QED BY <1>1, <2>1, <2>2, LossOfDelivery
<1>19. ASSUME NEW d \in Deliverers, NEW s \in Streams, NEW e \in taken[s], Redeliver(d, s, e) PROVE FALSE
  BY <1>19 DEF Redeliver
<1> QED
  BY <1>6, <1>7, <1>8, <1>9, <1>10, <1>11, <1>12, <1>14, <1>15, <1>16, <1>17, <1>18, <1>19 DEF Next

\* That an event came back is not forgotten.
LEMMA RedeliveredStays == [Next]_vars /\ ~redelivered' => ~redelivered
BY DEF Next, Write, Replay, Redeliver, Notify, Emitted, PublishResolves, PublishRejects, Midnight, Restart,
       Archive, Delete, Restore, StartCheck, LookIntoAudits, LookIntoArchive, vars, counters

\* A check that passes has overlooked less than one interval of any loss, unless lost events
\* came back (anchor.ts:57-68, audit_verify.ts:140-160).
THEOREM LossesAreFound == Spec => []LossIsBounded
<1> DEFINE Bounded == ~redelivered => LossInv
<1>1. Init => TypeInv /\ AnchorInv /\ Bounded
  BY TypeInit, AnchorInit, LossInit DEF Init, TypeInv, HeadsAreRows, Idle
<1>2. TypeInv /\ AnchorInv /\ Bounded /\ [Next]_vars => TypeInv' /\ AnchorInv' /\ Bounded'
  BY TypeStep, AnchorStep, LossStep, RedeliveredStays
<1>3. Bounded => LossIsBounded
  BY DEF LossInv, LossAwaitsCheck, LossIsBounded
<1> QED BY <1>1, <1>2, <1>3, PTL DEF Spec

=============================================================================
