------------------------ MODULE LucidVerifierProofs ------------------------
(***************************************************************************)
(* A report of verify() is right both ways, for any range, page size,      *)
(* writers and pruners (VerifyIsExact), when nobody writes an event again  *)
(* after its retention (Prompt).                                           *)
(***************************************************************************)
EXTENDS LucidVerifier, LucidStoreProofs

-----------------------------------------------------------------------------
(* The inductive invariant. *)

\* The checkpoint a prune leaves is right before the live rows.
CheckpointInv ==
    \A s \in Streams :
        DOMAIN audits[s] # {} =>
            First(audits[s]) = 1 \/ First(audits[s]) - 1 \in DOMAIN checkpoints[s]

VerifierType ==
    [phase : {"first", "checkpoint", "paging"}, stream : Streams, to : Nat, first : Nat,
     prev : HeadType, due : Nat, disturbed : BOOLEAN]

\* A verification goes on from an entry of the chain, and the live rows start at most one
\* after it.
GoesOnFrom(s, prev) ==
    /\ prev.seq <= Len(Chain(s)) /\ prev.hash = SubSeq(Chain(s), 1, prev.seq)
    /\ DOMAIN audits[s] # {} => First(audits[s]) <= prev.seq + 1

\* While no prune commits, what was read of the stream is still so.
Undisturbed(v) ==
    /\ v.phase = "first" => v.prev = NoHead
    /\ v.phase = "checkpoint" => DOMAIN audits[v.stream] # {} /\ v.first = First(audits[v.stream])
    /\ v.phase = "paging" => GoesOnFrom(v.stream, v.prev)

VerificationOk(v) ==
    /\ v \in VerifierType
    /\ v.due <= Len(Chain(v.stream)) /\ (v.to # 0 => v.due <= v.to)
    /\ ~v.disturbed => Undisturbed(v)

VerifierOk == verifier # IdleVerifier => VerificationOk(verifier)

ReportOk ==
    /\ ~report.valid => report.disturbed
    /\ report.valid /\ report.last < report.due =>
          /\ report.stream \in Streams /\ report.due \in Nat
          /\ report.due <= Len(Chain(report.stream))
          /\ \A n \in DOMAIN audits[report.stream] : report.due < n

VerifierInv == IInv /\ CheckpointInv /\ VerifierOk /\ ReportOk

-----------------------------------------------------------------------------
(* Lemmas. *)

\* The head of rows that end.
LEMMA HeadOfRows ==
    ASSUME NEW rows \in Rows, DOMAIN rows # {}, NEW bound \in Nat, \A n \in DOMAIN rows : n <= bound
    PROVE  /\ Last(rows) \in DOMAIN rows /\ \A n \in DOMAIN rows : n <= Last(rows)
           /\ HeadOf(rows) = [seq |-> Last(rows), hash |-> rows[Last(rows)].hash]
           /\ HeadOf(rows) \in HeadType
<1>1. DOMAIN rows \in SUBSET Nat /\ \A n \in DOMAIN rows : rows[n].hash \in Hash
  BY RowsType
<1>2. \E x \in DOMAIN rows : \A y \in DOMAIN rows : y <= x
  BY <1>1, GreatestElement
<1>3. Last(rows) \in DOMAIN rows /\ \A n \in DOMAIN rows : n <= Last(rows)
  BY <1>2 DEF Last
<1>4. HeadOf(rows) = [seq |-> Last(rows), hash |-> rows[Last(rows)].hash]
  BY DEF HeadOf
<1> QED BY <1>1, <1>3, <1>4 DEF HeadType

\* What a step of the store does to the live rows: commits add to their end, and only a
\* prune that leaves a checkpoint takes some away.
LEMMA LiveRows ==
    ASSUME IInv, [Next]_vars, NEW s \in Streams
    PROVE  /\ Grown
           /\ DOMAIN audits'[s] \subseteq DOMAIN audits[s] \cup (Len(Chain(s)) + 1 .. Len(Chain(s)'))
           /\ checkpoints' = checkpoints =>
                 DOMAIN audits'[s] = DOMAIN audits[s] \cup (Len(Chain(s)) + 1 .. Len(Chain(s)'))
<1> USE DEF IInv
<1>1. CASE UNCHANGED <<audits, checkpoints>>
  <2>1. Grown /\ Chain(s)' = Chain(s) /\ Len(Chain(s)) \in Nat
    BY <1>1, SameTablesGrow, ChainFacts
  <2>2. Len(Chain(s)) + 1 .. Len(Chain(s)') = {}
    BY <2>1
  <2> QED BY <1>1, <2>1, <2>2
<1>2. ASSUME NEW w \in Writers, CommitRows(w) PROVE
        /\ Grown
        /\ DOMAIN audits'[s] = DOMAIN audits[s] \cup (Len(Chain(s)) + 1 .. Len(Chain(s)'))
  <2>1. PICK t \in Streams : t = writer[w].stream
    BY <1>2 DEF CommitRows, WriterInv, WriterOk, InTransaction
  <2>2. /\ Grown
        /\ DOMAIN audits'[t] = DOMAIN audits[t] \cup (Len(Chain(t)) + 1 .. Len(Chain(t)'))
        /\ \A u \in Streams \ {t} : audits'[u] = audits[u] /\ Chain(u)' = Chain(u)
    BY <1>2, <2>1, CommittedRows
  <2>3. CASE s = t
    BY <2>2, <2>3
  <2>4. CASE s # t
    <3>1. audits'[s] = audits[s] /\ Len(Chain(s)) \in Nat /\ Len(Chain(s)') = Len(Chain(s))
      BY <2>2, <2>4, ChainFacts
    <3>2. Len(Chain(s)) + 1 .. Len(Chain(s)') = {}
      BY <3>1
    <3> QED BY <2>2, <3>1, <3>2
  <2> QED BY <2>3, <2>4
<1>3. ASSUME NEW p \in Pruners, pruner[p].phase = "archived", DeleteAndCheckpoint(p)
      PROVE  /\ Grown /\ DOMAIN audits'[s] \subseteq DOMAIN audits[s]
             /\ checkpoints' # checkpoints
  <2>1. PICK t \in Streams, a \in Nat, k \in Nat : DeletedRows(p, t, a, k)
    BY <1>3, DeleteFacts
  <2>2. checkpoints' # checkpoints
    BY <2>1 DEF DeletedRows
  <2>3. DOMAIN audits'[s] \subseteq DOMAIN audits[s]
    BY <2>1 DEF DeletedRows
  <2>4. Grown
    BY <2>1, DeleteKeepsChains
  <2> QED BY <2>2, <2>3, <2>4
<1> QED BY <1>1, <1>2, <1>3, StepKinds

\* The checkpoint before the live rows stays right.
LEMMA CheckpointKept ==
    ASSUME IInv, CheckpointInv, [Next]_vars
    PROVE  CheckpointInv'
<1> USE DEF IInv
<1> SUFFICES ASSUME NEW s \in Streams, DOMAIN audits'[s] # {}
             PROVE  First(audits'[s]) = 1 \/ First(audits'[s]) - 1 \in DOMAIN checkpoints'[s]
  BY DEF CheckpointInv
<1>1. CASE UNCHANGED <<audits, checkpoints>>
  BY <1>1 DEF CheckpointInv
<1>2. ASSUME NEW w \in Writers, CommitRows(w), UNCHANGED checkpoints
      PROVE  First(audits'[s]) = 1 \/ First(audits'[s]) - 1 \in DOMAIN checkpoints'[s]
  <2>1. PICK t \in Streams : t = writer[w].stream
    BY <1>2 DEF CommitRows, WriterInv, WriterOk, InTransaction
  <2> DEFINE L == Len(Chain(t))
             N == Len(Chain(t)')
  <2>2. /\ Grown /\ L + 1 <= N /\ DOMAIN audits'[t] = DOMAIN audits[t] \cup (L + 1 .. N)
        /\ \A u \in Streams \ {t} : audits'[u] = audits[u]
    BY <1>2, <2>1, CommittedRows
  <2>3. L \in Nat /\ N \in Nat
    BY <2>2, GrownFacts
  <2>4. CASE s # t
    BY <1>2, <2>2, <2>4 DEF CheckpointInv
  <2>5. CASE s = t /\ DOMAIN audits[s] = {}
    <3>1. L = 0
      BY <2>5, ChainFacts
    <3>2. DOMAIN audits'[s] = 1 .. N /\ 1 \in Nat /\ 1 <= N
      BY <2>2, <2>3, <2>5, <3>1
    <3> QED BY <2>3, <3>2, HeadOfInterval
  <2>6. CASE s = t /\ DOMAIN audits[s] # {}
    <3> DEFINE a == First(audits[s])
    <3>1. a \in 1 .. L /\ DOMAIN audits[s] = a .. L
      BY <2>6, ChainFacts
    <3> HIDE DEF a
    <3>2. DOMAIN audits'[s] = (a .. L) \cup (L + 1 .. N) /\ a \in 1 .. L
      BY <2>2, <2>6, <3>1
    <3>3. DOMAIN audits'[s] = a .. N /\ a \in Nat /\ a <= N
      BY <2>2, <2>3, <3>2
    <3>4. First(audits'[s]) = a
      BY <2>3, <3>3, HeadOfInterval
    <3> QED BY <1>2, <2>6, <3>4 DEF CheckpointInv, a
  <2> QED BY <2>4, <2>5, <2>6
<1>3. ASSUME NEW p \in Pruners, pruner[p].phase = "archived", DeleteAndCheckpoint(p)
      PROVE  First(audits'[s]) = 1 \/ First(audits'[s]) - 1 \in DOMAIN checkpoints'[s]
  <2>1. PICK t \in Streams, a \in Nat, k \in Nat : DeletedRows(p, t, a, k)
    BY <1>3, DeleteFacts
  <2> DEFINE f == First(audits[t])
             b == IF f <= k THEN k + 1 ELSE f
  <2>2. /\ \A u \in Streams \ {t} : audits'[u] = audits[u] /\ checkpoints'[u] = checkpoints[u]
        /\ DOMAIN checkpoints'[t] = {k} \cup DOMAIN checkpoints[t]
    BY <2>1 DEF DeletedRows
  <2>3. /\ First(audits'[t]) = b /\ f \in 1 .. Len(Chain(t)) /\ DOMAIN audits[t] = f .. Len(Chain(t))
        /\ Len(Chain(t)) \in Nat
    BY <2>1, DeleteKeepsChains
  <2> HIDE DEF f
  <2>4. CASE s # t
    BY <2>2, <2>4 DEF CheckpointInv
  <2>5. CASE s = t /\ f <= k
    BY <2>2, <2>3, <2>5
  <2>6. CASE s = t /\ ~(f <= k)
    <3>1. First(audits'[s]) = First(audits[s]) /\ DOMAIN audits[s] # {}
      BY <2>3, <2>6 DEF f
    <3> QED BY <2>2, <2>6, <3>1 DEF CheckpointInv
  <2> QED BY <2>4, <2>5, <2>6
<1> QED BY <1>1, <1>2, <1>3, StepKinds

-----------------------------------------------------------------------------
(* A page. *)

\* What verify() has still to read.
Rest ==
    {n \in DOMAIN audits[verifier.stream] :
        verifier.prev.seq < n /\ (verifier.to = 0 \/ n <= verifier.to)}

\* How much of a set of numbers comes before one of them.
Before(S, n) == {m \in S : m < n}

\* A page has the rows of a front of what is to be read.
LEMMA PageIsFront ==
    ASSUME IInv, verifier \in VerifierType
    PROVE  /\ Page \in Rows /\ DOMAIN Page \subseteq Rest
           /\ Rest \subseteq 1 .. Len(Chain(verifier.stream))
           /\ \A n \in DOMAIN Page : Page[n] = audits[verifier.stream][n]
           /\ \A n \in DOMAIN Page : \A m \in Rest : m < n => m \in DOMAIN Page
<1> USE DEF IInv
<1>1. PICK s \in Streams : s = verifier.stream
  BY DEF VerifierType
<1>2. audits[s] \in Rows /\ DOMAIN audits[s] \subseteq 1 .. Len(Chain(s)) /\ Len(Chain(s)) \in Nat
  BY ChainFacts DEF TypeOK
<1>3. Rest \in SUBSET Nat /\ Rest \subseteq DOMAIN audits[s] /\ Rest \subseteq 1 .. Len(Chain(s))
  BY <1>1, <1>2 DEF Rest
<1> DEFINE D == {n \in Rest : Cardinality(Before(Rest, n)) < PageSize}
<1>4. Page = Only(audits[s], D)
  BY <1>1 DEF Page, Rest, Before
<1>5. Page \in Rows /\ DOMAIN Page = D /\ \A n \in D : Page[n] = audits[s][n]
  BY <1>2, <1>3, <1>4, OnlyType
<1>6. ASSUME NEW n \in D, NEW m \in Rest, m < n PROVE m \in D
  <2>1. Before(Rest, m) \subseteq Before(Rest, n)
    <3>1. m \in Nat /\ n \in Nat /\ \A x \in Rest : x < m => x < n
      BY <1>3, <1>6
    <3> HIDE DEF D
    <3> QED BY <3>1 DEF Before
  <2>2. 1 \in Int /\ Len(Chain(s)) \in Int
    BY <1>2
  <2>3. IsFiniteSet(1 .. Len(Chain(s)))
    BY <2>2, FS_Interval
  <2>4. Before(Rest, n) \subseteq 1 .. Len(Chain(s))
    BY <1>3 DEF Before
  <2>5. IsFiniteSet(Before(Rest, n))
    BY <2>3, <2>4, FS_Subset
  <2>6. /\ Cardinality(Before(Rest, m)) <= Cardinality(Before(Rest, n))
        /\ IsFiniteSet(Before(Rest, m))
    BY <2>1, <2>5, FS_Subset
  <2>7. Cardinality(Before(Rest, m)) \in Nat /\ Cardinality(Before(Rest, n)) \in Nat
    BY <2>5, <2>6, FS_CardinalityType
  <2> QED BY <2>6, <2>7, RangesAssumption
<1> HIDE DEF D
<1>7. D \subseteq Rest
  BY DEF D
<1> QED BY <1>1, <1>3, <1>5, <1>6, <1>7

\* A page that is not full has all of it.
LEMMA PageIsAll ==
    ASSUME IInv, verifier \in VerifierType, Cardinality(DOMAIN Page) # PageSize
    PROVE  DOMAIN Page = Rest
<1> USE DEF IInv
<1>1. PICK s \in Streams : s = verifier.stream
  BY DEF VerifierType
<1>2. audits[s] \in Rows /\ DOMAIN audits[s] \subseteq 1 .. Len(Chain(s)) /\ Len(Chain(s)) \in Nat
  BY ChainFacts DEF TypeOK
<1>3. Rest \in SUBSET Nat /\ Rest \subseteq DOMAIN audits[s] /\ Rest \subseteq 1 .. Len(Chain(s))
  BY <1>1, <1>2 DEF Rest
<1> DEFINE D == {n \in Rest : Cardinality(Before(Rest, n)) < PageSize}
<1>4. Page = Only(audits[s], D)
  BY <1>1 DEF Page, Rest, Before
<1>5. DOMAIN Page = D
  BY <1>2, <1>3, <1>4, OnlyType
<1>6. \A n \in D : \A m \in Rest : m < n => m \in D
  BY <1>5, PageIsFront
<1>7. IsFiniteSet(Rest)
  <2>1. 1 \in Int /\ Len(Chain(s)) \in Int
    BY <1>2
  <2>2. IsFiniteSet(1 .. Len(Chain(s)))
    BY <2>1, FS_Interval
  <2> QED BY <1>3, <2>2, FS_Subset
<1>8. ASSUME Rest \ D # {} PROVE FALSE
  <2>1. PICK n \in Rest \ D : \A m \in Rest \ D : n <= m
    <3>1. Rest \ D \in SUBSET Nat
      BY <1>3
    <3> QED BY <1>8, <3>1, LeastElement
  <2>2. Before(Rest, n) = D
    <3>1. ASSUME NEW m \in Rest, m < n PROVE m \in D
      BY <1>3, <2>1, <3>1
    <3>2. ASSUME NEW m \in D PROVE m \in Rest /\ m < n
      <4>1. m \in Rest /\ m # n
        BY <2>1 DEF D
      <4>2. ~(n < m)
        BY <1>6, <2>1
      <4> QED BY <1>3, <2>1, <4>1, <4>2
    <3> HIDE DEF D
    <3> QED BY <3>1, <3>2 DEF Before
  <2>3. IsFiniteSet(D)
    BY <1>7, FS_Subset
  <2>4. Cardinality(D) \in Nat /\ ~(Cardinality(D) < PageSize)
    <3>1. Cardinality(D) \in Nat
      BY <2>3, FS_CardinalityType
    <3>2. n \in Rest /\ n \notin D
      BY <2>1
    <3> QED BY <2>2, <3>1, <3>2
  <2>5. D # {}
    <3>1. Cardinality({}) = 0
      BY FS_EmptySet
    <3> HIDE DEF D
    <3> QED BY <2>4, <3>1, RangesAssumption
  <2>6. PICK g \in D : \A m \in D : m <= g
    <3>0. D \subseteq Rest
      BY DEF D
    <3> HIDE DEF D
    <3>1. D \in SUBSET Nat /\ \A m \in D : m <= Len(Chain(s))
      BY <1>2, <1>3, <3>0
    <3> QED BY <1>2, <2>5, <3>1, GreatestElement
  <2>7. Before(Rest, g) = D \ {g}
    <3>1. ASSUME NEW m \in Rest, m < g PROVE m \in D /\ m # g
      BY <1>3, <1>6, <2>6, <3>1
    <3>2. ASSUME NEW m \in D, m # g PROVE m \in Rest /\ m < g
      <4>1. m \in Rest /\ g \in Rest /\ m <= g
        BY <2>6 DEF D
      <4> QED BY <1>3, <3>2, <4>1
    <3> HIDE DEF D
    <3> QED BY <3>1, <3>2 DEF Before
  <2>8. Cardinality(D \ {g}) < PageSize
    <3>1. Cardinality(Before(Rest, g)) < PageSize
      BY <2>6 DEF D
    <3> QED BY <2>7, <3>1
  <2>9. Cardinality(D \ {g}) = Cardinality(D) - 1
    BY <2>3, <2>6, FS_RemoveElement
  <2> HIDE DEF D
  <2> QED BY <1>5, <2>4, <2>8, <2>9, RangesAssumption
<1> QED BY <1>5, <1>8

\* The hash of a row is the one that its event makes after the hash of the row before it.
LEMMA HashOfNext ==
    ASSUME NEW c \in Hash, NEW n \in 1 .. Len(c), NEW row \in Row, OnChain(n, row, c)
    PROVE  row.hash = HashAfter(<<row.event>>, [seq |-> n - 1, hash |-> SubSeq(c, 1, n - 1)])
<1> DEFINE head == [seq |-> n - 1, hash |-> SubSeq(c, 1, n - 1)]
           one == <<row.event>>
           d == HashAfter(one, head)
<1>1. Len(c) \in Nat /\ n \in Nat /\ n - 1 \in Nat /\ n <= Len(c) /\ n - 1 <= Len(c)
  BY DEF Hash
<1>2. \A i \in 1 .. Len(c) : c[i] \in Entry
  BY ElementOfSeq DEF Hash
<1>3. /\ head.hash \in Hash /\ Len(head.hash) = n - 1 /\ head.seq = n - 1
      /\ \A i \in 1 .. n - 1 : head.hash[i] = c[i]
  <2>1. \A i \in 1 .. n - 1 : c[i] \in Entry
    BY <1>1, <1>2
  <2> QED BY <1>1, <2>1 DEF Hash
<1>4. head \in HeadType
  BY <1>1, <1>3 DEF HeadType
<1>5. one \in Seq(Events) /\ Len(one) = 1 /\ one[1] = row.event
  BY DEF Row
<1> HIDE DEF head, one
<1>6. /\ d \in Hash /\ Len(d) = head.seq + Len(one) /\ Extends(d, head.hash)
      /\ \A k \in 1 .. Len(one) : d[head.seq + k] = [event |-> one[k], seq |-> head.seq + k]
  BY <1>3, <1>4, <1>5, HashAfterExtends
<1> HIDE DEF d
<1>7. Len(d) = n /\ \A i \in 1 .. n - 1 : d[i] = c[i]
  BY <1>1, <1>3, <1>5, <1>6 DEF Extends
<1>8. d[n] = [event |-> row.event, seq |-> n]
  <2>1. 1 \in 1 .. Len(one) /\ head.seq + 1 = n
    BY <1>1, <1>3, <1>5
  <2>2. d[head.seq + 1] = [event |-> one[1], seq |-> head.seq + 1]
    BY <1>6, <2>1
  <2> QED BY <1>5, <2>1, <2>2
<1>9. d[n] = c[n]
  BY <1>8 DEF OnChain
<1>10. Extends(c, d)
  <2>1. \A i \in 1 .. n : c[i] = d[i]
    BY <1>1, <1>7, <1>9
  <2> QED BY <1>1, <1>7, <2>1 DEF Extends
<1>11. SubSeq(c, 1, n) = SubSeq(d, 1, n)
  BY <1>1, <1>6, <1>7, <1>10, SameFront
<1>12. SubSeq(d, 1, n) = d
  BY <1>6, <1>7, SubSeqFull DEF Hash
<1> QED BY <1>11, <1>12 DEF OnChain, d, one, head

\* What verify() knows of a row of a page.
LEMMA PageOnChain ==
    ASSUME IInv, verifier \in VerifierType, NEW s \in Streams, s = verifier.stream, NEW n \in DOMAIN Page
    PROVE  /\ n \in DOMAIN audits[s] /\ n \in 1 .. Len(Chain(s)) /\ verifier.prev.seq < n
           /\ OnChain(n, Page[n], Chain(s)) /\ Page[n].hash = SubSeq(Chain(s), 1, n)
<1> USE DEF IInv
<1>1. n \in Rest /\ n \in 1 .. Len(Chain(s)) /\ Page[n] = audits[s][n]
  BY PageIsFront
<1>2. n \in DOMAIN audits[s] /\ verifier.prev.seq < n
  BY <1>1 DEF Rest
<1>3. OnChain(n, Page[n], Chain(s))
  BY <1>1, <1>2 DEF ChainInv
<1> QED BY <1>1, <1>2, <1>3 DEF OnChain

\* A page that is read by a verification which goes on from the chain is valid.
LEMMA PageGoesOn ==
    ASSUME IInv, verifier \in VerifierType, GoesOnFrom(verifier.stream, verifier.prev)
    PROVE  PageIsValid(Page, verifier.prev)
<1> USE DEF IInv
<1>1. PICK s \in Streams : s = verifier.stream
  BY DEF VerifierType
<1>2. PICK prev \in HeadType : prev = verifier.prev
  BY DEF VerifierType
<1>3. /\ prev.seq \in Nat /\ prev.seq <= Len(Chain(s)) /\ prev.hash = SubSeq(Chain(s), 1, prev.seq)
      /\ DOMAIN audits[s] # {} => First(audits[s]) <= prev.seq + 1
  BY <1>1, <1>2 DEF GoesOnFrom, HeadType
<1>4. Chain(s) \in Hash /\ Len(Chain(s)) \in Nat
  BY ChainFacts
<1> SUFFICES ASSUME NEW n \in DOMAIN Page
             PROVE  LET m == n - 1
                        before == IF m \in DOMAIN Page THEN Page[m].hash ELSE prev.hash
                    IN  /\ m \in DOMAIN Page \cup {prev.seq}
                        /\ Page[n].hash = HashAfter(<<Page[n].event>>, [seq |-> m, hash |-> before])
  BY <1>2 DEF PageIsValid
<1> DEFINE m == n - 1
           before == IF m \in DOMAIN Page THEN Page[m].hash ELSE prev.hash
<1>5. /\ n \in DOMAIN audits[s] /\ n \in 1 .. Len(Chain(s)) /\ prev.seq < n
      /\ OnChain(n, Page[n], Chain(s))
  BY <1>1, <1>2, PageOnChain
<1>6. m \in Nat /\ prev.seq <= m /\ m <= Len(Chain(s)) /\ m < n
  BY <1>3, <1>4, <1>5
<1>7. m \in DOMAIN Page \cup {prev.seq}
  <2>1. CASE m = prev.seq
    BY <2>1
  <2>2. CASE m # prev.seq
    <3>1. prev.seq < m
      BY <1>3, <1>6, <2>2
    <3>2. DOMAIN audits[s] # {} /\ First(audits[s]) \in 1 .. Len(Chain(s))
          /\ DOMAIN audits[s] = First(audits[s]) .. Len(Chain(s))
      BY <1>5, ChainFacts
    <3>3. First(audits[s]) <= m
      BY <1>3, <1>4, <1>6, <3>1, <3>2
    <3>4. m \in DOMAIN audits[s]
      BY <1>4, <1>6, <3>2, <3>3
    <3>5. n \in Rest /\ (verifier.to = 0 \/ n <= verifier.to) /\ verifier.to \in Nat
      BY PageIsFront DEF Rest, VerifierType
    <3>6. m \in Rest
      BY <1>1, <1>2, <1>5, <1>6, <3>1, <3>4, <3>5 DEF Rest
    <3> QED BY <1>6, <3>6, PageIsFront
  <2> QED BY <2>1, <2>2
<1>8. before = SubSeq(Chain(s), 1, m)
  <2>1. CASE m \in DOMAIN Page
    BY <1>1, <2>1, PageOnChain
  <2>2. CASE m \notin DOMAIN Page
    BY <1>3, <1>7, <2>2
  <2> QED BY <2>1, <2>2
<1>9. Page[n].hash = HashAfter(<<Page[n].event>>, [seq |-> m, hash |-> before])
  <2>1. Page[n] \in Row
    BY PageIsFront, RowsType
  <2>2. Page[n].hash = HashAfter(<<Page[n].event>>, [seq |-> n - 1, hash |-> SubSeq(Chain(s), 1, n - 1)])
    BY <1>4, <1>5, <2>1, HashOfNext
  <2> QED BY <1>8, <2>2
<1> QED BY <1>7, <1>9

\* Where a valid page leaves the verification.
LEMMA PageHead ==
    ASSUME IInv, verifier \in VerifierType, DOMAIN Page # {}
    PROVE  /\ HeadOf(Page) \in HeadType /\ HeadOf(Page).seq \in DOMAIN Page
           /\ HeadOf(Page).hash = Page[HeadOf(Page).seq].hash
           /\ \A n \in DOMAIN Page : n <= HeadOf(Page).seq
<1> USE DEF IInv
<1>1. PICK s \in Streams : s = verifier.stream
  BY DEF VerifierType
<1>2. Len(Chain(s)) \in Nat /\ Page \in Rows /\ \A n \in DOMAIN Page : n <= Len(Chain(s))
  BY <1>1, ChainFacts, PageIsFront
<1>3. /\ Last(Page) \in DOMAIN Page /\ \A n \in DOMAIN Page : n <= Last(Page)
      /\ HeadOf(Page) = [seq |-> Last(Page), hash |-> Page[Last(Page)].hash]
      /\ HeadOf(Page) \in HeadType
  BY <1>2, HeadOfRows
<1> QED BY <1>3

LEMMA PageHeadGoesOn ==
    ASSUME IInv, verifier \in VerifierType, DOMAIN Page # {}
    PROVE  GoesOnFrom(verifier.stream, HeadOf(Page))
<1> USE DEF IInv
<1>1. PICK s \in Streams : s = verifier.stream
  BY DEF VerifierType
<1>2. PICK m \in DOMAIN Page : m = HeadOf(Page).seq /\ HeadOf(Page).hash = Page[m].hash
  BY PageHead
<1>3. m \in DOMAIN audits[s] /\ m \in 1 .. Len(Chain(s)) /\ Page[m].hash = SubSeq(Chain(s), 1, m)
  BY <1>1, PageOnChain
<1>4. Len(Chain(s)) \in Nat /\ First(audits[s]) \in 1 .. Len(Chain(s))
      /\ DOMAIN audits[s] = First(audits[s]) .. Len(Chain(s))
  BY <1>3, ChainFacts
<1>5. m <= Len(Chain(s)) /\ First(audits[s]) <= m + 1
  BY <1>3, <1>4
<1> QED BY <1>1, <1>2, <1>3, <1>5 DEF GoesOnFrom

\* Nothing live is left out when nothing after the last row is still to be read.
LEMMA NothingLeft ==
    ASSUME IInv, VerifierOk, verifier \in VerifierType, NEW last \in Nat,
           verifier.prev.seq <= last, \A n \in Rest : n <= last, last < verifier.due
    PROVE  \A n \in DOMAIN audits[verifier.stream] : verifier.due < n
<1> USE DEF IInv
<1>1. PICK s \in Streams : s = verifier.stream
  BY DEF VerifierType
<1>2. verifier.prev.seq \in Nat /\ verifier.due \in Nat /\ verifier.to \in Nat /\ verifier # IdleVerifier
  BY DEF VerifierType, HeadType, IdleVerifier
<1>3. verifier.due <= Len(Chain(s)) /\ (verifier.to # 0 => verifier.due <= verifier.to)
  BY <1>1, <1>2 DEF VerifierOk, VerificationOk
<1> SUFFICES ASSUME NEW n \in DOMAIN audits[s], ~(verifier.due < n) PROVE FALSE
  BY <1>1
<1>4. /\ First(audits[s]) \in 1 .. Len(Chain(s)) /\ Len(Chain(s)) \in Nat
      /\ DOMAIN audits[s] = First(audits[s]) .. Len(Chain(s))
  BY ChainFacts
<1> DEFINE m == IF last < n THEN n ELSE last + 1
<1>5. n \in Nat /\ First(audits[s]) <= n /\ n <= verifier.due
  BY <1>2, <1>4
<1>6. m \in Nat /\ First(audits[s]) <= m /\ m <= verifier.due /\ last < m
  BY <1>2, <1>4, <1>5
<1> HIDE DEF m
<1>7. m \in DOMAIN audits[s] /\ verifier.prev.seq < m /\ (verifier.to = 0 \/ m <= verifier.to)
  BY <1>2, <1>3, <1>4, <1>6
<1>8. m \in Rest
  BY <1>1, <1>7 DEF Rest
<1> QED BY <1>6, <1>8

LEMMA GoesOnFromRow ==
    ASSUME NEW s, NEW m, NEW hash, NEW head, head = [seq |-> m, hash |-> hash],
           m <= Len(Chain(s)), hash = SubSeq(Chain(s), 1, m),
           DOMAIN audits[s] # {} => First(audits[s]) <= m + 1
    PROVE  GoesOnFrom(s, head)
BY DEF GoesOnFrom

-----------------------------------------------------------------------------
(* The steps of verify(). *)

LEMMA VerifyInitInv == VerifyInit => VerifierInv
<1> SUFFICES ASSUME VerifyInit PROVE VerifierInv
  OBVIOUS
<1>1. IInv
  BY InitInv DEF VerifyInit
<1>2. CheckpointInv
  <2>1. \A s \in Streams : DOMAIN audits[s] = {}
    BY NoRowsType DEF VerifyInit, Init
  <2> QED BY <2>1 DEF CheckpointInv
<1>3. VerifierOk /\ ReportOk
  BY DEF VerifyInit, VerifierOk, ReportOk, NoReport
<1> QED BY <1>1, <1>2, <1>3 DEF VerifierInv

\* What the steps of the store keep, and those that leave it alone.
LEMMA StoreKept ==
    ASSUME Prompt, VerifierInv, [Next]_vars
    PROVE  IInv' /\ CheckpointInv' /\ (UNCHANGED report => ReportOk')
<1>1. IInv' /\ CheckpointInv'
  BY NextInv, CheckpointKept DEF VerifierInv
<1>2. ASSUME UNCHANGED report PROVE ReportOk'
  <2>1. ReportOk /\ IInv
    BY DEF VerifierInv
  <2>2. CASE report.valid /\ report.last < report.due
    <3>1. PICK s \in Streams, due \in Nat :
            /\ s = report.stream /\ due = report.due
            /\ due <= Len(Chain(s)) /\ \A n \in DOMAIN audits[s] : due < n
      BY <2>1, <2>2 DEF ReportOk
    <3>2. /\ Grown
          /\ DOMAIN audits'[s] \subseteq DOMAIN audits[s] \cup (Len(Chain(s)) + 1 .. Len(Chain(s)'))
      BY <2>1, LiveRows
    <3>3. Len(Chain(s)) \in Nat /\ Len(Chain(s)') \in Nat /\ Len(Chain(s)) <= Len(Chain(s)')
      BY <3>2, GrownFacts
    <3>4. due <= Len(Chain(s)') /\ \A n \in DOMAIN audits'[s] : due < n
      BY <3>1, <3>2, <3>3
    <3> QED BY <1>2, <2>1, <3>1, <3>4 DEF ReportOk
  <2>3. CASE ~(report.valid /\ report.last < report.due)
    BY <1>2, <2>1, <2>3 DEF ReportOk
  <2> QED BY <2>2, <2>3
<1> QED BY <1>1, <1>2

\* A step of verify() that goes on.
LEMMA VerificationGoesOn ==
    ASSUME Prompt, VerifierInv, UNCHANGED <<vars, report>>, VerificationOk(verifier')
    PROVE  VerifierInv'
<1>1. [Next]_vars /\ audits' = audits
  BY DEF vars, tables
<1>2. IInv' /\ CheckpointInv' /\ ReportOk'
  BY <1>1, StoreKept
<1>3. VerificationOk(verifier)'
  BY <1>1 DEF VerificationOk, Undisturbed, GoesOnFrom, Chain
<1> QED BY <1>2, <1>3 DEF VerifierInv, VerifierOk

\* One that ends.
LEMMA VerificationEnds ==
    ASSUME Prompt, VerifierInv, UNCHANGED vars, NEW valid \in BOOLEAN, NEW last, Ends(valid, last),
           ~valid => verifier.disturbed, verifier \in VerifierType,
           valid /\ last < verifier.due =>
              \A n \in DOMAIN audits[verifier.stream] : verifier.due < n
    PROVE  VerifierInv'
<1>1. [Next]_vars /\ audits' = audits
  BY DEF vars, tables
<1>2. IInv' /\ CheckpointInv'
  BY <1>1, StoreKept
<1>3. VerifierOk'
  BY DEF VerifierOk, Ends
<1>4. verifier # IdleVerifier
  BY DEF VerifierType, IdleVerifier
<1>5. /\ verifier.stream \in Streams /\ verifier.due \in Nat
      /\ verifier.due <= Len(Chain(verifier.stream))
  BY <1>4 DEF VerifierInv, VerifierOk, VerificationOk, VerifierType
<1>6. report' = [valid |-> valid, stream |-> verifier.stream, last |-> last,
                 due |-> verifier.due, disturbed |-> verifier.disturbed]
  BY DEF Ends
<1>7. ReportOk'
  BY <1>1, <1>5, <1>6 DEF ReportOk, Chain
<1> QED BY <1>2, <1>3, <1>7 DEF VerifierInv

LEMMA VerifyInv ==
    ASSUME Prompt, VerifierInv, NEW s \in Streams, NEW range \in Ranges, Verify(s, range)
    PROVE  VerifierInv'
<1> USE DEF IInv
<1>1. IInv /\ UNCHANGED <<vars, report>> /\ range.from \in Nat /\ range.to \in Nat
  BY RangesAssumption DEF VerifierInv, Verify
<1> DEFINE before == {n \in DOMAIN audits[s] : n < range.from}
           rows == Only(audits[s], before)
           head == HeadOf(audits[s]).seq
           v == [phase |-> IF before = {} THEN "first" ELSE "paging",
                 stream |-> s, to |-> range.to, first |-> 0, prev |-> HeadOf(rows),
                 due |-> IF range.to = 0 \/ head < range.to THEN head ELSE range.to,
                 disturbed |-> FALSE]
<1>2. verifier' = v
  BY DEF Verify
<1>3. audits[s] \in Rows /\ Len(Chain(s)) \in Nat /\ head = Len(Chain(s))
      /\ DOMAIN audits[s] \subseteq 1 .. Len(Chain(s))
  BY <1>1, ChainFacts DEF TypeOK
<1>4. rows \in Rows /\ DOMAIN rows = before /\ \A n \in before : rows[n] = audits[s][n]
  <2>1. before \in SUBSET Nat /\ before \subseteq DOMAIN audits[s]
    BY <1>3
  <2> HIDE DEF before
  <2> QED BY <1>3, <2>1, OnlyType
<1>5. before = {} => HeadOf(rows) = NoHead
  BY <1>4 DEF HeadOf
<1>6. before # {} => HeadOf(rows) \in HeadType /\ GoesOnFrom(s, HeadOf(rows))
  <2> SUFFICES ASSUME before # {} PROVE HeadOf(rows) \in HeadType /\ GoesOnFrom(s, HeadOf(rows))
    OBVIOUS
  <2>1. \A n \in DOMAIN rows : n <= Len(Chain(s))
    BY <1>3, <1>4
  <2>2. DOMAIN rows # {}
    BY <1>4
  <2> HIDE DEF rows, before
  <2>3. PICK m \in DOMAIN rows : HeadOf(rows) = [seq |-> m, hash |-> rows[m].hash] /\ HeadOf(rows) \in HeadType
    BY <1>3, <1>4, <2>1, <2>2, HeadOfRows
  <2>4. m \in DOMAIN audits[s] /\ rows[m] = audits[s][m]
    BY <1>4 DEF before
  <2>5. OnChain(m, audits[s][m], Chain(s))
    BY <1>1, <2>4 DEF ChainInv
  <2>6. /\ First(audits[s]) \in 1 .. Len(Chain(s)) /\ DOMAIN audits[s] = First(audits[s]) .. Len(Chain(s))
    BY <1>1, <2>4, ChainFacts
  <2>7. m <= Len(Chain(s)) /\ First(audits[s]) <= m + 1
    BY <1>3, <2>4, <2>6
  <2>8. m <= Len(Chain(s)) /\ rows[m].hash = SubSeq(Chain(s), 1, m)
    BY <2>4, <2>5 DEF OnChain
  <2> QED BY <2>3, <2>7, <2>8, GoesOnFromRow
<1>7. v.due \in Nat /\ v.due <= Len(Chain(s)) /\ (v.to # 0 => v.due <= v.to)
  BY <1>1, <1>3
<1>8. HeadOf(rows) \in HeadType
  BY <1>5, <1>6, NoRowsType
<1> HIDE DEF before, rows, head
<1>9. v \in VerifierType
  BY <1>1, <1>7, <1>8 DEF VerifierType
<1>10. Undisturbed(v)
  BY <1>5, <1>6 DEF Undisturbed
<1>11. VerificationOk(v)
  BY <1>7, <1>9, <1>10 DEF VerificationOk
<1> QED BY <1>1, <1>2, <1>11, VerificationGoesOn

LEMMA ReadFirstInv ==
    ASSUME Prompt, VerifierInv, ReadFirst
    PROVE  VerifierInv'
<1> USE DEF IInv
<1>1. IInv /\ UNCHANGED <<vars, report>> /\ verifier.phase = "first"
  BY DEF VerifierInv, ReadFirst
<1>2. VerificationOk(verifier)
  BY <1>1 DEF VerifierInv, VerifierOk, IdleVerifier
<1>3. PICK v \in VerifierType : v = verifier
  BY <1>2 DEF VerificationOk
<1> DEFINE s == v.stream
           rows == audits[s]
<1>4. s \in Streams /\ v.phase = "first" /\ v.due <= Len(Chain(s)) /\ (v.to # 0 => v.due <= v.to)
      /\ (~v.disturbed => v.prev = NoHead)
  BY <1>1, <1>2, <1>3 DEF VerificationOk, VerifierType, Undisturbed
<1>5. CASE DOMAIN rows = {}
  <2>1. verifier' = [v EXCEPT !.phase = "paging"]
    BY <1>3, <1>5 DEF ReadFirst
  <2>2. GoesOnFrom(s, NoHead)
    <3>1. Chain(s) = <<>> /\ Len(Chain(s)) = 0
      BY <1>1, <1>4, <1>5, ChainFacts
    <3>2. SubSeq(Chain(s), 1, 0) = <<>>
      BY <3>1
    <3> QED BY <1>5, <3>1, <3>2 DEF GoesOnFrom, NoHead, GENESIS
  <2>3. VerificationOk([v EXCEPT !.phase = "paging"])
    BY <1>4, <2>2 DEF VerificationOk, VerifierType, Undisturbed
  <2> QED BY <1>1, <2>1, <2>3, VerificationGoesOn
<1>6. CASE DOMAIN rows # {}
  <2>1. verifier' = [v EXCEPT !.phase = "checkpoint", !.first = First(rows)]
    BY <1>3, <1>6 DEF ReadFirst
  <2>2. First(rows) \in Nat
    <3>1. First(rows) \in 1 .. Len(Chain(s))
      BY <1>1, <1>4, <1>6, ChainFacts
    <3> QED BY <3>1
  <2> DEFINE u == [v EXCEPT !.phase = "checkpoint", !.first = First(rows)]
  <2>3. u \in VerifierType
    BY <2>2 DEF VerifierType
  <2>4. /\ u.stream = s /\ u.due = v.due /\ u.to = v.to /\ u.phase = "checkpoint"
        /\ u.first = First(rows)
    BY DEF VerifierType
  <2> HIDE DEF u
  <2>5. Undisturbed(u)
    BY <1>6, <2>4 DEF Undisturbed
  <2>6. VerificationOk(u)
    BY <1>4, <2>3, <2>4, <2>5 DEF VerificationOk
  <2> QED BY <1>1, <2>1, <2>6, VerificationGoesOn DEF u
<1> QED BY <1>5, <1>6

LEMMA ReadCheckpointInv ==
    ASSUME Prompt, VerifierInv, ReadCheckpoint
    PROVE  VerifierInv'
<1> USE DEF IInv
<1>1. IInv /\ CheckpointInv /\ UNCHANGED <<vars, report>> /\ verifier.phase = "checkpoint"
  BY DEF VerifierInv, ReadCheckpoint
<1>2. VerificationOk(verifier)
  BY <1>1 DEF VerifierInv, VerifierOk, IdleVerifier
<1>3. PICK v \in VerifierType : v = verifier
  BY <1>2 DEF VerificationOk
<1> DEFINE s == v.stream
           before == {n \in DOMAIN checkpoints[s] : n < v.first}
           rows == Only(checkpoints[s], before)
           u == [v EXCEPT !.phase = "paging", !.prev = HeadOf(rows)]
<1>4. s \in Streams /\ v.phase = "checkpoint" /\ v.due <= Len(Chain(s)) /\ (v.to # 0 => v.due <= v.to)
      /\ (~v.disturbed => DOMAIN audits[s] # {} /\ v.first = First(audits[s])) /\ v.first \in Nat
  BY <1>1, <1>2, <1>3 DEF VerificationOk, VerifierType, Undisturbed
<1>5. verifier' = u
  BY <1>3 DEF ReadCheckpoint
<1>6. checkpoints[s] \in Rows /\ Len(Chain(s)) \in Nat
      /\ \A n \in DOMAIN checkpoints[s] :
            1 <= n /\ n \notin DOMAIN audits[s] /\ OnChain(n, checkpoints[s][n], Chain(s))
  BY <1>1, <1>4, ChainFacts DEF TypeOK, ChainInv
<1>7. rows \in Rows /\ DOMAIN rows = before /\ \A n \in before : rows[n] = checkpoints[s][n]
  <2>1. before \in SUBSET Nat /\ before \subseteq DOMAIN checkpoints[s]
    BY <1>6, RowsType
  <2> HIDE DEF before
  <2> QED BY <1>6, <2>1, OnlyType
<1>8. before = {} => HeadOf(rows) = NoHead
  BY <1>7 DEF HeadOf
<1>9. ASSUME before # {}
      PROVE  /\ HeadOf(rows) \in HeadType
             /\ \E m \in before : /\ \A n \in before : n <= m
                                  /\ HeadOf(rows) = [seq |-> m, hash |-> rows[m].hash]
  <2>0. DOMAIN checkpoints[s] \in SUBSET Nat
    BY <1>6, RowsType
  <2>1. \A n \in DOMAIN rows : n <= v.first
    BY <1>4, <1>7, <2>0
  <2>2. DOMAIN rows # {}
    BY <1>7, <1>9
  <2> HIDE DEF rows, before
  <2> QED BY <1>4, <1>7, <2>1, <2>2, HeadOfRows
<1>10. HeadOf(rows) \in HeadType
  BY <1>8, <1>9, NoRowsType
<1>11. ASSUME ~v.disturbed PROVE GoesOnFrom(s, HeadOf(rows))
  <2> DEFINE f == First(audits[s])
  <2>1. /\ DOMAIN audits[s] # {} /\ v.first = f /\ f \in 1 .. Len(Chain(s))
        /\ DOMAIN audits[s] = f .. Len(Chain(s))
    BY <1>1, <1>4, <1>11, ChainFacts
  <2>2. CASE f = 1
    <3>1. before = {}
      BY <1>4, <1>6, <2>1, <2>2, RowsType
    <3>2. Chain(s) \in Hash
      BY <1>1, <1>4, ChainFacts
    <3>3. SubSeq(Chain(s), 1, 0) = <<>>
      BY <3>2 DEF Hash
    <3>4. 0 <= Len(Chain(s)) /\ f <= 0 + 1
      BY <1>6, <2>2
    <3>5. HeadOf(rows).seq = 0 /\ HeadOf(rows).hash = <<>>
      BY <1>8, <3>1 DEF NoHead, GENESIS
    <3> HIDE DEF rows, before
    <3> QED BY <3>3, <3>4, <3>5 DEF GoesOnFrom
  <2>3. CASE f # 1
    <3>1. f - 1 \in DOMAIN checkpoints[s]
      BY <1>1, <1>4, <2>1, <2>3 DEF CheckpointInv
    <3>2. f - 1 \in before /\ f \in Nat
      BY <2>1, <3>1
    <3>3. PICK m \in before : /\ \A n \in before : n <= m
                              /\ HeadOf(rows) = [seq |-> m, hash |-> rows[m].hash]
      BY <1>9, <3>2
    <3>4. m \in Nat /\ m < f /\ m \in DOMAIN checkpoints[s] /\ f - 1 <= m
      BY <1>6, <2>1, <3>2, <3>3, RowsType
    <3>5. OnChain(m, rows[m], Chain(s))
      BY <1>6, <1>7, <3>3, <3>4
    <3>6. f <= m + 1
      BY <3>2, <3>4
    <3>7. m <= Len(Chain(s)) /\ rows[m].hash = SubSeq(Chain(s), 1, m)
      BY <3>5 DEF OnChain
    <3> HIDE DEF rows, before
    <3> QED BY <3>3, <3>6, <3>7, GoesOnFromRow
  <2> QED BY <2>2, <2>3
<1> HIDE DEF rows, before
<1>12. /\ u \in VerifierType /\ u.stream = s /\ u.due = v.due /\ u.to = v.to /\ u.phase = "paging"
       /\ u.prev = HeadOf(rows) /\ u.disturbed = v.disturbed
  BY <1>10 DEF VerifierType
<1> HIDE DEF u
<1>13. ~u.disturbed => Undisturbed(u)
  BY <1>11, <1>12 DEF Undisturbed
<1>14. VerificationOk(u)
  BY <1>4, <1>12, <1>13 DEF VerificationOk
<1> QED BY <1>1, <1>5, <1>14, VerificationGoesOn

LEMMA ReadPageInv ==
    ASSUME Prompt, VerifierInv, ReadPage
    PROVE  VerifierInv'
<1> USE DEF IInv
<1>1. IInv /\ UNCHANGED vars /\ verifier.phase = "paging" /\ VerifierOk
  BY DEF VerifierInv, ReadPage
<1>2. VerificationOk(verifier)
  BY <1>1 DEF VerifierOk, IdleVerifier
<1>3. /\ verifier \in VerifierType /\ verifier.prev.seq \in Nat
      /\ (~verifier.disturbed => GoesOnFrom(verifier.stream, verifier.prev))
  BY <1>1, <1>2 DEF VerificationOk, VerifierType, HeadType, Undisturbed
<1>4. Rest \in SUBSET Nat /\ DOMAIN Page \subseteq Rest /\ \A n \in Rest : verifier.prev.seq < n
  BY <1>1, <1>3, PageIsFront DEF Rest
<1> DEFINE last == HeadOf(Page).seq
           full == Cardinality(DOMAIN Page) = PageSize
<1>5. CASE DOMAIN Page = {} /\ Ends(TRUE, verifier.prev.seq)
  <2>1. Cardinality(DOMAIN Page) # PageSize
    BY <1>5, FS_EmptySet, RangesAssumption
  <2>2. Rest = {}
    BY <1>1, <1>3, <1>5, <2>1, PageIsAll
  <2>3. verifier.prev.seq < verifier.due =>
           \A n \in DOMAIN audits[verifier.stream] : verifier.due < n
    BY <1>1, <1>3, <2>2, NothingLeft
  <2> QED BY <1>1, <1>3, <1>5, <2>3, VerificationEnds
<1>6. CASE DOMAIN Page # {} /\ ~PageIsValid(Page, verifier.prev) /\ Ends(FALSE, last)
  <2>1. verifier.disturbed
    BY <1>1, <1>3, <1>6, PageGoesOn
  <2> QED BY <1>1, <1>3, <1>6, <2>1, VerificationEnds
<1>7. CASE DOMAIN Page # {} /\ PageIsValid(Page, verifier.prev) /\ ~full /\ Ends(TRUE, last)
  <2>1. DOMAIN Page = Rest
    BY <1>1, <1>3, <1>7, PageIsAll
  <2>2. last \in Rest /\ \A n \in Rest : n <= last
    BY <1>1, <1>3, <1>7, <2>1, PageHead
  <2> HIDE DEF last
  <2>3. last \in Nat /\ verifier.prev.seq <= last
    <3>1. last \in Nat /\ verifier.prev.seq < last
      BY <1>4, <2>2
    <3> QED BY <1>3, <3>1
  <2>4. last < verifier.due => \A n \in DOMAIN audits[verifier.stream] : verifier.due < n
    BY <1>1, <1>3, <2>2, <2>3, NothingLeft
  <2> QED BY <1>1, <1>3, <1>7, <2>4, VerificationEnds
<1>8. CASE /\ PageIsValid(Page, verifier.prev) /\ full
           /\ verifier' = [verifier EXCEPT !.prev = HeadOf(Page)] /\ UNCHANGED report
  <2>1. DOMAIN Page # {}
    BY <1>8, FS_EmptySet, RangesAssumption
  <2>2. HeadOf(Page) \in HeadType /\ GoesOnFrom(verifier.stream, HeadOf(Page))
    BY <1>1, <1>3, <2>1, PageHead, PageHeadGoesOn
  <2> DEFINE u == [verifier EXCEPT !.prev = HeadOf(Page)]
  <2>3. /\ u \in VerifierType /\ u.stream = verifier.stream /\ u.due = verifier.due
        /\ u.to = verifier.to /\ u.phase = "paging" /\ u.prev = HeadOf(Page)
    BY <1>1, <1>3, <2>2 DEF VerifierType
  <2> HIDE DEF u
  <2>4. Undisturbed(u)
    BY <2>2, <2>3 DEF Undisturbed
  <2>5. VerificationOk(u)
    BY <1>2, <2>3, <2>4 DEF VerificationOk
  <2> QED BY <1>1, <1>8, <2>5, VerificationGoesOn DEF u
<1> QED BY <1>5, <1>6, <1>7, <1>8 DEF ReadPage

LEMMA StoreStepInv ==
    ASSUME Prompt, VerifierInv, StoreStep
    PROVE  VerifierInv'
<1> USE DEF IInv
<1>1. IInv /\ [Next]_vars /\ UNCHANGED report
  BY DEF VerifierInv, StoreStep
<1>2. IInv' /\ CheckpointInv' /\ ReportOk'
  BY <1>1, StoreKept
<1> DEFINE u == IF verifier.phase # "idle" /\ checkpoints' # checkpoints
                THEN [verifier EXCEPT !.disturbed = TRUE] ELSE verifier
<1>3. verifier' = u
  BY DEF StoreStep
<1>4. CASE verifier = IdleVerifier
  BY <1>2, <1>3, <1>4 DEF VerifierInv, VerifierOk, IdleVerifier
<1>5. CASE verifier # IdleVerifier
  <2>1. VerificationOk(verifier)
    BY <1>5 DEF VerifierInv, VerifierOk
  <2>2. PICK v \in VerifierType : v = verifier
    BY <2>1 DEF VerificationOk
  <2> DEFINE s == v.stream
  <2>3. s \in Streams /\ v.due \in Nat /\ v.due <= Len(Chain(s)) /\ (v.to # 0 => v.due <= v.to)
        /\ v.phase # "idle"
    BY <2>1, <2>2 DEF VerificationOk, VerifierType
  <2>4. /\ u \in VerifierType /\ u.stream = s /\ u.due = v.due /\ u.to = v.to /\ u.phase = v.phase
        /\ u.first = v.first /\ u.prev = v.prev
        /\ (~u.disturbed => ~v.disturbed /\ checkpoints' = checkpoints)
    BY <2>2, <2>3 DEF VerifierType
  <2> HIDE DEF u
  <2>5. Grown /\ (checkpoints' = checkpoints =>
                    DOMAIN audits'[s] = DOMAIN audits[s] \cup (Len(Chain(s)) + 1 .. Len(Chain(s)')))
    BY <1>1, <2>3, LiveRows
  <2>6. /\ Len(Chain(s)) \in Nat /\ Len(Chain(s)') \in Nat /\ Len(Chain(s)) <= Len(Chain(s)')
        /\ \A n \in 0 .. Len(Chain(s)) : SubSeq(Chain(s)', 1, n) = SubSeq(Chain(s), 1, n)
    BY <2>3, <2>5, GrownFacts
  <2>7. u.due <= Len(Chain(s)')
    BY <2>3, <2>4, <2>6
  <2>8. ASSUME ~u.disturbed PROVE Undisturbed(verifier)'
    <3>1. checkpoints' = checkpoints /\ Undisturbed(v) /\ verifier' = u
      BY <1>3, <2>1, <2>2, <2>4, <2>8 DEF VerificationOk
    <3>2. DOMAIN audits'[s] = DOMAIN audits[s] \cup (Len(Chain(s)) + 1 .. Len(Chain(s)'))
      BY <2>5, <3>1
    <3>3. DOMAIN audits[s] # {} => DOMAIN audits'[s] # {} /\ First(audits'[s]) = First(audits[s])
      <4> SUFFICES ASSUME DOMAIN audits[s] # {}
                   PROVE  DOMAIN audits'[s] # {} /\ First(audits'[s]) = First(audits[s])
        OBVIOUS
      <4>1. PICK f \in 1 .. Len(Chain(s)) : f = First(audits[s]) /\ DOMAIN audits[s] = f .. Len(Chain(s))
        BY <1>1, <2>3, ChainFacts
      <4>2. DOMAIN audits'[s] = (f .. Len(Chain(s))) \cup (Len(Chain(s)) + 1 .. Len(Chain(s)'))
        BY <3>2, <4>1
      <4>3. DOMAIN audits'[s] = f .. Len(Chain(s)') /\ f \in Nat /\ f <= Len(Chain(s)')
        BY <2>6, <4>2
      <4>4. First(audits'[s]) = f /\ DOMAIN audits'[s] # {}
        BY <2>6, <4>3, HeadOfInterval
      <4> QED BY <4>1, <4>4
    <3>4. CASE v.phase = "first"
      BY <2>4, <3>1, <3>4 DEF Undisturbed
    <3>5. CASE v.phase = "checkpoint"
      BY <2>4, <3>1, <3>3, <3>5 DEF Undisturbed
    <3>6. CASE v.phase = "paging"
      <4>1. GoesOnFrom(s, v.prev) /\ v.prev.seq \in Nat
        BY <3>1, <3>6 DEF Undisturbed, VerifierType, HeadType
      <4>2. v.prev.seq <= Len(Chain(s)') /\ v.prev.hash = SubSeq(Chain(s)', 1, v.prev.seq)
        <5>1. v.prev.seq \in 0 .. Len(Chain(s))
          BY <2>6, <4>1 DEF GoesOnFrom
        <5> QED BY <2>6, <4>1, <5>1 DEF GoesOnFrom
      <4>3. DOMAIN audits'[s] # {} => First(audits'[s]) <= v.prev.seq + 1
        <5>1. CASE DOMAIN audits[s] # {}
          BY <3>3, <4>1, <5>1 DEF GoesOnFrom
        <5>2. CASE DOMAIN audits[s] = {}
          <6> SUFFICES ASSUME DOMAIN audits'[s] # {} PROVE First(audits'[s]) <= v.prev.seq + 1
            OBVIOUS
          <6>1. Len(Chain(s)) = 0
            BY <1>1, <2>3, <5>2, ChainFacts
          <6>2. DOMAIN audits'[s] = 1 .. Len(Chain(s)') /\ 1 \in Nat
            BY <3>2, <5>2, <6>1
          <6>3. 1 <= Len(Chain(s)')
            BY <2>6, <6>2
          <6>4. First(audits'[s]) = 1
            BY <2>6, <6>2, <6>3, HeadOfInterval
          <6> QED BY <4>1, <6>4
        <5> QED BY <5>1, <5>2
      <4> QED BY <2>4, <3>1, <3>6, <4>2, <4>3 DEF Undisturbed, GoesOnFrom
    <3> QED BY <3>4, <3>5, <3>6 DEF VerifierType
  <2>9. VerificationOk(verifier)'
    BY <1>3, <2>3, <2>4, <2>7, <2>8 DEF VerificationOk
  <2> QED BY <1>2, <2>9 DEF VerifierInv, VerifierOk
<1> QED BY <1>4, <1>5

-----------------------------------------------------------------------------
(* The theorem. *)

LEMMA VerifyNextInv ==
    ASSUME Prompt, VerifierInv, [VerifyNext]_verifyVars
    PROVE  VerifierInv'
<1>1. CASE UNCHANGED verifyVars
  <2>1. [Next]_vars /\ UNCHANGED <<vars, report, verifier>>
    BY <1>1 DEF verifyVars
  <2>2. IInv' /\ CheckpointInv' /\ ReportOk'
    BY <2>1, StoreKept
  <2>3. VerifierOk'
    <3>1. audits' = audits
      BY <2>1 DEF vars, tables
    <3> QED BY <2>1, <3>1 DEF VerifierInv, VerifierOk, VerificationOk, Undisturbed, GoesOnFrom, Chain
  <2> QED BY <2>2, <2>3 DEF VerifierInv
<1> QED BY <1>1, StoreStepInv, VerifyInv, ReadFirstInv, ReadCheckpointInv, ReadPageInv DEF VerifyNext

\* A report of verify() is right both ways, whatever the range, the page size, the dialect,
\* the writers, the pruners and their failures: a chain is reported broken only when a
\* prune has committed since verify() was called, and one that is reported whole was looked
\* at in every row that was live then and still is (lucid_store.ts:251-346).
THEOREM ReportsAreExact ==
    ASSUME Prompt
    PROVE  VerifySpec => []VerifyIsExact
<1>1. VerifierInv /\ [VerifyNext]_verifyVars => VerifierInv'
  BY VerifyNextInv
<1>2. VerifierInv => VerifyIsExact
  BY DEF VerifierInv, ReportOk, VerifyIsExact
<1> QED BY <1>1, <1>2, VerifyInitInv, PTL DEF VerifySpec

=============================================================================
