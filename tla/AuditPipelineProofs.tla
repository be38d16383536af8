------------------------- MODULE AuditPipelineProofs -------------------------
(***************************************************************************)
(* Proofs about AuditPipeline for any calls, stores, routes, capacity,     *)
(* batch size and bounds: types, the capacity of the ring, wake-ups, the   *)
(* safety of delivery without evictions, coupled requests, the counters,   *)
(* duplicate copies, a shutdown in time, and what evictions lose.          *)
(***************************************************************************)
EXTENDS AuditPipeline, WellFoundedInduction, FiniteSetTheorems, SequenceTheorems, TLAPS

-----------------------------------------------------------------------------
(* Lemmas about the operators. *)

\* A non-empty set of natural numbers has a least element.
LEMMA LeastNat ==
    ASSUME NEW S \in SUBSET Nat, S # {}
    PROVE  \E i \in S : \A j \in S : i <= j
<1> DEFINE R == OpToRel(<, Nat)
<1>1. IsWellFoundedOn(R, Nat)
  BY NatLessThanWellFounded
<1> HIDE DEF R
<1>2. \E x \in S : \A y \in S : ~ (<<y, x>> \in R)
  BY <1>1, WFMin
<1>3. \A x, y \in Nat : <<y, x>> \in R <=> y < x
  BY DEF R, OpToRel
<1>4. PICK x \in S : \A y \in S : ~ (<<y, x>> \in R)
  BY <1>2
<1>5. \A y \in S : ~ (y < x)
  BY <1>3, <1>4
<1> QED BY <1>5

\* A peek stays inside the buffer and takes something from a non-empty one.
LEMMA PeekCountProperties ==
    ASSUME NEW l \in Seq(Calls), NEW h \in Nat
    PROVE  /\ PeekCount(l, h) \in Nat
           /\ PeekCount(l, h) > 0 => h + PeekCount(l, h) <= Len(l)
           /\ h < Len(l) => PeekCount(l, h) > 0
BY MaxBatchAssumption DEF PeekCount

\* A flush record that fits the buffer l.
FlushFits(l, f) == f \in FlushType /\ (f.len > 0 => f.from + f.len <= Len(l))

\* The events of a batch are events.
LEMMA BatchInLog ==
    ASSUME NEW l \in Seq(Calls), NEW f, FlushFits(l, f), NEW i \in Batch(f)
    PROVE  i \in 1 .. Len(l) /\ l[i] \in Calls /\ Route[l[i]] \in Stores \cup {NoStore}
BY RouteAssumption DEF FlushFits, FlushType, Batch

\* The next group is the group of an event that is not written yet.
LEMMA NextStoreProperties ==
    ASSUME NEW l \in Seq(Calls), NEW f, FlushFits(l, f), Ungrouped(l, f) # {}
    PROVE  /\ NextStore(l, f) \in Stores \cup {NoStore}
           /\ BeginGroup(l, f) \in FlushType
           /\ FlushFits(l, BeginGroup(l, f))
           /\ \E i \in Ungrouped(l, f) : NextStore(l, f) = Route[l[i]]
<1> DEFINE U == Ungrouped(l, f)
<1>1. U \in SUBSET Nat
  BY DEF Ungrouped, Batch, FlushFits, FlushType
<1>2. \E i \in U : \A j \in U : i <= j
  BY <1>1, LeastNat
<1> DEFINE i == CHOOSE i \in U : \A j \in U : i <= j
<1>3. i \in U
  BY <1>2
<1>4. NextStore(l, f) = Route[l[i]]
  BY DEF NextStore
<1>5. i \in Batch(f)
  BY <1>3 DEF Ungrouped
<1>6. NextStore(l, f) \in Stores \cup {NoStore}
  BY <1>4, <1>5, BatchInLog
<1>7. BeginGroup(l, f) \in FlushType
  BY <1>6 DEF BeginGroup, FlushFits, FlushType
<1>8. FlushFits(l, BeginGroup(l, f))
  BY <1>7 DEF BeginGroup, FlushFits, FlushType
<1> QED BY <1>3, <1>4, <1>6, <1>7, <1>8

\* A flush begins with the first events of the buffer.
LEMMA FlushBatchProperties ==
    ASSUME NEW l \in Seq(Calls), NEW h \in Nat
    PROVE  LET f == FlushBatch(l, h)
           IN  /\ FlushFits(l, f)
               /\ f.phase \in {"writing", "rejected", "removed"}
               /\ f.from = h /\ f.done = {} /\ f.len = PeekCount(l, h)
<1> DEFINE g == [NoFlush EXCEPT !.from = h, !.len = PeekCount(l, h)]
<1>1. FlushFits(l, g) /\ g.from = h /\ g.done = {} /\ g.len = PeekCount(l, h) /\ g.phase = "none"
  BY PeekCountProperties DEF FlushFits, FlushType, NoFlush
<1> HIDE DEF g
<1>2. CASE \E i \in Batch(g) : Route[l[i]] = NoStore
  <2>1. FlushBatch(l, h) = [g EXCEPT !.phase = "rejected"]
    BY <1>2 DEF FlushBatch, g
  <2> QED BY <1>1, <2>1 DEF FlushFits, FlushType
<1>3. CASE ~(\E i \in Batch(g) : Route[l[i]] = NoStore) /\ g.len = 0
  <2>1. FlushBatch(l, h) = [g EXCEPT !.phase = "removed"]
    BY <1>3 DEF FlushBatch, g
  <2> QED BY <1>1, <2>1 DEF FlushFits, FlushType
<1>4. CASE ~(\E i \in Batch(g) : Route[l[i]] = NoStore) /\ g.len # 0
  <2>1. FlushBatch(l, h) = BeginGroup(l, g)
    BY <1>4 DEF FlushBatch, g
  <2>2. Ungrouped(l, g) # {}
    BY <1>1, <1>4 DEF Ungrouped, Batch, FlushFits, FlushType
  <2> QED BY <1>1, <2>1, <2>2, NextStoreProperties, ZenonT(40) DEF BeginGroup, FlushFits, FlushType
<1> QED BY <1>2, <1>3, <1>4

\* The same of a flush that is joined or begun.
LEMMA FlushProperties ==
    ASSUME NEW l \in Seq(Calls), NEW h \in Nat, FlushFits(l, flush)
    PROVE  /\ FlushFits(l, Flush(l, h))
           /\ Len(l) # h => Flush(l, h).phase # "none"
           /\ flush.phase # "none" => Flush(l, h) = flush
           /\ flush.phase = "none" => Flush(l, h) \in {flush, FlushBatch(l, h)}
BY FlushBatchProperties DEF Flush

\* Pushing an event extends the buffer and leaves the rest alone.
LEMMA PushProperties ==
    ASSUME NEW l \in Seq(Calls), NEW c \in Calls
    PROVE  /\ Append(l, c) \in Seq(Calls)
           /\ Len(Append(l, c)) = Len(l) + 1
           /\ \A i \in 1 .. Len(l) : Append(l, c)[i] = l[i]
           /\ Append(l, c)[Len(l) + 1] = c
BY AppendProperties

\* What fits the buffer fits it after a push.
LEMMA PushFits ==
    ASSUME NEW l \in Seq(Calls), NEW c \in Calls, NEW f, FlushFits(l, f)
    PROVE  FlushFits(Append(l, c), f)
BY PushProperties DEF FlushFits, FlushType

\* A set of events has a size.
LEMMA EventCount ==
    ASSUME NEW E \in SUBSET Calls
    PROVE  Cardinality(E) \in Nat
BY CallsAssumption, FS_Subset, FS_CardinalityType

-----------------------------------------------------------------------------
(* Type correctness. *)

\* The types, with a current batch that lies in the buffer.
TypeInv == TypeOK /\ FlushFits(log, flush)

\* An enqueue() step keeps the types.
LEMMA TryEnqueueType ==
    ASSUME TypeInv, NEW c \in Calls, TryEnqueue(c)
    PROVE  TypeInv'
<1> USE DEF outside, counters, shutdownVars, TypeOK
<1>1. log \in Seq(Calls) /\ head \in Nat /\ FlushFits(log, flush)
  BY DEF TypeInv
<1>2. ASSUME NEW h \in Nat, PushOrRefuse(c, h)
      PROVE  /\ log' \in Seq(Calls) /\ head' = h
             /\ call' \in [Calls -> {"idle", "waiting", "woken", "accepted", "refused"}]
             /\ FlushFits(log', flush')
  <2>1. CASE accepting /\ log' = Append(log, c) /\ head' = h
             /\ call' = [call EXCEPT ![c] = "accepted"]
             /\ flush' = IF Len(log') - h >= MaxBatch THEN Flush(log', h) ELSE flush
    <3>1. log' \in Seq(Calls)
      BY <1>1, <2>1, PushProperties
    <3>2. FlushFits(log', flush)
      BY <1>1, <2>1, PushFits
    <3>3. FlushFits(log', flush')
      BY <2>1, <3>1, <3>2, <1>2, FlushProperties
    <3> QED BY <2>1, <3>1, <3>3 DEF TypeInv
  <2>2. CASE ~accepting /\ Refuse(c) /\ head' = h /\ UNCHANGED <<log, flush>>
    BY <1>1, <2>2 DEF Refuse, TypeInv, FlushFits
  <2> QED BY <1>2, <2>1, <2>2 DEF PushOrRefuse
<1>3. CASE size >= Capacity /\ DropNew(c)
  BY <1>3 DEF TryEnqueue, DropNew, Refuse, TypeInv, FlushFits
<1>4. CASE size >= Capacity /\ DropOldest(c)
  <2>1. head + 1 \in 1 .. Len(log)
    BY <1>1, <1>4, CapacityAssumption DEF size
  <2>2. log[head + 1] \in Calls
    BY <1>1, <2>1
  <2>3. PushOrRefuse(c, head + 1) /\ head + 1 \in Nat
    BY <1>1, <1>4 DEF DropOldest
  <2>4. /\ log' \in Seq(Calls) /\ head' = head + 1
        /\ call' \in [Calls -> {"idle", "waiting", "woken", "accepted", "refused"}]
        /\ FlushFits(log', flush')
    BY <1>2, <2>3
  <2> QED BY <1>4, <2>2, <2>4 DEF TryEnqueue, DropOldest, TypeInv, FlushFits
<1>5. CASE size >= Capacity /\ Block(c)
  <2>1. CASE accepting /\ flush' = Flush(log, head) /\ call' = [call EXCEPT ![c] = "waiting"]
             /\ UNCHANGED <<log, head, dropped, announced>>
    <3>1. FlushFits(log, flush')
      BY <1>1, <2>1, FlushProperties
    <3> QED BY <1>5, <2>1, <3>1 DEF TryEnqueue, TypeInv, FlushFits
  <2>2. CASE ~accepting /\ Refuse(c) /\ UNCHANGED <<flush, log, head, dropped, announced>>
    BY <1>5, <2>2 DEF TryEnqueue, Refuse, TypeInv, FlushFits
  <2> QED BY <1>5, <2>1, <2>2 DEF Block
<1>6. CASE size < Capacity /\ PushOrRefuse(c, head) /\ UNCHANGED <<dropped, announced>>
  <2>1. /\ log' \in Seq(Calls) /\ head' = head
        /\ call' \in [Calls -> {"idle", "waiting", "woken", "accepted", "refused"}]
        /\ FlushFits(log', flush')
    BY <1>1, <1>2, <1>6
  <2> QED BY <1>6, <2>1 DEF TryEnqueue, TypeInv, FlushFits
<1> QED BY <1>3, <1>4, <1>5, <1>6 DEF TryEnqueue

\* The events of the group in hand are events.
LEMMA GroupInCalls ==
    ASSUME TypeInv
    PROVE  Group \in SUBSET Calls
BY BatchInLog DEF TypeInv, TypeOK, Group

\* A flush step keeps the types.
LEMMA FlushStepType ==
    ASSUME TypeInv, FlushStep
    PROVE  TypeInv'
<1> USE DEF outside, counters, shutdownVars, TypeOK
<1>1. /\ log \in Seq(Calls) /\ head \in Nat /\ FlushFits(log, flush)
      /\ flush \in FlushType
  BY DEF TypeInv, FlushFits
<1>2. Cardinality(Group) \in Nat /\ Group \in SUBSET Calls
  BY GroupInCalls, EventCount
<1>3. CASE WriteResolves
  <2>1. FlushFits(log', flush')
    BY <1>1, <1>3 DEF WriteResolves, FlushFits, FlushType
  <2>2. copies' \in [Calls -> Nat] /\ written' \in Nat
    BY <1>2, <1>3 DEF WriteResolves, StoreGroup, TypeInv
  <2> QED BY <1>3, <2>1, <2>2 DEF WriteResolves, TypeInv, FlushFits
<1>4. CASE WriteRejects
  <2>1. FlushFits(log', flush')
    <3>1. log' = log
      BY <1>4 DEF WriteRejects
    <3>2. CASE flush' = [flush EXCEPT !.phase = "backoff", !.attempts = @ + 1]
      <4>1. flush.attempts + 1 \in Nat
        BY <1>1 DEF FlushType
      <4> QED BY <1>1, <3>1, <3>2, <4>1 DEF FlushFits, FlushType
    <3>3. CASE flush' = [flush EXCEPT !.phase = "settled", !.ok = FALSE]
      BY <1>1, <3>1, <3>3 DEF FlushFits, FlushType
    <3>4. CASE flush' = [flush EXCEPT !.phase = "rejected"]
      BY <1>1, <3>1, <3>4 DEF FlushFits, FlushType
    <3> QED BY <1>4, <3>2, <3>3, <3>4 DEF WriteRejects
  <2>2. copies' \in [Calls -> Nat] /\ lostAcks' \in 0 .. MaxLostAcks
    BY <1>4, BoundsAssumption DEF WriteRejects, RejectedWrite, StoreGroup, TypeInv
  <2>3. dead' \subseteq Calls /\ deadLettered' \in Nat /\ dlqFailures' \in 0 .. MaxDlqFailures
    BY <1>2, <1>4, BoundsAssumption DEF WriteRejects, DeadLetter, DeadLetterThrows, TypeInv
  <2> QED BY <1>4, <2>1, <2>2, <2>3 DEF WriteRejects, TypeInv, FlushFits
<1>5. CASE BackoffEnds
  <2>1. FlushFits(log', flush')
    BY <1>1, <1>5 DEF BackoffEnds, FlushFits, FlushType
  <2> QED BY <1>5, <2>1 DEF BackoffEnds, TypeInv, FlushFits
<1>6. CASE GroupSettled
  <2> DEFINE f == [flush EXCEPT !.done = @ \cup {flush.store}]
  <2>1. FlushFits(log, f)
    BY <1>1 DEF FlushFits, FlushType
  <2>2. FlushFits(log', flush')
    <3>1. CASE Ungrouped(log, f) # {} /\ flush' = BeginGroup(log, f) /\ log' = log
      BY <1>1, <2>1, <3>1, NextStoreProperties
    <3>2. CASE flush' = [f EXCEPT !.phase = "removed"] /\ log' = log
      BY <2>1, <3>2 DEF FlushFits, FlushType
    <3> QED BY <1>6, <3>1, <3>2 DEF GroupSettled
  <2>3. wait' \in [Requests -> {"none", "pending", "resolved", "timedOut"}]
    BY <1>6 DEF GroupSettled, ResolveCoupled, TypeInv
  <2>4. coupled' \in [Calls -> Requests \cup {NoRequest}]
    BY <1>6 DEF GroupSettled, ResolveCoupled, TypeInv
  <2>5. head' \in Nat /\ call' \in [Calls -> {"idle", "waiting", "woken", "accepted", "refused"}]
    BY <1>1, <1>6 DEF GroupSettled, RemoveBuffered, WakeCapacityWaiters, TypeInv, FlushType
  <2> QED BY <1>6, <2>2, <2>3, <2>4, <2>5 DEF GroupSettled, TypeInv, FlushFits
<1>7. CASE CompleteFlush
  <2>1. FlushFits(log', flush')
    <3>1. NoFlush \in FlushType /\ NoFlush.len = 0
      BY DEF NoFlush, FlushType
    <3> QED BY <1>1, <1>7, <3>1, FlushBatchProperties DEF CompleteFlush, FlushFits
  <2>2. call' \in [Calls -> {"idle", "waiting", "woken", "accepted", "refused"}]
    BY <1>7 DEF CompleteFlush, WakeCapacityWaiters, TypeInv
  <2>3. awaited' \in {"none", "pending", "resolved", "rejected"}
    BY <1>7 DEF CompleteFlush, TypeInv
  <2> QED BY <1>7, <2>1, <2>2, <2>3 DEF CompleteFlush, TypeInv, FlushFits
<1> QED BY <1>3, <1>4, <1>5, <1>6, <1>7 DEF FlushStep

\* The parts of shutdown() that move events keep their types.
LEMMA DeadLetterRestType ==
    ASSUME TypeInv, DeadLetterRest
    PROVE  /\ head' \in Nat /\ dead' \subseteq Calls /\ deadLettered' \in Nat
           /\ dlqFailures' \in 0 .. MaxDlqFailures /\ shut' \in {"done", "rejected"}
<1> DEFINE n == PeekCount(log, head)
           rest == {log[i] : i \in (head + 1) .. (head + n)}
<1>1. log \in Seq(Calls) /\ head \in Nat /\ n \in Nat /\ (n > 0 => head + n <= Len(log))
  BY PeekCountProperties DEF TypeInv, TypeOK
<1>2. rest \in SUBSET Calls
  BY <1>1
<1>3. Cardinality(rest) \in Nat
  BY <1>2, EventCount
<1> HIDE DEF n
<1>4. CASE size <= 0 /\ shut' = "done" /\ UNCHANGED <<head, dead, deadLettered, dlqFailures>>
  BY <1>4 DEF TypeInv, TypeOK
<1>5. CASE head' = head + n /\ DeadLetter(rest) /\ shut' = "done"
  BY <1>1, <1>2, <1>3, <1>5 DEF TypeInv, TypeOK, DeadLetter
<1>6. CASE head' = head + n /\ DeadLetterThrows /\ shut' = "rejected"
  BY <1>1, <1>6, BoundsAssumption DEF TypeInv, TypeOK, DeadLetterThrows
<1> QED BY <1>4, <1>5, <1>6 DEF DeadLetterRest, RemoveBuffered, n

LEMMA ShutdownLoopType ==
    ASSUME TypeInv, ShutdownLoop
    PROVE  /\ head' \in Nat /\ dead' \subseteq Calls /\ deadLettered' \in Nat
           /\ dlqFailures' \in 0 .. MaxDlqFailures
           /\ shut' \in {"no", "racing", "awaiting", "done", "rejected"}
           /\ awaited' \in {"none", "pending", "resolved", "rejected"}
           /\ FlushFits(log, flush')
<1>1. log \in Seq(Calls) /\ head \in Nat /\ FlushFits(log, flush)
  BY DEF TypeInv, TypeOK
<1>2. CASE flush' = Flush(log, head) /\ shut' = "racing" /\ awaited' = "pending"
           /\ UNCHANGED <<head, dead, deadLettered, dlqFailures>>
  BY <1>1, <1>2, FlushProperties DEF TypeInv, TypeOK
<1>3. CASE shut' = "awaiting" /\ awaited' = "pending"
           /\ UNCHANGED <<flush, head, dead, deadLettered, dlqFailures>>
  BY <1>1, <1>3 DEF TypeInv, TypeOK
<1>4. CASE DeadLetterRest /\ UNCHANGED <<flush, awaited>>
  BY <1>1, <1>4, DeadLetterRestType DEF TypeInv, TypeOK
<1> QED BY <1>2, <1>3, <1>4 DEF ShutdownLoop

\* Every step of the pipeline keeps the types.
LEMMA TypeStep ==
    ASSUME TypeInv, [Next]_vars
    PROVE  TypeInv'
<1> USE DEF outside, counters, shutdownVars
<1>1. log \in Seq(Calls) /\ head \in Nat /\ FlushFits(log, flush)
  BY DEF TypeInv, TypeOK
<1>2. CASE Start
  BY <1>1, <1>2 DEF Start, TypeInv, TypeOK
<1>3. CASE Tick
  <2>1. FlushFits(log, flush')
    BY <1>1, <1>3, FlushProperties DEF Tick
  <2> QED BY <1>3, <2>1 DEF Tick, TypeInv, TypeOK, FlushFits
<1>4. ASSUME NEW c \in Calls, Enqueue(c) \/ Resume(c)
      PROVE  TypeInv'
  BY <1>4, TryEnqueueType DEF Enqueue, Resume
<1>5. ASSUME NEW r \in Requests, RequestCoupledFlush(r)
      PROVE  TypeInv'
  <2>1. FlushFits(log, flush')
    BY <1>1, <1>5, FlushProperties DEF RequestCoupledFlush
  <2> QED BY <1>5, <2>1 DEF RequestCoupledFlush, TypeInv, TypeOK, FlushFits
<1>6. ASSUME NEW r \in Requests, CoupledTimeout(r)
      PROVE  TypeInv'
  BY <1>1, <1>6 DEF CoupledTimeout, TypeInv, TypeOK, FlushFits
<1>7. CASE FlushStep
  BY <1>7, FlushStepType
<1>8. CASE Shutdown
  <2>1. call' \in [Calls -> {"idle", "waiting", "woken", "accepted", "refused"}]
    BY <1>8 DEF Shutdown, WakeCapacityWaiters, TypeInv, TypeOK
  <2> QED BY <1>8, <2>1, ShutdownLoopType DEF Shutdown, TypeInv, TypeOK, FlushFits
<1>9. CASE DeadlinePasses
  BY <1>1, <1>9 DEF DeadlinePasses, TypeInv, TypeOK, FlushFits
<1>10. CASE RaceEnds
  BY <1>10, ShutdownLoopType DEF RaceEnds, shutdownFrame, TypeInv, TypeOK, FlushFits
<1>11. CASE AwaitEnds
  BY <1>1, <1>11, DeadLetterRestType DEF AwaitEnds, shutdownFrame, TypeInv, TypeOK, FlushFits
<1>12. CASE AwaitRejects
  BY <1>1, <1>12 DEF AwaitRejects, shutdownFrame, TypeInv, TypeOK, FlushFits
<1>13. CASE UNCHANGED vars
  BY <1>1, <1>13 DEF vars, state, TypeInv, TypeOK, FlushFits
<1> QED BY <1>2, <1>3, <1>4, <1>5, <1>6, <1>7, <1>8, <1>9, <1>10, <1>11, <1>12, <1>13
        DEF Next, ShutdownStep

\* The start has the types.
LEMMA TypeInit == Init => TypeInv
<1> SUFFICES ASSUME Init PROVE TypeInv
  OBVIOUS
<1>1. NoFlush \in FlushType /\ NoFlush.len = 0
  BY DEF NoFlush, FlushType
<1>2. log \in Seq(Calls)
  BY EmptySeq DEF Init
<1>3. FlushFits(log, flush)
  BY <1>1 DEF Init, FlushFits
<1>4. 0 \in 0 .. MaxLostAcks /\ 0 \in 0 .. MaxDlqFailures
  BY BoundsAssumption
<1> QED BY <1>1, <1>2, <1>3, <1>4 DEF Init, TypeInv, TypeOK

\* The variables of the pipeline always have their types, for every number of calls,
\* capacity, batch size and overflow strategy.
THEOREM TypeCorrect == Spec => []TypeOK
<1>1. TypeInv => TypeOK
  BY DEF TypeInv
<1> QED BY <1>1, TypeInit, TypeStep, PTL DEF Spec

-----------------------------------------------------------------------------
(* Capacity and wake-ups, for every overflow strategy. *)

\* The number of buffered events grows by a push into a free slot only.
LEMMA BoundedStep ==
    ASSUME TypeInv, Bounded, [Next]_vars
    PROVE  Bounded'
<1> USE DEF outside, counters, shutdownVars
<1>1. log \in Seq(Calls) /\ head \in Nat /\ FlushFits(log, flush) /\ flush \in FlushType
  BY DEF TypeInv, TypeOK
<1>2. Capacity \in Nat \ {0} /\ size <= Capacity
  BY CapacityAssumption DEF Bounded
<1>3. CASE UNCHANGED <<log, head>>
  BY <1>2, <1>3 DEF Bounded, size
<1>4. ASSUME NEW n \in Nat, log' = log, head' = head + n
      PROVE  Bounded'
  BY <1>1, <1>2, <1>4 DEF Bounded, size
<1>5. CASE DeadLetterRest /\ log' = log
  BY <1>1, <1>3, <1>4, <1>5, PeekCountProperties DEF DeadLetterRest, RemoveBuffered
<1>6. ASSUME NEW c \in Calls, TryEnqueue(c)
      PROVE  Bounded'
  <2>1. ASSUME NEW h \in Nat, PushOrRefuse(c, h), Len(log) - h < Capacity
        PROVE  Bounded'
    BY <1>1, <1>2, <2>1, PushProperties DEF PushOrRefuse, Bounded, size
  <2>2. CASE size >= Capacity /\ DropOldest(c)
    <3>1. Len(log) - (head + 1) < Capacity
      BY <1>1, <1>2 DEF size
    <3> QED BY <1>1, <2>1, <2>2, <3>1 DEF DropOldest
  <2>3. CASE size >= Capacity /\ (DropNew(c) \/ Block(c))
    BY <1>3, <2>3 DEF DropNew, Block
  <2>4. CASE size < Capacity /\ PushOrRefuse(c, head)
    BY <1>1, <2>1, <2>4 DEF size
  <2> QED BY <1>6, <2>2, <2>3, <2>4 DEF TryEnqueue
<1>7. CASE GroupSettled
  BY <1>1, <1>3, <1>4, <1>7 DEF GroupSettled, RemoveBuffered, FlushType
<1>8. CASE ShutdownLoop /\ log' = log
  BY <1>3, <1>5, <1>8 DEF ShutdownLoop
<1>9. CASE Shutdown \/ RaceEnds
  BY <1>8, <1>9 DEF Shutdown, RaceEnds, shutdownFrame
<1>10. CASE AwaitEnds
  BY <1>5, <1>10 DEF AwaitEnds, shutdownFrame
<1> QED BY <1>3, <1>6, <1>7, <1>9, <1>10
        DEF Next, FlushStep, ShutdownStep, Start, Tick, Enqueue, Resume, RequestCoupledFlush,
            CoupledTimeout, WriteResolves, WriteRejects, BackoffEnds, CompleteFlush,
            DeadlinePasses, AwaitRejects, shutdownFrame, vars, state

\* For every overflow strategy and any interleaving of calls, the ring never holds
\* more events than it has slots.
THEOREM BufferBounded == Spec => []Bounded
<1>1. Init => Bounded
  <2> SUFFICES ASSUME Init PROVE Bounded
    OBVIOUS
  <2>1. Len(log) = 0 /\ head = 0
    BY EmptySeq DEF Init
  <2> QED BY <2>1, CapacityAssumption DEF Bounded, size
<1> QED BY <1>1, TypeInit, TypeStep, BoundedStep, PTL DEF Spec

\* A step leaves no call waiting without a flush.
LEMMA WaitersStep ==
    ASSUME TypeInv, WaitersHaveFlush, [Next]_vars
    PROVE  WaitersHaveFlush'
<1> USE DEF outside, counters, shutdownVars
<1>1. /\ log \in Seq(Calls) /\ head \in Nat /\ FlushFits(log, flush) /\ flush \in FlushType
      /\ call \in [Calls -> {"idle", "waiting", "woken", "accepted", "refused"}]
  BY DEF TypeInv, TypeOK
<1>2. CASE UNCHANGED call /\ flush' = flush
  BY <1>2 DEF WaitersHaveFlush
<1>3. CASE UNCHANGED call /\ flush' = Flush(log, head)
  BY <1>1, <1>3, FlushProperties DEF WaitersHaveFlush
<1>4. CASE UNCHANGED call /\ flush'.phase # "none"
  BY <1>4 DEF WaitersHaveFlush
<1>5. CASE WakeCapacityWaiters
  BY <1>1, <1>5 DEF WakeCapacityWaiters, WaitersHaveFlush
<1>6. ASSUME NEW c \in Calls, TryEnqueue(c)
      PROVE  WaitersHaveFlush'
  <2>1. ASSUME NEW v \in {"accepted", "refused"}, call' = [call EXCEPT ![c] = v],
               flush.phase # "none" => flush'.phase # "none"
        PROVE  WaitersHaveFlush'
    BY <1>1, <2>1 DEF WaitersHaveFlush
  <2>2. ASSUME NEW h \in Nat, PushOrRefuse(c, h)
        PROVE  WaitersHaveFlush'
    <3>1. CASE call' = [call EXCEPT ![c] = "accepted"] /\ log' = Append(log, c)
               /\ flush' = IF Len(log') - h >= MaxBatch THEN Flush(log', h) ELSE flush
      <4>1. log' \in Seq(Calls) /\ FlushFits(log', flush)
        BY <1>1, <3>1, PushProperties, PushFits
      <4>2. flush.phase # "none" => flush'.phase # "none"
        BY <2>2, <3>1, <4>1, FlushProperties
      <4> QED BY <2>1, <3>1, <4>2
    <3>2. CASE Refuse(c) /\ UNCHANGED flush
      BY <2>1, <3>2 DEF Refuse
    <3> QED BY <2>2, <3>1, <3>2 DEF PushOrRefuse
  <2>3. CASE size >= Capacity /\ DropOldest(c)
    BY <1>1, <2>2, <2>3 DEF DropOldest
  <2>4. CASE DropNew(c)
    BY <2>1, <2>4 DEF DropNew, Refuse
  <2>5. CASE size >= Capacity /\ Block(c)
    <3>1. Len(log) # head
      BY <1>1, <2>5, CapacityAssumption DEF size
    <3>2. Flush(log, head).phase # "none"
      BY <1>1, <3>1, FlushProperties
    <3>3. CASE flush' = Flush(log, head)
      BY <3>2, <3>3 DEF WaitersHaveFlush
    <3>4. CASE Refuse(c) /\ UNCHANGED flush
      BY <2>1, <3>4 DEF Refuse
    <3> QED BY <2>5, <3>3, <3>4 DEF Block
  <2>6. CASE PushOrRefuse(c, head)
    BY <1>1, <2>2, <2>6
  <2> QED BY <1>6, <2>3, <2>4, <2>5, <2>6 DEF TryEnqueue
<1>7. CASE GroupSettled
  <2>1. CASE WakeCapacityWaiters
    BY <1>5, <2>1
  <2>2. CASE UNCHANGED call /\ flush' = BeginGroup(log, [flush EXCEPT !.done = @ \cup {flush.store}])
    BY <1>1, <1>4, <2>2 DEF BeginGroup, FlushType
  <2> QED BY <1>7, <2>1, <2>2 DEF GroupSettled
<1>8. CASE WriteResolves \/ WriteRejects \/ BackoffEnds
  <2>1. UNCHANGED call /\ flush'.phase \in {"settled", "backoff", "rejected", "writing"}
    BY <1>1, <1>8 DEF WriteResolves, WriteRejects, BackoffEnds, FlushType
  <2> QED BY <1>4, <2>1
<1>9. CASE RaceEnds \/ AwaitEnds \/ AwaitRejects
  BY <1>2, <1>3, <1>9 DEF RaceEnds, AwaitEnds, AwaitRejects, ShutdownLoop, shutdownFrame
<1> QED BY <1>2, <1>3, <1>5, <1>6, <1>7, <1>8, <1>9
        DEF Next, FlushStep, ShutdownStep, Start, Tick, Enqueue, Resume, RequestCoupledFlush,
            CoupledTimeout, CompleteFlush, Shutdown, DeadlinePasses, vars, state

\* No wake-up is lost: at any time a call that waits for capacity has a flush under way
\* whose completion wakes it.
THEOREM NoLostWakeup == Spec => []WaitersHaveFlush
<1>1. Init => WaitersHaveFlush
  BY DEF Init, WaitersHaveFlush
<1> QED BY <1>1, TypeInit, TypeStep, WaitersStep, PTL DEF Spec

\* The ring keeps its limit and every call it turned away is woken again: the two
\* promises of the backpressure strategy together.
THEOREM RingIsSound == Spec => []RingSound
BY BufferBounded, NoLostWakeup, PTL DEF RingSound

-----------------------------------------------------------------------------
(* No event is lost or overtaken while the pipeline serves, unless the      *)
(* strategy is dropOldest.                                                  *)

SafetyInv == OnlyAccepted /\ BatchAtHead /\ ConsumedIsSettled /\ OrderedDelivery

\* Outcomes are not taken back.
Monotone ==
    /\ \A c \in Calls : Delivered(c) => Delivered(c)'
    /\ \A c \in Calls : Settled(c) => Settled(c)'

\* The flush that goes on, or one that begins at the head with nothing done.
SameOrNewFlush ==
    \/ flush' = flush
    \/ flush' = NoFlush
    \/ flush'.from = head' /\ flush'.done = {} /\ flush'.phase \in {"writing", "rejected", "removed"}

\* Steps that move no event: they may announce drops, and begin or end a flush.
LEMMA QuietStep ==
    ASSUME TypeInv, TypeInv', SafetyInv, SameOrNewFlush,
           UNCHANGED <<log, head, copies, dead>>, announced \subseteq announced',
           InService' => InService,
           \A c \in Calls : call[c] = "accepted" => call'[c] = "accepted"
    PROVE  SafetyInv'
<1>1. /\ log \in Seq(Calls) /\ head \in Nat /\ FlushFits(log, flush) /\ flush \in FlushType
      /\ FlushFits(log', flush') /\ flush' \in FlushType
  BY DEF TypeInv, TypeOK
<1>2. \A i \in 1 .. Len(log) : log[i] \in Calls
  BY <1>1
<1>3. Monotone
  BY DEF Monotone, Delivered, Settled
<1>4. OnlyAccepted'
  BY <1>2 DEF SafetyInv, OnlyAccepted
<1>5. BatchAtHead'
  <2> SUFFICES ASSUME InService'
               PROVE  BatchAtHead'
    BY DEF BatchAtHead
  <2>1. CASE flush' = flush
    <3>1. Group' = Group /\ Batch(flush') = Batch(flush) /\ InFlight' = InFlight
      BY <2>1 DEF Group, InFlight
    <3>2. \A i \in Batch(flush) : log[i] \in Calls
      BY <1>1, BatchInLog
    <3>3. Group \in SUBSET Calls
      BY GroupInCalls
    <3> QED BY <1>3, <2>1, <3>1, <3>2, <3>3 DEF SafetyInv, BatchAtHead, Monotone
  <2>2. CASE flush' = NoFlush
    BY <2>2 DEF SafetyInv, BatchAtHead, NoFlush, InFlight
  <2>3. CASE flush'.from = head' /\ flush'.done = {} /\ flush'.phase \in {"writing", "rejected", "removed"}
    BY <2>3 DEF SafetyInv, BatchAtHead, InFlight
  <2> QED BY <2>1, <2>2, <2>3 DEF SameOrNewFlush
<1>6. ConsumedIsSettled'
  BY <1>1, <1>2, <1>3 DEF SafetyInv, ConsumedIsSettled, MinOf, Monotone
<1>7. OrderedDelivery'
  <2> SUFFICES ASSUME InService', NEW j \in 1 .. Len(log), copies[log[j]] > 0,
                      NEW i \in 1 .. (j - 1), Route[log[i]] = Route[log[j]]
               PROVE  Settled(log[i])'
    BY DEF OrderedDelivery
  <2>1. Settled(log[i])
    BY DEF SafetyInv, OrderedDelivery
  <2>2. i \in 1 .. Len(log)
    BY <1>1
  <2> QED BY <1>2, <1>3, <2>1, <2>2 DEF Monotone, Settled, Delivered
<1> QED BY <1>4, <1>5, <1>6, <1>7 DEF SafetyInv

\* A push moves no event either: the new one is behind all others.
LEMMA PushStep ==
    ASSUME TypeInv, TypeInv', SafetyInv, SameOrNewFlush, NEW c \in Calls,
           call[c] \in {"idle", "woken"}, call' = [call EXCEPT ![c] = "accepted"],
           log' = Append(log, c), UNCHANGED <<head, copies, dead, announced, shut>>
    PROVE  SafetyInv'
<1>1. /\ log \in Seq(Calls) /\ head \in Nat /\ FlushFits(log, flush) /\ flush \in FlushType
      /\ call \in [Calls -> {"idle", "waiting", "woken", "accepted", "refused"}]
      /\ copies \in [Calls -> Nat]
  BY DEF TypeInv, TypeOK
<1>2. /\ Len(log') = Len(log) + 1 /\ log'[Len(log) + 1] = c
      /\ \A i \in 1 .. Len(log) : log'[i] = log[i] /\ log[i] \in Calls
  BY <1>1, PushProperties
<1>3. copies[c] = 0
  BY <1>1 DEF SafetyInv, OnlyAccepted
<1>4. OnlyAccepted'
  <2>1. \A i \in 1 .. Len(log') : call'[log'[i]] = "accepted"
    BY <1>1, <1>2 DEF SafetyInv, OnlyAccepted
  <2>2. \A e \in Calls : copies'[e] > 0 => call'[e] = "accepted"
    BY <1>1 DEF SafetyInv, OnlyAccepted
  <2>3. \A i \in 1 .. Len(log) : log[i] # c
    BY DEF SafetyInv, OnlyAccepted
  <2>4. \A i, j \in 1 .. Len(log') : log'[i] = log'[j] => i = j
    <3>1. \A i \in 1 .. Len(log') : i \in 1 .. Len(log) \/ i = Len(log) + 1
      BY <1>1, <1>2
    <3>2. \A i, j \in 1 .. Len(log) : log[i] = log[j] => i = j
      BY DEF SafetyInv, OnlyAccepted
    <3> QED BY <1>2, <2>3, <3>1, <3>2
  <2> QED BY <2>1, <2>2, <2>4 DEF OnlyAccepted
<1>5. \A e \in Calls : (Delivered(e)' <=> Delivered(e)) /\ (Settled(e)' <=> Settled(e))
  BY DEF Delivered, Settled
<1>6. BatchAtHead'
  <2> SUFFICES ASSUME InService'
               PROVE  BatchAtHead'
    BY DEF BatchAtHead
  <2>1. InService /\ head <= Len(log) /\ head' <= Len(log')
    BY <1>1, <1>2 DEF InService, SafetyInv, BatchAtHead
  <2>2. CASE flush' = flush
    <3>1. \A i \in Batch(flush) : log'[i] = log[i] /\ log[i] \in Calls
      BY <1>1, <1>2, BatchInLog
    <3>2. Group' = Group
      BY <2>2, <3>1 DEF Group
    <3>3. Group \in SUBSET Calls
      BY GroupInCalls
    <3>4. InFlight' = InFlight /\ Batch(flush') = Batch(flush)
      BY <2>2 DEF InFlight
    <3>5. \A e \in Group' : flush'.phase = "settled" => Delivered(e)'
      BY <1>5, <2>1, <2>2, <3>2, <3>3 DEF SafetyInv, BatchAtHead
    <3>6. InFlight' => flush'.from = head'
      BY <2>1, <2>2, <3>4 DEF SafetyInv, BatchAtHead
    <3>7. InFlight' => \A i \in Batch(flush') : Route[log'[i]] \in flush'.done => Delivered(log[i])'
      <4> SUFFICES ASSUME InFlight', NEW i \in Batch(flush), Route[log[i]] \in flush.done
                   PROVE  Delivered(log[i])'
        BY <2>2, <3>1 DEF Delivered
      <4> QED BY <1>5, <2>1, <3>1, <3>4 DEF SafetyInv, BatchAtHead
    <3> QED BY <2>1, <3>5, <3>6, <3>7 DEF BatchAtHead
  <2>3. CASE flush' = NoFlush
    BY <2>1, <2>3 DEF BatchAtHead, NoFlush, InFlight
  <2>4. CASE flush'.from = head' /\ flush'.done = {} /\ flush'.phase \in {"writing", "rejected", "removed"}
    BY <2>1, <2>4 DEF BatchAtHead, InFlight
  <2> QED BY <2>2, <2>3, <2>4 DEF SameOrNewFlush
<1>7. ConsumedIsSettled'
  <2> SUFFICES ASSUME InService', NEW i \in 1 .. head'
               PROVE  Settled(log[i])'
    BY <1>1, <1>2 DEF ConsumedIsSettled, MinOf, InService, SafetyInv, BatchAtHead
  <2>1. InService /\ i \in 1 .. head /\ head <= Len(log)
    BY DEF InService, SafetyInv, BatchAtHead
  <2>2. Settled(log[i])
    BY <1>1, <2>1 DEF SafetyInv, ConsumedIsSettled, MinOf
  <2>3. log'[i] = log[i] /\ log[i] \in Calls
    BY <1>1, <1>2, <2>1
  <2> QED BY <1>5, <2>2, <2>3 DEF Settled, Delivered
<1>8. OrderedDelivery'
  <2> SUFFICES ASSUME InService', NEW j \in 1 .. Len(log'), copies'[log'[j]] > 0,
                      NEW i \in 1 .. (j - 1), Route[log'[i]] = Route[log'[j]]
               PROVE  Settled(log[i])'
    BY DEF OrderedDelivery
  <2>1. InService
    BY DEF InService
  <2>2. j \in 1 .. Len(log) /\ i \in 1 .. Len(log)
    <3>1. Len(log) \in Nat
      BY <1>1
    <3>2. j # Len(log) + 1
      BY <1>2, <1>3
    <3> QED BY <1>2, <3>1, <3>2
  <2>3. log'[i] = log[i] /\ log'[j] = log[j] /\ log[i] \in Calls
    BY <1>2, <2>2
  <2>4. Settled(log[i])
    BY <2>1, <2>2, <2>3 DEF SafetyInv, OrderedDelivery
  <2> QED BY <1>5, <2>3, <2>4 DEF Settled, Delivered
<1> QED BY <1>4, <1>6, <1>7, <1>8 DEF SafetyInv

\* What every store write does to the copies: nothing, or one more of each event of the
\* group.
LEMMA WriteStep ==
    ASSUME TypeInv, TypeInv', SafetyInv, flush.phase = "writing", UNCHANGED copies \/ StoreGroup,
           UNCHANGED <<log, head, call, shut, announced>>, dead \subseteq dead',
           flush' \in FlushType, flush'.phase \in {"settled", "backoff", "rejected"},
           flush'.from = flush.from, flush'.len = flush.len, flush'.done = flush.done,
           flush'.store = flush.store,
           flush'.phase = "settled" => StoreGroup \/ Group \subseteq dead'
    PROVE  SafetyInv'
<1>1. /\ log \in Seq(Calls) /\ head \in Nat /\ FlushFits(log, flush) /\ flush \in FlushType
      /\ copies \in [Calls -> Nat] /\ copies' \in [Calls -> Nat]
  BY DEF TypeInv, TypeOK
<1>2. /\ \A i \in 1 .. Len(log) : log[i] \in Calls
      /\ \A i \in Batch(flush) : i \in 1 .. Len(log) /\ log[i] \in Calls
  BY <1>1, BatchInLog
<1>3. Group \in SUBSET Calls
  BY GroupInCalls
<1>4. \A c \in Calls : /\ copies'[c] >= copies[c]
                       /\ copies'[c] # copies[c] => c \in Group
                       /\ StoreGroup /\ c \in Group => copies'[c] > 0
  BY <1>1 DEF StoreGroup
<1>5. Monotone
  BY <1>1, <1>4 DEF Monotone, Settled, Delivered
<1>6. \A c \in Group : call[c] = "accepted"
  BY <1>2 DEF Group, SafetyInv, OnlyAccepted
<1>7. OnlyAccepted'
  BY <1>1, <1>2, <1>4, <1>6 DEF SafetyInv, OnlyAccepted
<1>8. BatchAtHead'
  <2> SUFFICES ASSUME InService'
               PROVE  BatchAtHead'
    BY DEF BatchAtHead
  <2>1. InService /\ head <= Len(log) /\ flush.from = head
    BY DEF InService, SafetyInv, BatchAtHead, InFlight
  <2>2. Group' = Group /\ Batch(flush') = Batch(flush)
    BY DEF Group, Batch
  <2>3. \A i \in Batch(flush) : Route[log[i]] \in flush.done => Delivered(log[i])
    BY <2>1 DEF SafetyInv, BatchAtHead, InFlight
  <2>4. \A i \in Batch(flush') : Route[log[i]] \in flush'.done => Delivered(log[i])'
    BY <1>2, <1>5, <2>2, <2>3 DEF Monotone, Delivered
  <2>5. flush'.phase = "settled" => \A c \in Group' : Delivered(c)'
    BY <1>3, <1>4, <2>2 DEF Delivered
  <2> QED BY <2>1, <2>4, <2>5 DEF BatchAtHead
<1>9. ConsumedIsSettled'
  BY <1>1, <1>2, <1>5 DEF SafetyInv, ConsumedIsSettled, MinOf, Monotone, InService
<1>10. OrderedDelivery'
  <2> SUFFICES ASSUME InService', NEW j \in 1 .. Len(log), copies'[log[j]] > 0,
                      NEW i \in 1 .. (j - 1), Route[log[i]] = Route[log[j]]
               PROVE  Settled(log[i])'
    BY DEF OrderedDelivery
  <2>1. InService /\ head <= Len(log) /\ flush.from = head
    BY DEF InService, SafetyInv, BatchAtHead, InFlight
  <2>2. i \in 1 .. Len(log) /\ log[i] \in Calls /\ log[j] \in Calls
    BY <1>1, <1>2
  <2>3. CASE copies[log[j]] > 0
    <3>1. Settled(log[i])
      BY <2>1, <2>3 DEF SafetyInv, OrderedDelivery
    <3> QED BY <1>5, <2>2, <3>1 DEF Monotone, Settled, Delivered
  <2>4. CASE ~(copies[log[j]] > 0)
    <3>1. StoreGroup /\ log[j] \in Group
      BY <1>4, <2>2, <2>4
    <3>2. PICK k \in Batch(flush) : log[k] = log[j] /\ Route[log[k]] = flush.store
      BY <3>1 DEF Group
    <3>3. CASE i <= head
      <4>1. Settled(log[i])
        BY <1>1, <2>1, <2>2, <3>3 DEF SafetyInv, ConsumedIsSettled, MinOf
      <4> QED BY <1>5, <2>2, <4>1 DEF Monotone, Settled, Delivered
    <3>4. CASE i > head /\ i <= flush.from + flush.len
      <4>1. i \in Batch(flush)
        BY <1>1, <2>1, <3>4 DEF Batch, FlushType
      <4>2. log[i] \in Group
        BY <3>2, <4>1 DEF Group
      <4> QED BY <1>4, <2>2, <3>1, <4>2 DEF Settled, Delivered
    <3>5. CASE i > flush.from + flush.len
      \* The event of slot j would be in the batch twice.
      <4>1. j > flush.from + flush.len /\ k <= flush.from + flush.len
        BY <1>1, <3>5 DEF Batch, FlushType
      <4>2. k = j
        BY <1>2, <3>2 DEF SafetyInv, OnlyAccepted
      <4> QED BY <1>1, <4>1, <4>2 DEF Batch, FlushType
    <3> QED BY <1>1, <2>1, <3>3, <3>4, <3>5 DEF FlushType
  <2> QED BY <2>3, <2>4
<1> QED BY <1>7, <1>8, <1>9, <1>10 DEF SafetyInv

\* After a group is settled, the next one begins or the delivered batch leaves.
LEMMA GroupSettledStep ==
    ASSUME TypeInv, TypeInv', SafetyInv, GroupSettled
    PROVE  SafetyInv'
<1> USE DEF outside, counters, shutdownVars
<1> DEFINE f == [flush EXCEPT !.done = @ \cup {flush.store}]
<1>1. /\ log \in Seq(Calls) /\ head \in Nat /\ FlushFits(log, flush) /\ flush \in FlushType
      /\ call \in [Calls -> {"idle", "waiting", "woken", "accepted", "refused"}]
      /\ flush.phase = "settled"
      /\ UNCHANGED <<log, copies, dead, announced, shut>>
  BY DEF TypeInv, TypeOK, GroupSettled
<1>2. /\ f \in FlushType /\ FlushFits(log, f)
      /\ f.from = flush.from /\ f.len = flush.len /\ f.phase = "settled"
      /\ f.done = flush.done \cup {flush.store} /\ Batch(f) = Batch(flush)
  BY <1>1 DEF FlushFits, FlushType, Batch
<1> HIDE DEF f
<1>3. /\ \A i \in 1 .. Len(log) : log[i] \in Calls
      /\ \A i \in Batch(flush) : i \in 1 .. Len(log) /\ log[i] \in Calls
      /\ \A i \in Batch(flush) : Route[log[i]] = flush.store => log[i] \in Group
  BY <1>1, BatchInLog DEF Group
<1>4. \A c \in Calls : (Delivered(c)' <=> Delivered(c)) /\ (Settled(c)' <=> Settled(c))
  BY <1>1 DEF Delivered, Settled
<1>5. \A c \in Calls : call[c] = "accepted" => call'[c] = "accepted"
  BY <1>1 DEF GroupSettled, WakeCapacityWaiters
<1>6. OnlyAccepted'
  BY <1>1, <1>3, <1>5 DEF SafetyInv, OnlyAccepted
<1>7. InService => /\ head <= Len(log) /\ flush.from = head
                   /\ \A i \in Batch(flush) : Route[log[i]] \in f.done => Delivered(log[i])
  BY <1>1, <1>2, <1>3 DEF SafetyInv, BatchAtHead, InFlight
<1>8. InService' = InService
  BY <1>1 DEF InService
<1>9. OrderedDelivery'
  <2> SUFFICES ASSUME InService', NEW j \in 1 .. Len(log), copies[log[j]] > 0,
                      NEW i \in 1 .. (j - 1), Route[log[i]] = Route[log[j]]
               PROVE  Settled(log[i])'
    BY <1>1 DEF OrderedDelivery
  <2>1. Settled(log[i])
    BY <1>8 DEF SafetyInv, OrderedDelivery
  <2>2. log[i] \in Calls
    BY <1>1, <1>3
  <2> QED BY <1>1, <1>4, <2>1, <2>2 DEF Settled, Delivered
<1>10. CASE Ungrouped(log, f) # {} /\ flush' = BeginGroup(log, f) /\ UNCHANGED head
  <2>1. /\ flush'.from = flush.from /\ flush'.len = flush.len /\ flush'.done = f.done
        /\ flush'.phase = "writing" /\ Batch(flush') = Batch(flush)
    BY <1>2, <1>10 DEF BeginGroup, FlushType, Batch
  <2>2. BatchAtHead'
    BY <1>1, <1>3, <1>4, <1>7, <1>8, <1>10, <2>1 DEF BatchAtHead, InFlight, Delivered
  <2>3. ConsumedIsSettled'
    BY <1>1, <1>3, <1>4, <1>8, <1>10 DEF SafetyInv, ConsumedIsSettled, MinOf, Settled, Delivered
  <2> QED BY <1>6, <1>9, <2>2, <2>3 DEF SafetyInv
<1>11. CASE Ungrouped(log, f) = {} /\ flush' = [f EXCEPT !.phase = "removed"] /\ head' = head + flush.len
  <2>1. flush'.phase = "removed"
    BY <1>2, <1>11 DEF FlushType
  <2>2. \A i \in Batch(flush) : Route[log[i]] \in f.done
    BY <1>2, <1>11 DEF Ungrouped
  <2>3. InService => head' <= Len(log)
    BY <1>1, <1>7, <1>11 DEF FlushFits, FlushType
  <2>4. BatchAtHead'
    BY <1>1, <1>8, <2>1, <2>3 DEF BatchAtHead, InFlight
  <2>5. ASSUME InService, NEW i \in 1 .. head'
        PROVE  Settled(log[i])
    <3>1. CASE i <= head
      BY <1>1, <1>7, <2>5, <3>1 DEF SafetyInv, ConsumedIsSettled, MinOf
    <3>2. CASE i > head
      <4>1. i \in Batch(flush)
        BY <1>1, <1>7, <1>11, <2>5, <3>2 DEF Batch, FlushType
      <4> QED BY <1>7, <2>2, <2>5, <4>1 DEF Settled
    <3> QED BY <1>1, <1>11, <3>1, <3>2 DEF FlushType
  <2>6. ConsumedIsSettled'
    <3> SUFFICES ASSUME InService, NEW i \in 1 .. head'
                 PROVE  Settled(log[i])'
      BY <1>1, <1>8, <1>11, <2>3 DEF ConsumedIsSettled, MinOf, FlushType
    <3>1. i \in 1 .. Len(log)
      BY <1>1, <1>11, <2>3 DEF FlushType
    <3> QED BY <1>1, <1>3, <1>4, <2>5, <3>1 DEF Settled, Delivered
  <2> QED BY <1>6, <1>9, <2>4, <2>6 DEF SafetyInv
<1> QED BY <1>10, <1>11 DEF GroupSettled, RemoveBuffered, f

\* A flush joined or begun at the head is one of the flushes QuietStep and PushStep allow.
LEMMA FlushIsSameOrNew ==
    ASSUME NEW l \in Seq(Calls), head \in Nat, head' = head, FlushFits(l, flush),
           flush' = Flush(l, head)
    PROVE  SameOrNewFlush
BY FlushProperties, FlushBatchProperties DEF SameOrNewFlush

\* Every step keeps the safety invariant, unless a full buffer evicts its head.
LEMMA SafetyStep ==
    ASSUME overflow # "dropOldest", TypeInv, SafetyInv, [Next]_vars
    PROVE  SafetyInv'
<1> USE DEF outside, counters, shutdownVars
<1>1. /\ log \in Seq(Calls) /\ head \in Nat /\ FlushFits(log, flush) /\ flush \in FlushType
      /\ call \in [Calls -> {"idle", "waiting", "woken", "accepted", "refused"}]
      /\ dead \subseteq Calls
      /\ TypeInv'
  BY TypeStep DEF TypeInv, TypeOK
<1>2. CASE UNCHANGED <<log, head, copies, dead, announced, shut, call>>
           /\ (flush' = flush \/ flush' = Flush(log, head))
  <2>1. SameOrNewFlush
    BY <1>1, <1>2, FlushIsSameOrNew DEF SameOrNewFlush
  <2> QED BY <1>1, <1>2, <2>1, QuietStep DEF InService
<1>3. ASSUME NEW c \in Calls, Enqueue(c) \/ Resume(c)
      PROVE  SafetyInv'
  <2>1. call[c] \in {"idle", "woken"} /\ TryEnqueue(c) /\ UNCHANGED <<copies, dead, shut>>
    BY <1>3 DEF Enqueue, Resume, TryEnqueue
  <2>2. ASSUME NEW v \in {"waiting", "refused"}, call' = [call EXCEPT ![c] = v], SameOrNewFlush,
               UNCHANGED <<log, head>>, announced \subseteq announced'
        PROVE  SafetyInv'
    <3>1. \A e \in Calls : call[e] = "accepted" => call'[e] = "accepted"
      BY <1>1, <2>1, <2>2
    <3> QED BY <1>1, <2>1, <2>2, <3>1, QuietStep DEF InService
  <2>3. CASE DropNew(c)
    BY <2>2, <2>3 DEF DropNew, Refuse, SameOrNewFlush
  <2>4. CASE Block(c)
    <3>1. SameOrNewFlush
      BY <1>1, <2>4, FlushIsSameOrNew DEF Block, SameOrNewFlush
    <3> QED BY <2>2, <2>4, <3>1 DEF Block, Refuse
  <2>5. CASE PushOrRefuse(c, head) /\ UNCHANGED announced
    <3>1. CASE log' = Append(log, c) /\ call' = [call EXCEPT ![c] = "accepted"]
               /\ flush' = IF Len(log') - head >= MaxBatch THEN Flush(log', head) ELSE flush
      <4>1. log' \in Seq(Calls) /\ FlushFits(log', flush) /\ head' = head
        BY <1>1, <2>5, <3>1, PushProperties, PushFits DEF PushOrRefuse
      <4>2. SameOrNewFlush
        BY <1>1, <3>1, <4>1, FlushIsSameOrNew DEF SameOrNewFlush
      <4> QED BY <1>1, <2>1, <2>5, <3>1, <4>1, <4>2, PushStep
    <3>2. CASE Refuse(c) /\ UNCHANGED <<log, flush>>
      BY <2>2, <2>5, <3>2 DEF PushOrRefuse, Refuse, SameOrNewFlush
    <3> QED BY <2>5, <3>1, <3>2 DEF PushOrRefuse
  <2> QED BY <2>1, <2>3, <2>4, <2>5 DEF TryEnqueue, DropOldest
<1>4. CASE WriteResolves
  BY <1>1, <1>4, WriteStep DEF WriteResolves, FlushType
<1>5. CASE WriteRejects
  <2>1. /\ flush'.phase \in {"settled", "backoff", "rejected"}
        /\ flush'.from = flush.from /\ flush'.len = flush.len
        /\ flush'.done = flush.done /\ flush'.store = flush.store
        /\ flush'.phase = "settled" => DeadLetter(Group)
    BY <1>1, <1>5 DEF WriteRejects, FlushType
  <2>2. dead \subseteq dead'
    BY <1>5 DEF WriteRejects, DeadLetter, DeadLetterThrows
  <2>3. flush'.phase = "settled" => Group \subseteq dead'
    BY <2>1 DEF DeadLetter
  <2>4. flush' \in FlushType /\ (UNCHANGED copies \/ StoreGroup)
    BY <1>1, <1>5 DEF WriteRejects, RejectedWrite, TypeInv, TypeOK
  <2> QED BY <1>1, <1>5, <2>1, <2>2, <2>3, <2>4, WriteStep DEF WriteRejects
<1>6. CASE BackoffEnds
  <2>1. /\ flush'.phase = "writing" /\ flush'.from = flush.from /\ flush'.len = flush.len
        /\ flush'.done = flush.done /\ flush'.store = flush.store
        /\ flush.phase = "backoff" /\ Batch(flush') = Batch(flush)
    BY <1>1, <1>6 DEF BackoffEnds, FlushType, Batch
  <2>2. UNCHANGED <<log, head, call, copies, dead, announced, shut>>
    BY <1>6 DEF BackoffEnds
  <2>3. BatchAtHead'
    BY <2>1, <2>2 DEF SafetyInv, BatchAtHead, InFlight, InService, Delivered
  <2>4. ConsumedIsSettled' /\ OnlyAccepted' /\ OrderedDelivery'
    BY <2>2 DEF SafetyInv, ConsumedIsSettled, OnlyAccepted, OrderedDelivery, MinOf, InService,
                Settled, Delivered
  <2> QED BY <2>3, <2>4 DEF SafetyInv
<1>7. CASE GroupSettled
  BY <1>1, <1>7, GroupSettledStep
<1>8. CASE CompleteFlush
  <2>1. SameOrNewFlush
    BY <1>1, <1>8, FlushBatchProperties DEF CompleteFlush, SameOrNewFlush
  <2>2. \A c \in Calls : call[c] = "accepted" => call'[c] = "accepted"
    BY <1>1, <1>8 DEF CompleteFlush, WakeCapacityWaiters
  <2> QED BY <1>1, <1>8, <2>1, <2>2, QuietStep DEF CompleteFlush, InService
<1>9. ASSUME ~InService', UNCHANGED <<log, copies>>,
             \A c \in Calls : call[c] = "accepted" => call'[c] = "accepted"
      PROVE  SafetyInv'
  <2>1. OnlyAccepted'
    BY <1>1, <1>9 DEF SafetyInv, OnlyAccepted
  <2> QED BY <1>9, <2>1 DEF SafetyInv, BatchAtHead, ConsumedIsSettled, OrderedDelivery
<1>10. ASSUME ShutdownLoop, InService, UNCHANGED <<log, copies, announced>>,
              \A c \in Calls : call[c] = "accepted" => call'[c] = "accepted"
       PROVE  SafetyInv'
  <2>1. CASE DeadLetterRest
    BY <1>9, <1>10, <2>1 DEF DeadLetterRest, InService
  <2>2. CASE UNCHANGED <<head, dead>> /\ (flush' = flush \/ flush' = Flush(log, head))
    <3>1. SameOrNewFlush
      BY <1>1, <2>2, FlushIsSameOrNew DEF SameOrNewFlush
    <3> QED BY <1>1, <1>10, <2>2, <3>1, QuietStep
  <2> QED BY <1>10, <2>1, <2>2 DEF ShutdownLoop
<1>11. CASE Shutdown
  <2>1. \A c \in Calls : call[c] = "accepted" => call'[c] = "accepted"
    BY <1>1, <1>11 DEF Shutdown, WakeCapacityWaiters
  <2> QED BY <1>10, <1>11, <2>1 DEF Shutdown, InService
<1>12. CASE RaceEnds
  BY <1>10, <1>12 DEF RaceEnds, shutdownFrame, InService
<1>13. CASE AwaitEnds
  BY <1>9, <1>13 DEF AwaitEnds, DeadLetterRest, shutdownFrame, InService
<1>14. CASE AwaitRejects
  BY <1>9, <1>14 DEF AwaitRejects, shutdownFrame, InService
<1> QED BY <1>2, <1>3, <1>4, <1>5, <1>6, <1>7, <1>8, <1>11, <1>12, <1>13, <1>14
        DEF Next, FlushStep, ShutdownStep, Start, Tick, RequestCoupledFlush, CoupledTimeout,
            DeadlinePasses, vars, state

\* The start.
LEMMA SafetyInit == Init => SafetyInv
<1> SUFFICES ASSUME Init PROVE SafetyInv
  OBVIOUS
<1>1. Len(log) = 0 /\ head = 0 /\ flush.phase = "none" /\ copies = [c \in Calls |-> 0]
  BY EmptySeq DEF Init, NoFlush
<1> QED BY <1>1 DEF SafetyInv, OnlyAccepted, BatchAtHead, ConsumedIsSettled, OrderedDelivery,
                    InFlight, MinOf

\* Without evictions the conjunction always holds.
LEMMA SafetyAlways ==
    ASSUME "dropOldest" \notin Overflows
    PROVE  Spec => []SafetyInv
<1> DEFINE NoEviction == overflow # "dropOldest"
<1>1. TypeInv /\ SafetyInv /\ NoEviction /\ [Next]_vars => SafetyInv'
  BY SafetyStep
<1>2. Init => NoEviction
  BY DEF Init
<1>3. NoEviction /\ [Next]_vars => NoEviction'
  BY DEF Next, vars, state
<1>4. TypeInv /\ [Next]_vars => TypeInv'
  BY TypeStep
<1> HIDE DEF NoEviction
<1> QED BY <1>1, <1>2, <1>3, <1>4, TypeInit, SafetyInit, PTL DEF Spec

\* With block and dropNew, as long as the pipeline serves, no event leaves the buffer
\* without being stored, dead-lettered or announced, whatever fails and however the
\* calls interleave.
THEOREM NothingLost ==
    ASSUME "dropOldest" \notin Overflows
    PROVE  Spec => []ConsumedIsSettled
<1>1. SafetyInv => ConsumedIsSettled
  BY DEF SafetyInv
<1> QED BY <1>1, SafetyAlways, PTL

\* With block and dropNew, as long as the pipeline serves, no event reaches its store
\* before the earlier events of that store have an outcome.
THEOREM NothingOvertaken ==
    ASSUME "dropOldest" \notin Overflows
    PROVE  Spec => []OrderedDelivery
<1>1. SafetyInv => OrderedDelivery
  BY DEF SafetyInv
<1> QED BY <1>1, SafetyAlways, PTL

-----------------------------------------------------------------------------
(* Coupled requests, for every overflow strategy and during shutdown. *)

\* A request waits under its own ids only, and the group of a write that resolved is in
\* its store.
CoupledInv ==
    /\ \A c \in Calls : coupled[c] # NoRequest => c \in coupled[c]
    /\ flush.phase = "settled" /\ flush.ok => \A c \in Group : copies[c] > 0
    /\ CoupledMeansStored

\* What the audit service asks of the pipeline: one id in each request.
OneIdPerRequest == \A r \in Requests : \E c \in Calls : r = {c}

LEMMA CoupledStep ==
    ASSUME OneIdPerRequest, TypeInv, CoupledInv, [Next]_vars
    PROVE  CoupledInv'
<1> USE DEF outside, counters, shutdownVars
<1>1. /\ log \in Seq(Calls) /\ head \in Nat /\ FlushFits(log, flush) /\ flush \in FlushType
      /\ copies \in [Calls -> Nat] /\ coupled \in [Calls -> Requests \cup {NoRequest}]
      /\ wait \in [Requests -> {"none", "pending", "resolved", "timedOut"}]
  BY DEF TypeInv, TypeOK
<1>2. Group \in SUBSET Calls
  BY GroupInCalls
\* Steps that only prolong the buffer and go on with the flush, or begin another.
<1>3. ASSUME \/ log' = log
             \/ \E c \in Calls : log' = Append(log, c),
             UNCHANGED copies, flush' = flush \/ flush'.phase # "settled"
      PROVE  flush'.phase = "settled" /\ flush'.ok => \A c \in Group' : copies'[c] > 0
  <2> SUFFICES ASSUME flush' = flush, flush.phase = "settled", flush.ok
               PROVE  \A c \in Group' : copies[c] > 0
    BY <1>3
  <2>1. \A i \in Batch(flush) : log'[i] = log[i]
    BY <1>1, <1>3, BatchInLog, PushProperties
  <2>2. Group' = Group
    BY <2>1 DEF Group
  <2> QED BY <2>2 DEF CoupledInv
<1>4. ASSUME UNCHANGED <<coupled, wait, copies>>,
             flush'.phase = "settled" /\ flush'.ok => \A c \in Group' : copies'[c] > 0
      PROVE  CoupledInv'
  BY <1>4 DEF CoupledInv, CoupledMeansStored
<1>5. ASSUME NEW l \in Seq(Calls), NEW h \in Nat, FlushFits(l, flush), flush' = Flush(l, h)
      PROVE  flush' = flush \/ flush'.phase # "settled"
  BY <1>5, FlushProperties, FlushBatchProperties
<1>6. ASSUME NEW c \in Calls, TryEnqueue(c)
      PROVE  CoupledInv'
  <2>1. UNCHANGED <<coupled, wait, copies>>
    BY <1>6 DEF TryEnqueue
  <2>2. ASSUME NEW h \in Nat, PushOrRefuse(c, h)
        PROVE  CoupledInv'
    <3>1. CASE log' = Append(log, c) /\ flush' = IF Len(log') - h >= MaxBatch THEN Flush(log', h) ELSE flush
      <4>1. log' \in Seq(Calls) /\ FlushFits(log', flush)
        BY <1>1, <3>1, PushProperties, PushFits
      <4>2. flush' = flush \/ flush'.phase # "settled"
        BY <1>5, <3>1, <4>1
      <4> QED BY <1>3, <1>4, <2>1, <3>1, <4>2
    <3>2. CASE UNCHANGED <<log, flush>>
      BY <1>3, <1>4, <2>1, <3>2
    <3> QED BY <2>2, <3>1, <3>2 DEF PushOrRefuse
  <2>3. CASE DropNew(c)
    BY <1>3, <1>4, <2>1, <2>3 DEF DropNew
  <2>4. CASE DropOldest(c)
    BY <1>1, <2>2, <2>4 DEF DropOldest
  <2>5. CASE Block(c)
    BY <1>1, <1>3, <1>4, <1>5, <2>1, <2>5 DEF Block
  <2>6. CASE PushOrRefuse(c, head)
    BY <1>1, <2>2, <2>6
  <2> QED BY <1>6, <2>3, <2>4, <2>5, <2>6 DEF TryEnqueue
<1>7. ASSUME NEW r \in Requests, RequestCoupledFlush(r)
      PROVE  CoupledInv'
  <2>1. flush'.phase = "settled" /\ flush'.ok => \A c \in Group' : copies'[c] > 0
    BY <1>1, <1>3, <1>5, <1>7 DEF RequestCoupledFlush
  <2>2. \A c \in Calls : coupled'[c] # NoRequest => c \in coupled'[c]
    BY <1>1, <1>7 DEF RequestCoupledFlush, CoupledInv
  <2>3. CoupledMeansStored'
    BY <1>1, <1>7 DEF RequestCoupledFlush, CoupledInv, CoupledMeansStored
  <2> QED BY <2>1, <2>2, <2>3 DEF CoupledInv
<1>8. ASSUME NEW r \in Requests, CoupledTimeout(r)
      PROVE  CoupledInv'
  <2>1. flush'.phase = "settled" /\ flush'.ok => \A c \in Group' : copies'[c] > 0
    BY <1>3, <1>8 DEF CoupledTimeout
  <2>2. \A c \in Calls : coupled'[c] # NoRequest => c \in coupled'[c]
    BY <1>1, <1>8 DEF CoupledTimeout, CoupledInv
  <2>3. CoupledMeansStored'
    BY <1>1, <1>8 DEF CoupledTimeout, CoupledInv, CoupledMeansStored
  <2> QED BY <2>1, <2>2, <2>3 DEF CoupledInv
<1>9. ASSUME UNCHANGED copies \/ StoreGroup, UNCHANGED <<coupled, wait>>,
             flush'.phase = "settled" /\ flush'.ok => \A c \in Group' : copies'[c] > 0
      PROVE  CoupledInv'
  <2>1. \A c \in Calls : copies[c] > 0 => copies'[c] > 0
    <3>1. CASE copies' = copies
      BY <3>1
    <3>2. CASE StoreGroup
      <4>1. \A c \in Calls : copies[c] \in Nat /\ copies'[c] \in {copies[c], copies[c] + 1}
        BY <1>1, <3>2 DEF StoreGroup
      <4> QED BY <4>1
    <3> QED BY <1>9, <3>1, <3>2
  <2>2. \A r \in Requests : r \subseteq Calls
    BY RequestsAssumption
  <2> QED BY <1>9, <2>1, <2>2 DEF CoupledInv, CoupledMeansStored
<1>10. CASE WriteResolves
  <2>1. Group' = Group
    BY <1>1, <1>10 DEF WriteResolves, Group, Batch, FlushType
  <2>2. \A c \in Group : copies'[c] > 0
    BY <1>1, <1>2, <1>10 DEF WriteResolves, StoreGroup
  <2> QED BY <1>9, <1>10, <2>1, <2>2 DEF WriteResolves
<1>11. CASE WriteRejects
  <2>1. flush'.phase = "settled" => ~flush'.ok
    <3>1. CASE flush' = [flush EXCEPT !.phase = "backoff", !.attempts = @ + 1]
      BY <1>1, <3>1 DEF FlushType
    <3>2. CASE flush' = [flush EXCEPT !.phase = "settled", !.ok = FALSE]
      BY <1>1, <3>2 DEF FlushType
    <3>3. CASE flush' = [flush EXCEPT !.phase = "rejected"]
      BY <1>1, <3>3 DEF FlushType
    <3> QED BY <1>11, <3>1, <3>2, <3>3 DEF WriteRejects
  <2>2. (UNCHANGED copies \/ StoreGroup) /\ UNCHANGED <<coupled, wait>>
    BY <1>11 DEF WriteRejects, RejectedWrite
  <2> QED BY <1>9, <2>1, <2>2
<1>12. CASE BackoffEnds
  <2>1. flush'.phase # "settled"
    BY <1>1, <1>12 DEF BackoffEnds, FlushType
  <2> QED BY <1>4, <1>12, <2>1 DEF BackoffEnds
<1>13. CASE GroupSettled
  <2> DEFINE f == [flush EXCEPT !.done = @ \cup {flush.store}]
  <2>1. f \in FlushType
    BY <1>1 DEF FlushType
  <2>2. flush'.phase # "settled" /\ UNCHANGED copies
    BY <1>1, <1>13, <2>1 DEF GroupSettled, BeginGroup, FlushType
  <2>3. CASE ResolveCoupled(Group) /\ flush.phase = "settled" /\ flush.ok
    <3> DEFINE resolved == {coupled[c] : c \in Group} \ {NoRequest}
    <3>1. \A c \in Calls : coupled'[c] # NoRequest => c \in coupled'[c]
      BY <1>1, <2>3 DEF ResolveCoupled, CoupledInv
    <3>2. ASSUME NEW r \in Requests, r \in resolved
          PROVE  \A c \in r : copies[c] > 0
      <4>1. PICK c \in Group : coupled[c] = r /\ r # NoRequest
        BY <3>2
      <4>2. c \in Calls /\ c \in r /\ copies[c] > 0
        BY <1>2, <2>3, <4>1 DEF CoupledInv
      <4>3. r = {c}
        BY <4>2 DEF OneIdPerRequest
      <4> QED BY <4>2, <4>3
    <3>3. \A r \in Requests : wait'[r] = "resolved" => wait[r] = "resolved" \/ r \in resolved
      BY <1>1, <2>3 DEF ResolveCoupled
    <3>4. CoupledMeansStored'
      BY <2>2, <3>2, <3>3 DEF CoupledInv, CoupledMeansStored
    <3> QED BY <2>2, <3>1, <3>4 DEF CoupledInv
  <2>4. CASE UNCHANGED <<wait, coupled>>
    BY <1>4, <2>2, <2>4
  <2> QED BY <1>13, <2>3, <2>4 DEF GroupSettled
<1>14. CASE CompleteFlush
  <2>1. flush'.phase # "settled"
    BY <1>1, <1>14, FlushBatchProperties DEF CompleteFlush, NoFlush
  <2> QED BY <1>4, <1>14, <2>1 DEF CompleteFlush
<1>15. CASE Shutdown \/ RaceEnds \/ AwaitEnds \/ AwaitRejects
  <2>1. UNCHANGED <<log, coupled, wait, copies>> /\ (flush' = flush \/ flush' = Flush(log, head))
    BY <1>15 DEF Shutdown, RaceEnds, AwaitEnds, AwaitRejects, ShutdownLoop, shutdownFrame
  <2> QED BY <1>1, <1>3, <1>4, <1>5, <2>1
<1>16. CASE UNCHANGED <<log, coupled, wait, copies>> /\ (flush' = flush \/ flush' = Flush(log, head))
  BY <1>1, <1>3, <1>4, <1>5, <1>16
<1> QED BY <1>6, <1>7, <1>8, <1>10, <1>11, <1>12, <1>13, <1>14, <1>15, <1>16
        DEF Next, FlushStep, ShutdownStep, Start, Tick, Enqueue, Resume, DeadlinePasses, vars, state

\* A coupled request that resolves has its event in its store: with every overflow
\* strategy, whatever the stores and the dead-letter handler do, and during shutdown.
THEOREM CoupledRequestsAreStored ==
    ASSUME OneIdPerRequest
    PROVE  Spec => []CoupledMeansStored
<1>1. Init => CoupledInv
  BY DEF Init, CoupledInv, CoupledMeansStored, NoFlush
<1>2. TypeInv /\ CoupledInv /\ [Next]_vars => CoupledInv'
  BY CoupledStep
<1>3. CoupledInv => CoupledMeansStored
  BY DEF CoupledInv
<1> QED BY <1>1, <1>2, <1>3, TypeInit, TypeStep, PTL DEF Spec

-----------------------------------------------------------------------------
(* What a step does to the counts, with every overflow strategy. *)

\* A flush may begin at the head.
FlushMayBegin == flush' = flush \/ (flush.phase = "none" /\ flush' = FlushBatch(log', head'))

\* Steps outside of the flush: a push, a refusal, an eviction, the start of a flush.
Quiet ==
    /\ UNCHANGED <<copies, dead, written, deadLettered, lostAcks, dlqFailures>> /\ FlushMayBegin
    /\ \/ log' = log
       \/ accepting /\ \E c \in Calls : call[c] \in {"idle", "woken"} /\ log' = Append(log, c)
    /\ \/ head' = head /\ dropped' >= dropped
       \/ /\ overflow = "dropOldest" /\ size >= Capacity /\ head' = head + 1 /\ dropped' = dropped + 1
          /\ accepting => log' # log
    /\ accepting' => accepting

LEMMA EnqueueQuiet ==
    ASSUME TypeInv, NEW c \in Calls, call[c] \in {"idle", "woken"}, TryEnqueue(c)
    PROVE  Quiet
<1> USE DEF outside, counters, shutdownVars
<1>1. log \in Seq(Calls) /\ head \in Nat /\ dropped \in Nat /\ FlushFits(log, flush)
  BY DEF TypeInv, TypeOK
<1>2. UNCHANGED <<copies, dead, written, deadLettered, lostAcks, dlqFailures, accepting>>
  BY DEF TryEnqueue
<1>3. ASSUME NEW h \in Nat, PushOrRefuse(c, h)
      PROVE  /\ FlushMayBegin /\ head' = h
             /\ \/ log' = log /\ ~accepting
                \/ accepting /\ log' = Append(log, c) /\ log' # log
  <2>1. CASE ~accepting /\ UNCHANGED <<log, flush>> /\ head' = h
    BY <2>1 DEF FlushMayBegin
  <2>2. CASE /\ accepting /\ log' = Append(log, c) /\ head' = h
             /\ flush' = IF Len(log') - h >= MaxBatch THEN Flush(log', h) ELSE flush
    <3>1. log' # log
      BY <1>1, <2>2, PushProperties
    <3>2. FlushMayBegin
      BY <2>2 DEF FlushMayBegin, Flush
    <3> QED BY <2>2, <3>1, <3>2
  <2> QED BY <1>3, <2>1, <2>2 DEF PushOrRefuse
<1>4. CASE size >= Capacity /\ DropNew(c)
  BY <1>1, <1>2, <1>4 DEF DropNew, Quiet, FlushMayBegin
<1>5. CASE size >= Capacity /\ DropOldest(c)
  <2>1. PushOrRefuse(c, head + 1) /\ head + 1 \in Nat /\ overflow = "dropOldest" /\ dropped' = dropped + 1
    BY <1>1, <1>5 DEF DropOldest
  <2>2. /\ FlushMayBegin /\ head' = head + 1
        /\ \/ log' = log /\ ~accepting
           \/ accepting /\ log' = Append(log, c) /\ log' # log
    BY <1>3, <2>1
  <2> QED BY <1>2, <1>5, <2>1, <2>2 DEF Quiet
<1>6. CASE size >= Capacity /\ Block(c)
  <2>1. UNCHANGED <<log, head, dropped>> /\ FlushMayBegin
    BY <1>6 DEF Block, FlushMayBegin, Flush
  <2> QED BY <1>1, <1>2, <2>1 DEF Quiet
<1>7. CASE PushOrRefuse(c, head) /\ UNCHANGED <<dropped, announced>>
  <2>1. /\ FlushMayBegin /\ head' = head
        /\ \/ log' = log /\ ~accepting
           \/ accepting /\ log' = Append(log, c) /\ log' # log
    BY <1>1, <1>3, <1>7
  <2> QED BY <1>1, <1>2, <1>7, <2>1 DEF Quiet
<1> QED BY <1>4, <1>5, <1>6, <1>7 DEF TryEnqueue

\* Every step of a pipeline that serves is quiet or one of the flush.
LEMMA ServiceKinds ==
    ASSUME TypeInv, [Next]_vars, InService'
    PROVE  InService /\ (Quiet \/ FlushStep)
<1> USE DEF outside, counters, shutdownVars
<1>1. log \in Seq(Calls) /\ head \in Nat /\ dropped \in Nat
  BY DEF TypeInv, TypeOK
<1>2. CASE /\ UNCHANGED <<log, head, copies, dead, dropped, written, deadLettered, lostAcks, dlqFailures>>
           /\ flush' = flush \/ flush' = Flush(log, head)
           /\ (accepting' => accepting) /\ (shut' = shut \/ shut \in {"no", "racing"})
  BY <1>1, <1>2 DEF Quiet, FlushMayBegin, Flush, InService
<1>3. ASSUME NEW c \in Calls, Enqueue(c) \/ Resume(c)
      PROVE  InService /\ Quiet
  <2>1. call[c] \in {"idle", "woken"} /\ TryEnqueue(c) /\ shut' = shut
    BY <1>3 DEF Enqueue, Resume, TryEnqueue
  <2> QED BY <2>1, EnqueueQuiet DEF InService
<1>4. CASE FlushStep
  BY <1>4 DEF FlushStep, WriteResolves, WriteRejects, BackoffEnds, GroupSettled, CompleteFlush, InService
<1>5. ASSUME ShutdownLoop, UNCHANGED <<log, copies, dropped, written, lostAcks>>,
             accepting' => accepting, shut \in {"no", "racing"}
      PROVE  InService /\ Quiet
  <2>1. ~DeadLetterRest
    BY DEF DeadLetterRest, InService
  <2>2. UNCHANGED <<head, dead, deadLettered, dlqFailures>> /\ (flush' = flush \/ flush' = Flush(log, head))
    BY <1>5, <2>1 DEF ShutdownLoop
  <2>3. FlushMayBegin
    BY <1>5, <2>2 DEF FlushMayBegin, Flush
  <2>4. dropped' >= dropped
    BY <1>1, <1>5
  <2> QED BY <1>5, <2>2, <2>3, <2>4 DEF Quiet, InService
<1>6. CASE Shutdown
  BY <1>5, <1>6 DEF Shutdown
<1>7. CASE RaceEnds
  BY <1>5, <1>7 DEF RaceEnds, shutdownFrame
<1>8. CASE AwaitEnds \/ AwaitRejects
  BY <1>8 DEF AwaitEnds, AwaitRejects, DeadLetterRest, InService
<1>9. CASE Start \/ Tick \/ DeadlinePasses \/ UNCHANGED vars
  BY <1>2, <1>9 DEF Start, Tick, DeadlinePasses, vars, state
<1>10. ASSUME NEW r \in Requests, RequestCoupledFlush(r) \/ CoupledTimeout(r)
       PROVE  InService /\ (Quiet \/ FlushStep)
  BY <1>2, <1>10 DEF RequestCoupledFlush, CoupledTimeout
<1> QED BY <1>3, <1>4, <1>6, <1>7, <1>8, <1>9, <1>10 DEF Next, ShutdownStep

\* A flush that is writing has a group with something to write.
FlightInv == InService /\ InFlight => flush.len > 0 /\ flush.store \notin flush.done

LEMMA NewFlushFlies ==
    ASSUME NEW l \in Seq(Calls), NEW h \in Nat
    PROVE  LET f == FlushBatch(l, h)
           IN  f.phase = "writing" => f.len > 0 /\ f.store \notin f.done
<1> DEFINE g == [NoFlush EXCEPT !.from = h, !.len = PeekCount(l, h)]
<1>1. /\ FlushFits(l, g) /\ g.len = PeekCount(l, h) /\ g.done = {} /\ g.phase = "none" /\ g.len \in Nat
  BY PeekCountProperties DEF FlushFits, FlushType, NoFlush
<1> HIDE DEF g
<1>2. CASE \E i \in Batch(g) : Route[l[i]] = NoStore
  <2>1. FlushBatch(l, h) = [g EXCEPT !.phase = "rejected"]
    BY <1>2 DEF FlushBatch, g
  <2> QED BY <1>1, <2>1 DEF FlushFits, FlushType
<1>3. CASE ~(\E i \in Batch(g) : Route[l[i]] = NoStore) /\ g.len = 0
  <2>1. FlushBatch(l, h) = [g EXCEPT !.phase = "removed"]
    BY <1>3 DEF FlushBatch, g
  <2> QED BY <1>1, <2>1 DEF FlushFits, FlushType
<1>4. CASE ~(\E i \in Batch(g) : Route[l[i]] = NoStore) /\ g.len # 0
  <2>1. FlushBatch(l, h) = BeginGroup(l, g)
    BY <1>4 DEF FlushBatch, g
  <2>2. BeginGroup(l, g).len = g.len /\ BeginGroup(l, g).done = g.done
    BY <1>1 DEF BeginGroup, FlushFits, FlushType
  <2> QED BY <1>1, <1>4, <2>1, <2>2
<1> QED BY <1>2, <1>3, <1>4

LEMMA FlightStep ==
    ASSUME TypeInv, FlightInv, [Next]_vars
    PROVE  FlightInv'
<1>1. /\ log \in Seq(Calls) /\ head \in Nat /\ FlushFits(log, flush) /\ flush \in FlushType
  BY DEF TypeInv, TypeOK
<1>2. log' \in Seq(Calls) /\ head' \in Nat
  BY TypeStep DEF TypeInv, TypeOK
<1> SUFFICES ASSUME InService', InFlight' PROVE flush'.len > 0 /\ flush'.store \notin flush'.done
  BY DEF FlightInv
<1>3. InService /\ (Quiet \/ FlushStep)
  BY ServiceKinds
<1>4. ASSUME flush' = FlushBatch(log', head') PROVE flush'.len > 0 /\ flush'.store \notin flush'.done
  <2>1. flush'.phase = "writing"
    BY <1>2, <1>4, FlushBatchProperties DEF InFlight
  <2> QED BY <1>2, <1>4, <2>1, NewFlushFlies
<1>5. CASE Quiet
  BY <1>3, <1>4, <1>5 DEF Quiet, FlushMayBegin, FlightInv, InFlight
<1>6. CASE WriteResolves \/ WriteRejects \/ BackoffEnds
  <2>1. /\ InFlight /\ flush'.len = flush.len /\ flush'.done = flush.done /\ flush'.store = flush.store
    BY <1>1, <1>6 DEF WriteResolves, WriteRejects, BackoffEnds, InFlight, FlushType
  <2> QED BY <1>3, <2>1 DEF FlightInv
<1>7. CASE GroupSettled
  <2> DEFINE f == [flush EXCEPT !.done = @ \cup {flush.store}]
  <2>1. /\ InFlight /\ f \in FlushType /\ FlushFits(log, f) /\ f.len = flush.len
    BY <1>1, <1>7 DEF GroupSettled, InFlight, FlushFits, FlushType
  <2> HIDE DEF f
  <2>2. CASE flush' = [f EXCEPT !.phase = "removed"]
    BY <2>1, <2>2 DEF InFlight, FlushType
  <2>3. CASE Ungrouped(log, f) # {} /\ flush' = BeginGroup(log, f)
    <3>1. PICK i \in Ungrouped(log, f) : NextStore(log, f) = Route[log[i]]
      BY <1>1, <2>1, <2>3, NextStoreProperties
    <3>2. NextStore(log, f) \notin f.done
      BY <3>1 DEF Ungrouped
    <3>3. flush'.len = f.len /\ flush'.done = f.done /\ flush'.store = NextStore(log, f)
      BY <2>1, <2>3 DEF BeginGroup, FlushType
    <3> QED BY <1>3, <2>1, <3>2, <3>3 DEF FlightInv
  <2> QED BY <1>7, <2>2, <2>3 DEF GroupSettled, f
<1>8. CASE CompleteFlush
  <2>1. UNCHANGED <<log, head>>
    BY <1>8 DEF CompleteFlush
  <2>2. flush' # NoFlush
    BY DEF InFlight, NoFlush
  <2> QED BY <1>4, <1>8, <2>1, <2>2 DEF CompleteFlush
<1> QED BY <1>3, <1>5, <1>6, <1>7, <1>8 DEF FlushStep

-----------------------------------------------------------------------------
(* The counters, where nothing is evicted. *)

\* The slots of the group in hand.
GroupSlots == {i \in Batch(flush) : Route[log[i]] = flush.store}

\* The size of an interval.
LEMMA IntervalSize ==
    ASSUME NEW a \in Int, NEW b \in Int, a <= b + 1
    PROVE  IsFiniteSet(a .. b) /\ Cardinality(a .. b) = b - a + 1
BY FS_Interval

\* Each event of the group has one slot.
LEMMA GroupSize ==
    ASSUME TypeInv, OnlyAccepted
    PROVE  /\ IsFiniteSet(Batch(flush)) /\ Cardinality(Batch(flush)) = flush.len
           /\ IsFiniteSet(GroupSlots) /\ Cardinality(Group) = Cardinality(GroupSlots)
<1>1. /\ log \in Seq(Calls) /\ FlushFits(log, flush) /\ flush.from \in Nat /\ flush.len \in Nat
  BY DEF TypeInv, TypeOK, FlushType
<1>2. IsFiniteSet(Batch(flush)) /\ Cardinality(Batch(flush)) = flush.len
  <2>1. /\ flush.from + 1 \in Int /\ flush.from + flush.len \in Int
        /\ flush.from + 1 <= flush.from + flush.len + 1
        /\ flush.from + flush.len - (flush.from + 1) + 1 = flush.len
    BY <1>1
  <2>2. \A a, b \in Int : a <= b + 1 => IsFiniteSet(a .. b) /\ Cardinality(a .. b) = b - a + 1
    BY IntervalSize
  <2>3. PICK a \in Int, b \in Int : a = flush.from + 1 /\ b = flush.from + flush.len
    BY <2>1
  <2>4. a <= b + 1 /\ b - a + 1 = flush.len
    BY <1>1, <2>3
  <2>5. Batch(flush) = a .. b
    BY <2>3 DEF Batch
  <2> QED BY <2>2, <2>4, <2>5
<1>3. IsFiniteSet(GroupSlots)
  BY <1>2, FS_Subset DEF GroupSlots
<1> DEFINE m == [i \in GroupSlots |-> log[i]]
<1>4. m \in Surjection(GroupSlots, Group)
  BY DEF Surjection, GroupSlots, Group
<1>5. m \in Injection(GroupSlots, Group)
  <2>1. \A i \in GroupSlots : i \in 1 .. Len(log)
    BY <1>1, BatchInLog DEF GroupSlots
  <2>2. \A i, j \in GroupSlots : m[i] = m[j] => i = j
    BY <2>1 DEF OnlyAccepted
  <2>3. m \in [GroupSlots -> Group]
    BY <1>4 DEF Surjection
  <2> QED BY <2>2, <2>3 DEF Injection, IsInjective
<1>6. Cardinality(Group) = Cardinality(GroupSlots)
  BY <1>3, <1>4, <1>5, FS_Surjection
<1> QED BY <1>2, <1>3, <1>6

\* What is counted of the batch lies in it.
LEMMA CountedFinite ==
    ASSUME TypeInv, OnlyAccepted
    PROVE  IsFiniteSet(CountedInBatch) /\ Cardinality(CountedInBatch) \in Nat
<1>1. CountedInBatch \subseteq Batch(flush)
  BY DEF CountedInBatch
<1> QED BY <1>1, GroupSize, FS_Subset, FS_CardinalityType

\* A quiet step counts nothing.
LEMMA QuietCounts ==
    ASSUME TypeInv, Quiet, head' \in Nat, log' \in Seq(Calls)
    PROVE  CountedInBatch' = CountedInBatch
<1>1. log \in Seq(Calls) /\ FlushFits(log, flush)
  BY DEF TypeInv, TypeOK
<1>2. CASE flush.phase = "none" /\ flush' = FlushBatch(log', head')
  <2>1. flush'.phase \in {"writing", "rejected", "removed"} /\ flush'.done = {}
    BY <1>2, FlushBatchProperties
  <2> QED BY <1>2, <2>1 DEF CountedInBatch, InFlight
<1>3. CASE flush' = flush
  <2>1. \A i \in Batch(flush) : log'[i] = log[i]
    BY <1>1, BatchInLog, PushProperties DEF Quiet
  <2> QED BY <1>3, <2>1 DEF CountedInBatch, InFlight
<1> QED BY <1>2, <1>3 DEF Quiet, FlushMayBegin

\* A step of the flush goes on with the batch, settles a group, stops at the dead-letter
\* handler, or takes the batch out of the buffer.
GoesOn ==
    /\ CountedInBatch' = CountedInBatch
    /\ UNCHANGED <<head, written, deadLettered, dlqFailures>>

SettlesGroup ==
    /\ InFlight /\ CountedInBatch' = CountedInBatch \cup GroupSlots /\ CountedInBatch \cap GroupSlots = {}
    /\ UNCHANGED <<head, dlqFailures>>
    /\ written' + deadLettered' = written + deadLettered + Cardinality(Group)

StopsAtHandler == InFlight /\ dlqFailures' = dlqFailures + 1 /\ CountedInBatch' = {} /\ UNCHANGED head

Leaves ==
    /\ InFlight /\ CountedInBatch = Batch(flush) /\ CountedInBatch' = {} /\ head' = head + flush.len
    /\ UNCHANGED <<written, deadLettered, dlqFailures>>

\* What the writes of a step add to the stores.
Stores1 == UNCHANGED <<copies, lostAcks>>
StoresUnseen == flush.phase = "writing" /\ StoreGroup /\ lostAcks' = lostAcks + 1
StoresCounted == flush.phase = "writing" /\ StoreGroup /\ UNCHANGED lostAcks

LEMMA FlushCounts ==
    ASSUME TypeInv, FlightInv, InService, FlushStep
    PROVE  /\ UNCHANGED <<log, dropped>> /\ accepting' = accepting
           /\ \/ GoesOn /\ (Stores1 \/ StoresUnseen)
              \/ SettlesGroup /\ (Stores1 \/ StoresUnseen \/ StoresCounted)
              \/ StopsAtHandler /\ (Stores1 \/ StoresUnseen)
              \/ Leaves /\ Stores1
<1> USE DEF outside, counters, shutdownVars
<1>1. /\ log \in Seq(Calls) /\ head \in Nat /\ flush \in FlushType /\ FlushFits(log, flush)
      /\ written \in Nat /\ deadLettered \in Nat
  BY DEF TypeInv, TypeOK
<1>2. Cardinality(Group) \in Nat
  BY GroupInCalls, EventCount
<1>3. ASSUME flush.phase = "writing", log' = log,
             flush'.from = flush.from, flush'.len = flush.len, flush'.done = flush.done,
             flush'.store = flush.store
      PROVE  /\ flush'.phase = "settled" => /\ CountedInBatch' = CountedInBatch \cup GroupSlots
                                            /\ CountedInBatch \cap GroupSlots = {}
             /\ flush'.phase = "backoff" => CountedInBatch' = CountedInBatch
             /\ flush'.phase = "rejected" => CountedInBatch' = {}
  <2>1. Batch(flush') = Batch(flush) /\ InFlight
    BY <1>3 DEF Batch, InFlight
  <2>2. flush.store \notin flush.done
    BY <2>1 DEF FlightInv
  <2>3. CountedInBatch = {i \in Batch(flush) : Route[log[i]] \in flush.done}
    BY <1>3, <2>1 DEF CountedInBatch
  <2>4. flush'.phase = "settled" => CountedInBatch' = CountedInBatch \cup GroupSlots
    BY <1>3, <2>1, <2>3 DEF CountedInBatch, InFlight, GroupSlots
  <2>5. flush'.phase = "backoff" => CountedInBatch' = CountedInBatch
    BY <1>3, <2>1, <2>3 DEF CountedInBatch, InFlight
  <2>6. flush'.phase = "rejected" => CountedInBatch' = {}
    BY DEF CountedInBatch, InFlight
  <2>7. CountedInBatch \cap GroupSlots = {}
    BY <2>2, <2>3 DEF GroupSlots
  <2> QED BY <2>4, <2>5, <2>6, <2>7
<1>4. CASE WriteResolves
  <2>1. /\ flush.phase = "writing" /\ flush'.phase = "settled" /\ InFlight
        /\ flush'.from = flush.from /\ flush'.len = flush.len /\ flush'.done = flush.done
        /\ flush'.store = flush.store
    BY <1>1, <1>4 DEF WriteResolves, FlushType, InFlight
  <2>2. /\ UNCHANGED <<log, head, accepting, dropped, deadLettered, lostAcks, dlqFailures>>
        /\ StoreGroup /\ written' = written + Cardinality(Group)
    BY <1>4 DEF WriteResolves
  <2>3. SettlesGroup
    BY <1>1, <1>2, <1>3, <2>1, <2>2 DEF SettlesGroup
  <2> QED BY <2>1, <2>2, <2>3 DEF StoresCounted
<1>5. CASE WriteRejects
  <2>1. /\ flush.phase = "writing" /\ InFlight
        /\ UNCHANGED <<log, head, accepting, dropped, written>>
    BY <1>5 DEF WriteRejects, InFlight
  <2>2. Stores1 \/ StoresUnseen
    BY <1>5, <2>1 DEF WriteRejects, RejectedWrite, Stores1, StoresUnseen
  <2>3. CASE flush' = [flush EXCEPT !.phase = "backoff", !.attempts = @ + 1]
             /\ UNCHANGED <<dead, deadLettered, dlqFailures>>
    <3>1. /\ flush'.phase = "backoff" /\ flush'.from = flush.from /\ flush'.len = flush.len
          /\ flush'.done = flush.done /\ flush'.store = flush.store
      BY <1>1, <2>3 DEF FlushType
    <3>2. GoesOn
      BY <1>3, <2>1, <2>3, <3>1 DEF GoesOn
    <3> QED BY <2>1, <2>2, <3>2
  <2>4. CASE DeadLetter(Group) /\ flush' = [flush EXCEPT !.phase = "settled", !.ok = FALSE]
    <3>1. /\ flush'.phase = "settled" /\ flush'.from = flush.from /\ flush'.len = flush.len
          /\ flush'.done = flush.done /\ flush'.store = flush.store
      BY <1>1, <2>4 DEF FlushType
    <3>2. SettlesGroup
      BY <1>1, <1>2, <1>3, <2>1, <2>4, <3>1 DEF SettlesGroup, DeadLetter
    <3> QED BY <2>1, <2>2, <3>2
  <2>5. CASE DeadLetterThrows /\ flush' = [flush EXCEPT !.phase = "rejected"]
    <3>1. /\ flush'.phase = "rejected" /\ flush'.from = flush.from /\ flush'.len = flush.len
          /\ flush'.done = flush.done /\ flush'.store = flush.store
      BY <1>1, <2>5 DEF FlushType
    <3>2. StopsAtHandler
      BY <1>3, <2>1, <2>5, <3>1 DEF StopsAtHandler, DeadLetterThrows
    <3> QED BY <2>1, <2>2, <3>2
  <2> QED BY <1>5, <2>3, <2>4, <2>5 DEF WriteRejects
<1>6. CASE BackoffEnds
  <2>1. /\ flush.phase = "backoff" /\ flush'.phase = "writing" /\ Batch(flush') = Batch(flush)
        /\ flush'.done = flush.done /\ flush'.store = flush.store
    BY <1>1, <1>6 DEF BackoffEnds, FlushType, Batch
  <2>2. UNCHANGED <<log, head, accepting, dropped, written, deadLettered, copies, lostAcks, dlqFailures>>
    BY <1>6 DEF BackoffEnds
  <2>3. CountedInBatch' = CountedInBatch
    BY <2>1, <2>2 DEF CountedInBatch, InFlight
  <2> QED BY <2>2, <2>3 DEF GoesOn, Stores1
<1>7. CASE GroupSettled
  <2> DEFINE f == [flush EXCEPT !.done = @ \cup {flush.store}]
  <2>1. /\ InFlight /\ flush.phase = "settled" /\ f \in FlushType /\ Batch(f) = Batch(flush)
        /\ f.done = flush.done \cup {flush.store} /\ f.phase = "settled"
    BY <1>1, <1>7 DEF GroupSettled, InFlight, FlushType, Batch
  <2>2. UNCHANGED <<log, accepting, dropped, written, deadLettered, copies, lostAcks, dlqFailures>>
    BY <1>7 DEF GroupSettled
  <2>3. CountedInBatch = {i \in Batch(flush) : Route[log[i]] \in f.done}
    BY <2>1 DEF CountedInBatch
  <2> HIDE DEF f
  <2>4. CASE Ungrouped(log, f) # {} /\ flush' = BeginGroup(log, f) /\ UNCHANGED head
    <3>1. flush'.phase = "writing" /\ flush'.done = f.done /\ Batch(flush') = Batch(flush)
      BY <2>1, <2>4 DEF BeginGroup, FlushType, Batch
    <3>2. CountedInBatch' = CountedInBatch
      BY <2>2, <2>3, <3>1 DEF CountedInBatch, InFlight
    <3> QED BY <2>2, <2>4, <3>2 DEF GoesOn, Stores1
  <2>5. CASE Ungrouped(log, f) = {} /\ flush' = [f EXCEPT !.phase = "removed"] /\ head' = head + flush.len
    <3>1. flush'.phase = "removed"
      BY <2>1, <2>5 DEF FlushType
    <3>2. CountedInBatch' = {}
      BY <3>1 DEF CountedInBatch, InFlight
    <3>3. CountedInBatch = Batch(flush)
      BY <2>1, <2>3, <2>5 DEF Ungrouped
    <3> QED BY <2>1, <2>2, <2>5, <3>2, <3>3 DEF Leaves, Stores1
  <2> QED BY <1>7, <2>4, <2>5 DEF GroupSettled, RemoveBuffered, f
<1>8. CASE CompleteFlush
  <2>1. UNCHANGED <<log, head, accepting, dropped, written, deadLettered, copies, lostAcks, dlqFailures>>
    BY <1>8 DEF CompleteFlush
  <2>2. CountedInBatch = {}
    BY <1>8 DEF CompleteFlush, CountedInBatch, InFlight
  <2>3. flush'.phase \in {"none", "writing", "rejected", "removed"} /\ flush'.done = {}
    BY <1>1, <1>8, FlushBatchProperties DEF CompleteFlush, NoFlush
  <2>4. CountedInBatch' = {}
    BY <2>3 DEF CountedInBatch, InFlight
  <2> QED BY <2>1, <2>2, <2>4 DEF GoesOn, Stores1
<1> QED BY <1>4, <1>5, <1>6, <1>7, <1>8 DEF FlushStep

\* A step keeps the books of stats() balanced.
LEMMA StatsStep ==
    ASSUME overflow # "dropOldest", TypeInv, SafetyInv, FlightInv, StatsReconcile, [Next]_vars
    PROVE  StatsReconcile'
<1> SUFFICES ASSUME InService', dlqFailures' = 0
             PROVE  (head + Cardinality(CountedInBatch) = written + deadLettered)'
  BY DEF StatsReconcile
<1>1. /\ head \in Nat /\ written \in Nat /\ deadLettered \in Nat /\ dlqFailures \in Nat
      /\ flush.len \in Nat /\ OnlyAccepted /\ log' \in Seq(Calls) /\ head' \in Nat
  BY TypeStep DEF TypeInv, TypeOK, FlushType, SafetyInv
<1>2. InService /\ (Quiet \/ FlushStep)
  BY ServiceKinds
<1>3. IsFiniteSet(CountedInBatch) /\ Cardinality(CountedInBatch) \in Nat
  BY <1>1, CountedFinite
<1>4. dlqFailures = 0 => head + Cardinality(CountedInBatch) = written + deadLettered
  BY <1>2 DEF StatsReconcile
<1>5. CASE Quiet
  <2>1. CountedInBatch' = CountedInBatch
    BY <1>1, <1>5, QuietCounts
  <2>2. UNCHANGED <<head, written, deadLettered, dlqFailures>>
    BY <1>5 DEF Quiet
  <2> QED BY <1>4, <2>1, <2>2
<1>6. CASE FlushStep
  <2>1. GoesOn \/ SettlesGroup \/ StopsAtHandler \/ Leaves
    BY <1>2, <1>6, FlushCounts
  <2>2. CASE GoesOn
    BY <1>4, <2>2 DEF GoesOn
  <2>3. CASE SettlesGroup
    <3>1. IsFiniteSet(GroupSlots) /\ Cardinality(Group) = Cardinality(GroupSlots)
      BY <1>1, GroupSize
    <3>2. Cardinality(GroupSlots) \in Nat
      BY <3>1, FS_CardinalityType
    <3>3. Cardinality(CountedInBatch \cup GroupSlots)
            = Cardinality(CountedInBatch) + Cardinality(GroupSlots) - Cardinality(CountedInBatch \cap GroupSlots)
      BY <1>3, <3>1, FS_Union
    <3>4. Cardinality(CountedInBatch \cap GroupSlots) = 0
      BY <2>3, FS_EmptySet DEF SettlesGroup
    <3>5. Cardinality(CountedInBatch') = Cardinality(CountedInBatch) + Cardinality(Group)
      BY <1>3, <2>3, <3>1, <3>2, <3>3, <3>4 DEF SettlesGroup
    <3>6. UNCHANGED <<head, dlqFailures>> /\ written' + deadLettered' = written + deadLettered + Cardinality(Group)
      BY <2>3 DEF SettlesGroup
    <3> QED BY <1>1, <1>3, <1>4, <3>1, <3>2, <3>5, <3>6
  <2>4. CASE StopsAtHandler
    BY <1>1, <2>4 DEF StopsAtHandler
  <2>5. CASE Leaves
    <3>1. Cardinality(CountedInBatch) = flush.len
      BY <1>1, <2>5, GroupSize DEF Leaves
    <3>2. Cardinality(CountedInBatch') = 0
      BY <2>5, FS_EmptySet DEF Leaves
    <3>3. head' = head + flush.len /\ UNCHANGED <<written, deadLettered, dlqFailures>>
      BY <2>5 DEF Leaves
    <3> QED BY <1>1, <1>4, <3>1, <3>2, <3>3
  <2> QED BY <2>1, <2>2, <2>3, <2>4, <2>5
<1> QED BY <1>2, <1>5, <1>6

\* The types and the flush in hand, always.
LEMMA FlightAlways == Spec => [](TypeInv /\ FlightInv)
<1>1. Init => FlightInv
  BY DEF Init, FlightInv, InFlight, NoFlush
<1>2. TypeInv /\ FlightInv /\ [Next]_vars => FlightInv'
  BY FlightStep
<1> QED BY <1>1, <1>2, TypeInit, TypeStep, PTL DEF Spec

\* With block and dropNew, stats() loses and doubles nothing as long as the pipeline
\* serves and the dead-letter handler does not throw: every event that left the buffer,
\* or whose group of the current batch is settled, is counted once, as written or as
\* dead-lettered.
THEOREM BooksBalance ==
    ASSUME "dropOldest" \notin Overflows
    PROVE  Spec => []StatsReconcile
<1> DEFINE NoEviction == overflow # "dropOldest"
<1>1. Init => StatsReconcile
  <2> SUFFICES ASSUME Init PROVE head + Cardinality(CountedInBatch) = written + deadLettered
    BY DEF StatsReconcile
  <2>1. CountedInBatch = {}
    BY DEF Init, CountedInBatch, InFlight, NoFlush
  <2> QED BY <2>1, FS_EmptySet DEF Init
<1>2. TypeInv /\ FlightInv /\ SafetyInv /\ NoEviction /\ StatsReconcile /\ [Next]_vars => StatsReconcile'
  BY StatsStep
<1>3. Init => NoEviction
  BY DEF Init
<1>4. NoEviction /\ [Next]_vars => NoEviction'
  BY DEF Next, vars, state
<1> HIDE DEF NoEviction
<1> QED BY <1>1, <1>2, <1>3, <1>4, SafetyAlways, FlightAlways, PTL DEF Spec

-----------------------------------------------------------------------------
(* How often a store accepts an event. *)

\* A slot whose event has had its one regular write.
Accounted(i) == IF i <= head \/ i \in CountedInBatch THEN 1 ELSE 0

\* Only events that were pushed are in a store; and an event that neither left the buffer
\* nor is counted is there only by a write whose answer was lost, or before a dead-letter
\* handler that threw.
CopiesInv ==
    /\ \A c \in Calls : copies[c] > 0 => \E i \in 1 .. Len(log) : log[i] = c
    /\ InService => \A i \in 1 .. Len(log) : copies[log[i]] <= lostAcks + dlqFailures + Accounted(i)

LEMMA CopiesStep ==
    ASSUME overflow # "dropOldest", TypeInv, SafetyInv, FlightInv, CopiesInv, [Next]_vars
    PROVE  CopiesInv'
<1>1. /\ log \in Seq(Calls) /\ head \in Nat /\ lostAcks \in Nat /\ dlqFailures \in Nat
      /\ copies \in [Calls -> Nat] /\ FlushFits(log, flush) /\ flush \in FlushType
      /\ log' \in Seq(Calls) /\ head' \in Nat
  BY TypeStep, BoundsAssumption DEF TypeInv, TypeOK
<1>2. /\ Len(log) \in Nat /\ \A i \in 1 .. Len(log) : log[i] \in Calls /\ copies[log[i]] \in Nat
      /\ \A i : Accounted(i) \in {0, 1} /\ Accounted(i)' \in {0, 1}
  BY <1>1 DEF Accounted
<1>3. /\ Len(log') >= Len(log) /\ \A i \in 1 .. Len(log) : log'[i] = log[i]
      /\ \A c \in Calls : copies'[c] > 0 => copies[c] > 0 \/ (StoreGroup /\ c \in Group)
  <2>1. UNCHANGED log \/ \E c \in Calls : log' = Append(log, c)
    BY DEF Next, Start, Tick, Enqueue, Resume, TryEnqueue, DropNew, DropOldest, Block, PushOrRefuse,
           RequestCoupledFlush, CoupledTimeout, FlushStep, WriteResolves, WriteRejects, BackoffEnds,
           GroupSettled, CompleteFlush, Shutdown, ShutdownStep, DeadlinePasses, RaceEnds, AwaitEnds,
           AwaitRejects, shutdownFrame, vars, state
  <2>2. UNCHANGED copies \/ StoreGroup
    BY DEF Next, Start, Tick, Enqueue, Resume, TryEnqueue, RequestCoupledFlush, CoupledTimeout,
           FlushStep, WriteResolves, WriteRejects, RejectedWrite, BackoffEnds, GroupSettled,
           CompleteFlush, Shutdown, ShutdownStep, DeadlinePasses, RaceEnds, AwaitEnds, AwaitRejects,
           shutdownFrame, vars, state, outside
  <2>3. StoreGroup => \A c \in Calls : copies'[c] > 0 => copies[c] > 0 \/ c \in Group
    BY <1>1 DEF StoreGroup
  <2> QED BY <1>1, <2>1, <2>2, <2>3, PushProperties
<1>4. ASSUME NEW c \in Calls, copies'[c] > 0
      PROVE  \E i \in 1 .. Len(log') : log'[i] = c
  <2>1. PICK i \in 1 .. Len(log) : log[i] = c
    BY <1>1, <1>3, <1>4, BatchInLog, SMTT(20) DEF CopiesInv, Group
  <2>2. i \in 1 .. Len(log') /\ log'[i] = c
    BY <1>1, <1>3, <2>1
  <2> QED BY <2>2
<1>5. ASSUME InService', NEW i \in 1 .. Len(log')
      PROVE  copies'[log'[i]] <= lostAcks' + dlqFailures' + Accounted(i)'
  <2>1. InService /\ (Quiet \/ FlushStep)
    BY <1>5, ServiceKinds
  <2>2. \A j \in 1 .. Len(log) : copies[log[j]] <= lostAcks + dlqFailures + Accounted(j)
    BY <2>1 DEF CopiesInv
  <2>3. CASE Quiet
    <3>1. CountedInBatch' = CountedInBatch /\ UNCHANGED <<copies, head, lostAcks, dlqFailures>>
      BY <1>1, <2>3, QuietCounts DEF Quiet
    <3>2. Accounted(i)' = Accounted(i)
      BY <3>1 DEF Accounted
    <3>3. CASE i \in 1 .. Len(log)
      BY <1>3, <2>2, <3>1, <3>2, <3>3
    <3>4. CASE i \notin 1 .. Len(log)
      <4>1. PICK c \in Calls : call[c] \in {"idle", "woken"} /\ log' = Append(log, c)
        BY <2>3, <3>4, <1>5 DEF Quiet
      <4>2. log'[i] = c
        BY <1>1, <1>5, <3>4, <4>1, PushProperties
      <4>3. copies[c] = 0
        BY <1>1, <4>1, SMTT(20) DEF SafetyInv, OnlyAccepted
      <4> QED BY <1>1, <1>2, <3>1, <4>2, <4>3, SMTT(20)
    <3> QED BY <3>3, <3>4
  <2>4. CASE FlushStep
    <3>1. /\ log' = log
          /\ \/ GoesOn /\ (Stores1 \/ StoresUnseen)
             \/ SettlesGroup /\ (Stores1 \/ StoresUnseen \/ StoresCounted)
             \/ StopsAtHandler /\ (Stores1 \/ StoresUnseen)
             \/ Leaves /\ Stores1
      BY <2>1, <2>4, FlushCounts
    <3>2. i \in 1 .. Len(log) /\ log'[i] = log[i] /\ log[i] \in Calls
      BY <1>2, <1>5, <3>1
    <3> DEFINE n == copies[log[i]]
               n2 == copies'[log[i]]
    <3>3. n \in Nat /\ n <= lostAcks + dlqFailures + Accounted(i)
      BY <1>2, <2>2, <3>2
    <3>4. StoreGroup => n2 = IF log[i] \in Group THEN n + 1 ELSE n
      BY <3>2 DEF StoreGroup
    <3>5. /\ Stores1 => n2 = n /\ lostAcks' = lostAcks
          /\ StoresUnseen => n2 <= n + 1 /\ n2 \in Nat /\ lostAcks' = lostAcks + 1
          /\ StoresCounted => lostAcks' = lostAcks /\ n2 = IF log[i] \in Group THEN n + 1 ELSE n
      <4> HIDE DEF n2
      <4>1. Stores1 => n2 = n /\ lostAcks' = lostAcks
        BY DEF Stores1, n2
      <4>2. StoreGroup => n2 \in Nat /\ n2 <= n + 1
        <5> HIDE DEF n
        <5> QED BY <3>3, <3>4
      <4> QED BY <3>4, <4>1, <4>2 DEF StoresUnseen, StoresCounted
    <3>6. Accounted(i) \in {0, 1} /\ Accounted(i)' \in {0, 1}
      BY <1>2
    <3>7. (flush.from = head /\ head \in Nat /\ flush.len \in Nat) \/ ~InFlight
      BY <1>1, <2>1 DEF SafetyInv, BatchAtHead, FlushType
    <3> HIDE DEF n, n2
    <3>8. CASE (GoesOn \/ StopsAtHandler) /\ (Stores1 \/ StoresUnseen)
      <4> DEFINE a == Accounted(i)
                 a2 == Accounted(i)'
                 l2 == lostAcks'
                 d2 == dlqFailures'
      <4>1. n \in Nat /\ lostAcks \in Nat /\ dlqFailures \in Nat /\ n <= lostAcks + dlqFailures + a
        BY <1>1, <3>3
      <4>2. a \in {0, 1} /\ a2 \in {0, 1}
        BY <3>6
      <4>3. (a2 = a /\ d2 = dlqFailures) \/ d2 = dlqFailures + 1
        BY <3>8 DEF Accounted, GoesOn, StopsAtHandler
      <4>4. (n2 = n /\ l2 = lostAcks) \/ (n2 \in Nat /\ n2 <= n + 1 /\ l2 = lostAcks + 1)
        BY <3>5, <3>8
      <4> HIDE DEF a, a2, l2, d2
      <4>5. n2 <= l2 + d2 + a2
        BY <4>1, <4>2, <4>3, <4>4
      <4> QED BY <3>2, <4>5 DEF a2, d2, l2, n2
    <3>9. CASE SettlesGroup
      <4>1. dlqFailures' = dlqFailures /\ (Accounted(i) = 1 => Accounted(i)' = 1)
        BY <3>9 DEF Accounted, SettlesGroup
      <4>2. log[i] \in Group => Accounted(i) = 0 /\ Accounted(i)' = 1
        <5> SUFFICES ASSUME log[i] \in Group PROVE Accounted(i) = 0 /\ Accounted(i)' = 1
          OBVIOUS
        <5>1. PICK k \in Batch(flush) : log[k] = log[i] /\ Route[log[k]] = flush.store
          BY DEF Group
        <5>2. k = i
          BY <1>1, <3>2, <5>1, BatchInLog DEF SafetyInv, OnlyAccepted
        <5>3. i \in GroupSlots
          BY <5>1, <5>2 DEF GroupSlots
        <5>4. i > head
          BY <3>7, <3>9, <5>1, <5>2 DEF Batch, SettlesGroup
        <5> QED BY <1>1, <3>9, <5>3, <5>4 DEF Accounted, SettlesGroup
      <4>3. Stores1 \/ StoresUnseen \/ StoresCounted
        BY <3>1 DEF StoresCounted
      <4>4. n2 <= lostAcks' + dlqFailures' + Accounted(i)'
        BY <1>1, <1>2, <3>3, <3>5, <4>1, <4>2, <4>3
      <4> QED BY <3>2, <4>4 DEF n2
    <3>10. CASE Leaves /\ Stores1
      <4>1. head' = head + flush.len /\ dlqFailures' = dlqFailures /\ CountedInBatch = Batch(flush) /\ InFlight
        BY <3>10 DEF Leaves
      <4>2. Accounted(i) = 1 => Accounted(i)' = 1
        BY <3>2, <3>7, <4>1 DEF Accounted, Batch
      <4>3. n2 <= lostAcks' + dlqFailures' + Accounted(i)'
        BY <1>1, <1>2, <3>3, <3>5, <3>10, <4>1, <4>2
      <4> QED BY <3>2, <4>3 DEF n2
    <3> QED BY <3>1, <3>8, <3>9, <3>10
  <2> QED BY <2>1, <2>3, <2>4
<1> QED BY <1>4, <1>5 DEF CopiesInv

\* With block and dropNew, as long as the pipeline serves, a store accepts an event a
\* second time only because the answer to a write was lost or the dead-letter handler
\* threw and the flush began again.
THEOREM NoNeedlessCopy ==
    ASSUME "dropOldest" \notin Overflows
    PROVE  Spec => []CopiesBounded
<1> DEFINE NoEviction == overflow # "dropOldest"
<1>1. Init => CopiesInv
  BY EmptySeq DEF Init, CopiesInv
<1>2. TypeInv /\ FlightInv /\ SafetyInv /\ NoEviction /\ CopiesInv /\ [Next]_vars => CopiesInv'
  BY CopiesStep
<1>3. Init => NoEviction
  BY DEF Init
<1>4. NoEviction /\ [Next]_vars => NoEviction'
  BY DEF Next, vars, state
<1>5. TypeInv /\ CopiesInv => CopiesBounded
  <2> SUFFICES ASSUME TypeInv, CopiesInv, InService, NEW c \in Calls
               PROVE  copies[c] <= 1 + lostAcks + dlqFailures
    BY DEF CopiesBounded
  <2>1. copies[c] \in Nat /\ lostAcks \in Nat /\ dlqFailures \in Nat /\ \A i : Accounted(i) \in {0, 1}
    BY BoundsAssumption DEF TypeInv, TypeOK, Accounted
  <2>2. copies[c] > 0 => \E i \in 1 .. Len(log) : copies[c] <= lostAcks + dlqFailures + Accounted(i)
    BY DEF CopiesInv
  <2> QED BY <2>1, <2>2
<1> HIDE DEF NoEviction
<1> QED BY <1>1, <1>2, <1>3, <1>4, <1>5, SafetyAlways, FlightAlways, PTL DEF Spec

-----------------------------------------------------------------------------
(* A shutdown that returns in time. *)

\* Outcomes stay, in every step, and a shutdown is not taken back.
LEMMA OutcomesStay ==
    ASSUME TypeInv, [Next]_vars
    PROVE  /\ \A c \in Calls : Settled(c) => Settled(c)'
           /\ dlqFailures' = 0 => dlqFailures = 0
           /\ deadline => deadline'
           /\ shut # "no" => shut' # "no"
           /\ ~accepting => ~accepting'
<1> USE DEF outside, counters, shutdownVars
<1>1. dlqFailures \in Nat /\ copies \in [Calls -> Nat]
  BY DEF TypeInv, TypeOK
<1>2. ASSUME UNCHANGED copies \/ StoreGroup, dead \subseteq dead', announced \subseteq announced'
      PROVE  \A c \in Calls : Settled(c) => Settled(c)'
  <2>1. \A c \in Calls : copies[c] > 0 => copies'[c] > 0
    BY <1>1, <1>2 DEF StoreGroup
  <2> QED BY <1>2, <2>1 DEF Settled, Delivered
<1>3. ASSUME NEW c \in Calls, TryEnqueue(c)
      PROVE  /\ UNCHANGED <<copies, dead, dlqFailures, deadline, shut, accepting>>
             /\ announced \subseteq announced'
  BY <1>3 DEF TryEnqueue, DropNew, DropOldest, Block
<1>4. CASE \E c \in Calls : Enqueue(c) \/ Resume(c)
  BY <1>2, <1>3, <1>4 DEF Enqueue, Resume
<1>5. CASE WriteResolves
  BY <1>2, <1>5 DEF WriteResolves
<1>6. CASE WriteRejects
  <2>1. UNCHANGED copies \/ StoreGroup
    BY <1>6 DEF WriteRejects, RejectedWrite
  <2>2. dead \subseteq dead' /\ (dlqFailures' = dlqFailures \/ dlqFailures' = dlqFailures + 1)
    BY <1>6 DEF WriteRejects, DeadLetter, DeadLetterThrows
  <2> QED BY <1>1, <1>2, <1>6, <2>1, <2>2 DEF WriteRejects
<1>7. CASE BackoffEnds \/ GroupSettled \/ CompleteFlush
  BY <1>2, <1>7 DEF BackoffEnds, GroupSettled, CompleteFlush
<1>8. ASSUME DeadLetterRest
      PROVE  /\ dead \subseteq dead' /\ (dlqFailures' = dlqFailures \/ dlqFailures' = dlqFailures + 1)
             /\ shut' # "no"
  BY <1>8 DEF DeadLetterRest, DeadLetter, DeadLetterThrows
<1>9. ASSUME ShutdownLoop
      PROVE  /\ dead \subseteq dead' /\ (dlqFailures' = dlqFailures \/ dlqFailures' = dlqFailures + 1)
             /\ shut' # "no"
  BY <1>8, <1>9 DEF ShutdownLoop
<1>10. CASE Shutdown
  BY <1>1, <1>2, <1>9, <1>10 DEF Shutdown
<1>11. CASE RaceEnds \/ AwaitEnds \/ AwaitRejects
  BY <1>1, <1>2, <1>8, <1>9, <1>11 DEF RaceEnds, AwaitEnds, AwaitRejects, shutdownFrame
<1>12. CASE Start \/ Tick \/ DeadlinePasses
  BY <1>2, <1>12 DEF Start, Tick, DeadlinePasses
<1>13. CASE \E r \in Requests : RequestCoupledFlush(r) \/ CoupledTimeout(r)
  BY <1>2, <1>13 DEF RequestCoupledFlush, CoupledTimeout
<1>14. CASE UNCHANGED vars
  BY <1>2, <1>14 DEF vars, state
<1> QED BY <1>4, <1>5, <1>6, <1>7, <1>10, <1>11, <1>12, <1>13, <1>14 DEF Next, FlushStep, ShutdownStep

\* The buffer is empty and nothing is being written.
Drained == head = Len(log) /\ ~InFlight

\* A drained pipeline that accepts nothing stays drained; a flush that was about to end
\* may end.
LEMMA DrainedStays ==
    ASSUME overflow # "dropOldest", TypeInv, ~accepting, Drained, [Next]_vars
    PROVE  /\ Drained' /\ log' = log
           /\ \/ flush' = flush /\ awaited' \in {awaited, "pending"}
              \/ CompleteFlush /\ flush' = NoFlush
           /\ CompleteFlush \/ awaited' = awaited \/ Shutdown \/ RaceEnds
<1> USE DEF outside, counters, shutdownVars
<1>1. log \in Seq(Calls) /\ head \in Nat /\ Len(log) \in Nat /\ head = Len(log) /\ ~InFlight /\ size = 0
  BY DEF TypeInv, TypeOK, Drained, size
<1>2. Flush(log, head) = flush
  BY <1>1 DEF Flush
<1>3. CASE UNCHANGED <<log, head, flush, awaited>>
  BY <1>1, <1>3 DEF Drained, InFlight
<1>4. ASSUME NEW c \in Calls, TryEnqueue(c)
      PROVE  UNCHANGED <<log, head, flush, awaited>>
  <2>1. ~(size >= Capacity) /\ PushOrRefuse(c, head) /\ awaited' = awaited
    BY <1>1, <1>4, CapacityAssumption DEF TryEnqueue
  <2> QED BY <2>1 DEF PushOrRefuse
<1>5. CASE \E c \in Calls : Enqueue(c) \/ Resume(c)
  BY <1>3, <1>4, <1>5 DEF Enqueue, Resume
<1>6. CASE Start \/ Tick \/ DeadlinePasses
  BY <1>2, <1>3, <1>6 DEF Start, Tick, DeadlinePasses
<1>7. CASE \E r \in Requests : RequestCoupledFlush(r) \/ CoupledTimeout(r)
  BY <1>2, <1>3, <1>7 DEF RequestCoupledFlush, CoupledTimeout
<1>8. CASE WriteResolves \/ WriteRejects \/ BackoffEnds \/ GroupSettled
  BY <1>1, <1>8 DEF WriteResolves, WriteRejects, BackoffEnds, GroupSettled, InFlight
<1>9. CASE CompleteFlush
  <2>1. flush' = NoFlush /\ UNCHANGED <<log, head>>
    BY <1>1, <1>9, MaxBatchAssumption DEF CompleteFlush
  <2> QED BY <1>1, <1>9, <2>1 DEF Drained, InFlight, NoFlush
<1>10. ASSUME DeadLetterRest PROVE head' = head
  BY <1>1, <1>10 DEF DeadLetterRest
<1>11. ASSUME ShutdownLoop PROVE UNCHANGED <<head, flush>> /\ awaited' \in {awaited, "pending"}
  BY <1>1, <1>2, <1>10, <1>11 DEF ShutdownLoop
<1>12. CASE Shutdown \/ RaceEnds
  <2>1. ShutdownLoop /\ log' = log
    BY <1>12 DEF Shutdown, RaceEnds, shutdownFrame
  <2> QED BY <1>1, <1>11, <1>12, <2>1 DEF Drained, InFlight
<1>13. CASE AwaitEnds \/ AwaitRejects
  BY <1>3, <1>10, <1>13 DEF AwaitEnds, AwaitRejects, shutdownFrame
<1>14. CASE UNCHANGED vars
  BY <1>3, <1>14 DEF vars, state
<1> QED BY <1>5, <1>6, <1>7, <1>8, <1>9, <1>12, <1>13, <1>14 DEF Next, FlushStep, ShutdownStep

\* A shutdown that awaits the last flush before its deadline has drained the buffer.
DrainInv ==
    /\ shut # "no" => ~accepting
    /\ shut = "awaiting" /\ ~deadline => Drained /\ (awaited = "resolved" => flush.phase = "none")
    /\ GracefulDrain

LEMMA DrainStep ==
    ASSUME overflow # "dropOldest", TypeInv, SafetyInv, FlightInv, DrainInv, [Next]_vars
    PROVE  DrainInv'
<1> USE DEF outside, counters, shutdownVars
<1>1. /\ log \in Seq(Calls) /\ head \in Nat /\ Len(log) \in Nat /\ flush \in FlushType
      /\ FlushFits(log, flush) /\ \A i \in 1 .. Len(log) : log[i] \in Calls
      /\ awaited \in {"none", "pending", "resolved", "rejected"}
  BY DEF TypeInv, TypeOK
<1>2. /\ \A c \in Calls : Settled(c) => Settled(c)'
      /\ dlqFailures' = 0 => dlqFailures = 0
      /\ deadline => deadline'
      /\ shut # "no" => shut' # "no"
      /\ ~accepting => ~accepting'
  BY OutcomesStay
<1>3. shut' # "no" => ~accepting'
  <2>1. shut' = shut \/ ~accepting' \/ shut # "no"
    BY DEF Next, Start, Tick, Enqueue, Resume, TryEnqueue, RequestCoupledFlush, CoupledTimeout,
           FlushStep, WriteResolves, WriteRejects, BackoffEnds, GroupSettled, CompleteFlush, Shutdown,
           ShutdownStep, DeadlinePasses, RaceEnds, AwaitEnds, AwaitRejects, vars, state
  <2> QED BY <1>2, <2>1 DEF DrainInv
\* The two ways to wait or to return in time.
<1>4. ASSUME ShutdownLoop, InService, ~deadline, UNCHANGED log, shut' \in {"awaiting", "done"}
      PROVE  /\ Drained /\ UNCHANGED <<head, flush>>
             /\ shut' = "awaiting" => awaited' = "pending"
             /\ shut' = "done" => flush.phase = "none"
  <2>1. head <= Len(log) /\ (InFlight => flush.from = head)
    BY <1>4 DEF SafetyInv, BatchAtHead
  <2>2. size <= 0
    BY <1>4 DEF ShutdownLoop
  <2>3. head = Len(log)
    BY <1>1, <2>1, <2>2 DEF size
  <2>4. ~InFlight
    <3>1. InFlight => flush.len > 0
      BY <1>4 DEF FlightInv
    <3> QED BY <1>1, <2>1, <2>3, <3>1 DEF FlushFits, FlushType
  <2>5. DeadLetterRest => UNCHANGED head /\ shut' = "done"
    BY <1>1, <2>2 DEF DeadLetterRest, size
  <2> QED BY <1>4, <2>2, <2>3, <2>4, <2>5 DEF ShutdownLoop, Drained
<1>5. ASSUME shut' = "awaiting", ~deadline'
      PROVE  Drained' /\ (awaited' = "resolved" => flush'.phase = "none")
  <2>1. ~deadline
    BY <1>2, <1>5
  <2>2. CASE shut = "awaiting"
    <3>1. Drained /\ (awaited = "resolved" => flush.phase = "none") /\ ~accepting
      BY <2>1, <2>2 DEF DrainInv
    <3>2. Drained' /\ (flush' = flush \/ flush' = NoFlush)
      BY <3>1, DrainedStays
    <3>3. CompleteFlush \/ awaited' = awaited
      BY <2>2, <3>1, DrainedStays DEF Shutdown, RaceEnds
    <3>4. CASE CompleteFlush
      <4>1. flush' = NoFlush
        BY <1>1, <3>1, <3>4, MaxBatchAssumption DEF CompleteFlush, Drained, size
      <4> QED BY <3>2, <4>1 DEF NoFlush
    <3>5. CASE awaited' = awaited
      BY <3>1, <3>2, <3>5 DEF NoFlush
    <3> QED BY <3>3, <3>4, <3>5
  <2>3. CASE shut # "awaiting"
    <3>1. (Shutdown \/ RaceEnds) /\ InService
      BY <1>5, <2>3
         DEF Next, Start, Tick, Enqueue, Resume, TryEnqueue, RequestCoupledFlush, CoupledTimeout,
             FlushStep, WriteResolves, WriteRejects, BackoffEnds, GroupSettled, CompleteFlush, Shutdown,
             ShutdownStep, DeadlinePasses, RaceEnds, AwaitEnds, AwaitRejects, DeadLetterRest, vars, state,
             InService
    <3>2. ShutdownLoop /\ log' = log
      BY <3>1 DEF Shutdown, RaceEnds, shutdownFrame
    <3>3. Drained /\ UNCHANGED <<head, flush, log>> /\ awaited' = "pending"
      BY <1>4, <1>5, <2>1, <3>1, <3>2
    <3> QED BY <3>3 DEF Drained, InFlight
  <2> QED BY <2>2, <2>3
<1>6. ASSUME shut' = "done", ~deadline', dlqFailures' = 0
      PROVE  /\ (head = Len(log))' /\ (flush.phase = "none")'
             /\ \A i \in 1 .. Len(log') : Settled(log[i])'
  <2>1. ~deadline /\ dlqFailures = 0
    BY <1>2, <1>6
  <2>2. ASSUME UNCHANGED <<log, head, flush>>, head = Len(log), flush.phase = "none",
               \A i \in 1 .. Len(log) : Settled(log[i])
        PROVE  /\ (head = Len(log))' /\ (flush.phase = "none")'
               /\ \A i \in 1 .. Len(log') : Settled(log[i])'
    BY <1>1, <1>2, <2>2 DEF Settled, Delivered
  <2>3. InService => (head = Len(log) => \A i \in 1 .. Len(log) : Settled(log[i]))
    BY <1>1 DEF SafetyInv, ConsumedIsSettled, MinOf
  <2>4. CASE shut = "done"
    <3>1. /\ head = Len(log) /\ flush.phase = "none" /\ ~accepting
          /\ \A i \in 1 .. Len(log) : Settled(log[i])
      BY <2>1, <2>4 DEF DrainInv, GracefulDrain
    <3>2. Drained
      BY <3>1 DEF Drained, InFlight
    <3>3. Drained' /\ log' = log /\ (flush' = flush \/ CompleteFlush)
      BY <3>1, <3>2, DrainedStays
    <3>4. flush' = flush
      BY <3>1, <3>3 DEF CompleteFlush
    <3>5. UNCHANGED <<log, head, flush>>
      BY <3>1, <3>3, <3>4 DEF Drained
    <3> QED BY <2>2, <3>1, <3>5
  <2>5. CASE shut # "done"
    <3>1. (Shutdown \/ RaceEnds \/ AwaitEnds) /\ InService
      BY <1>6, <2>5
         DEF Next, Start, Tick, Enqueue, Resume, TryEnqueue, RequestCoupledFlush, CoupledTimeout,
             FlushStep, WriteResolves, WriteRejects, BackoffEnds, GroupSettled, CompleteFlush, Shutdown,
             ShutdownStep, DeadlinePasses, RaceEnds, AwaitEnds, AwaitRejects, vars, state, InService
    <3>2. CASE Shutdown \/ RaceEnds
      <4>1. ShutdownLoop /\ log' = log
        BY <3>2 DEF Shutdown, RaceEnds, shutdownFrame
      <4>2. Drained /\ UNCHANGED <<head, flush, log>> /\ flush.phase = "none"
        BY <1>4, <1>6, <2>1, <3>1, <4>1
      <4> QED BY <2>2, <2>3, <3>1, <4>2 DEF Drained
    <3>3. CASE AwaitEnds
      <4>1. shut = "awaiting" /\ awaited = "resolved" /\ DeadLetterRest /\ UNCHANGED <<log, flush>>
        BY <3>3 DEF AwaitEnds, shutdownFrame
      <4>2. head = Len(log) /\ flush.phase = "none"
        BY <2>1, <4>1 DEF DrainInv, Drained
      <4>3. head' = head
        BY <1>1, <4>1, <4>2 DEF DeadLetterRest, size
      <4> QED BY <2>2, <2>3, <3>1, <4>1, <4>2, <4>3
    <3> QED BY <3>1, <3>2, <3>3
  <2> QED BY <2>4, <2>5
<1> QED BY <1>3, <1>5, <1>6 DEF DrainInv, GracefulDrain

\* With block and dropNew, shutdown() that returns before its deadline leaves no event in
\* the buffer, no flush under way and no event without an outcome, unless the dead-letter
\* handler threw.
THEOREM ShutdownDrains ==
    ASSUME "dropOldest" \notin Overflows
    PROVE  Spec => []GracefulDrain
<1> DEFINE NoEviction == overflow # "dropOldest"
<1>1. Init => DrainInv
  BY DEF Init, DrainInv, GracefulDrain
<1>2. TypeInv /\ FlightInv /\ SafetyInv /\ NoEviction /\ DrainInv /\ [Next]_vars => DrainInv'
  BY DrainStep
<1>3. Init => NoEviction
  BY DEF Init
<1>4. NoEviction /\ [Next]_vars => NoEviction'
  BY DEF Next, vars, state
<1>5. DrainInv => GracefulDrain
  BY DEF DrainInv
<1> HIDE DEF NoEviction
<1> QED BY <1>1, <1>2, <1>3, <1>4, <1>5, SafetyAlways, FlightAlways, PTL DEF Spec

-----------------------------------------------------------------------------
(* Evictions: with every overflow strategy the dropped counter admits what is missing. *)

\* The slots up to h whose event is neither in a store nor in the dead letters.
Missing(h) == {i \in 1 .. MinOf(h, Len(log)) : ~Delivered(log[i])}

\* Between flushes the dropped counter covers what is missing up to the head.  During one
\* it covers what is missing before the batch, and once more the evictions since then: the
\* batch will be written, and as many unwritten events leave with it.
MissingInv ==
    InService =>
        /\ accepting => head <= Len(log)
        /\ ~InFlight => Cardinality(Missing(head)) <= dropped
        /\ InFlight =>
              /\ flush.from <= head
              /\ accepting => head + flush.len <= Len(log)
              /\ Cardinality(Missing(flush.from)) + (head - flush.from) <= dropped
              /\ \A i \in Batch(flush) : Route[log[i]] \in flush.done => Delivered(log[i])
        /\ flush.phase = "settled" => \A c \in Group : Delivered(c)

\* A set inside another and an interval is no larger than both.
LEMMA CoverSize ==
    ASSUME NEW N, IsFiniteSet(N), NEW a \in Nat, NEW b \in Nat, a <= b, NEW M, M \subseteq N \cup ((a + 1) .. b)
    PROVE  IsFiniteSet(M) /\ Cardinality(M) \in Nat /\ Cardinality(N) \in Nat
           /\ Cardinality(M) <= Cardinality(N) + (b - a)
<1>1. a + 1 \in Int /\ b \in Int /\ a + 1 <= b + 1
  OBVIOUS
<1>2. IsFiniteSet((a + 1) .. b) /\ Cardinality((a + 1) .. b) = b - (a + 1) + 1
  BY <1>1, IntervalSize
<1>3. /\ IsFiniteSet(N \cup ((a + 1) .. b))
      /\ Cardinality(N \cup ((a + 1) .. b))
           = Cardinality(N) + Cardinality((a + 1) .. b) - Cardinality(N \cap ((a + 1) .. b))
  BY <1>2, FS_Union
<1>4. IsFiniteSet(N \cap ((a + 1) .. b))
  BY <1>2, FS_Intersection
<1>5. Cardinality(N) \in Nat /\ Cardinality(N \cap ((a + 1) .. b)) \in Nat
  BY <1>4, FS_CardinalityType
<1>6. IsFiniteSet(M) /\ Cardinality(M) <= Cardinality(N \cup ((a + 1) .. b)) /\ Cardinality(M) \in Nat
  BY <1>3, FS_Subset, FS_CardinalityType
<1> QED BY <1>2, <1>3, <1>5, <1>6

\* What is missing is finite.
LEMMA MissingFinite ==
    ASSUME log \in Seq(Calls), NEW h \in Nat
    PROVE  IsFiniteSet(Missing(h)) /\ Cardinality(Missing(h)) \in Nat
<1>1. MinOf(h, Len(log)) \in Nat
  BY DEF MinOf
<1>2. IsFiniteSet(1 .. MinOf(h, Len(log)))
  BY <1>1, FS_Interval
<1>3. Missing(h) \subseteq 1 .. MinOf(h, Len(log))
  BY DEF Missing
<1> QED BY <1>2, <1>3, FS_Subset, FS_CardinalityType

\* What is missing at a slot, after a step.
LEMMA MissingHere ==
    ASSUME NEW h
    PROVE  /\ head = h => Missing(head) = Missing(h)
           /\ flush.from = h => Missing(flush.from) = Missing(h)
           /\ head' = h => Missing(head)' = Missing(h)'
           /\ flush'.from = h => Missing(flush.from)' = Missing(h)'
BY DEF Missing

\* A push or an eviction.
LEMMA MissingQuiet ==
    ASSUME TypeInv, TypeInv', MissingInv, FlightInv', InService, InService', Quiet
    PROVE  MissingInv'
<1>1. /\ log \in Seq(Calls) /\ log' \in Seq(Calls) /\ Len(log) \in Nat /\ head \in Nat /\ head' \in Nat
      /\ dropped \in Nat /\ dropped' \in Nat /\ FlushFits(log, flush) /\ FlushFits(log', flush')
      /\ flush.from \in Nat /\ flush.len \in Nat
  BY DEF TypeInv, TypeOK, FlushType
<1>2. /\ \A i \in 1 .. Len(log) : log'[i] = log[i] /\ log[i] \in Calls
      /\ \A c \in Calls : Delivered(c)' <=> Delivered(c)
      /\ accepting' => accepting
      /\ \/ log' = log
         \/ accepting /\ Len(log') = Len(log) + 1
  BY <1>1, PushProperties DEF Quiet, Delivered
<1>3. /\ dropped' >= dropped
      /\ \/ head' = head
         \/ head' = head + 1 /\ dropped' = dropped + 1 /\ head < Len(log) /\ (accepting => Len(log') = Len(log) + 1)
  BY <1>1, <1>2, CapacityAssumption DEF Quiet, size
<1>4. accepting' => head' <= Len(log')
  BY <1>1, <1>2, <1>3 DEF MissingInv
<1>5. ASSUME NEW h \in Nat, accepting => h <= Len(log)
      PROVE  Missing(h)' \subseteq Missing(h)
  BY <1>1, <1>2, <1>5 DEF Missing, MinOf
<1>6. CASE flush' = flush /\ InFlight
  <2>1. /\ flush.from <= head
        /\ accepting => head + flush.len <= Len(log)
        /\ Cardinality(Missing(flush.from)) + (head - flush.from) <= dropped
        /\ \A i \in Batch(flush) : Route[log[i]] \in flush.done => Delivered(log[i])
        /\ flush.phase = "settled" => \A c \in Group : Delivered(c)
    BY <1>6 DEF MissingInv
  <2>2. PICK g \in Nat : g = flush.from
    BY <1>1
  <2>3. Missing(g)' \subseteq Missing(g)
    BY <1>1, <1>5, <1>6, <2>1, <2>2 DEF MissingInv
  <2>4. IsFiniteSet(Missing(g))
    BY <1>1, MissingFinite
  <2>5. /\ Cardinality(Missing(g)') <= Cardinality(Missing(g))
        /\ Cardinality(Missing(g)) \in Nat /\ Cardinality(Missing(g)') \in Nat
    BY <2>3, <2>4, FS_Subset, FS_CardinalityType
  <2>6. \A i \in Batch(flush) : i \in 1 .. Len(log) /\ log[i] \in Calls /\ log'[i] = log[i]
    BY <1>1, <1>2, BatchInLog
  <2>7. Group' = Group
    BY <1>6, <2>6 DEF Group
  <2>8. Group \in SUBSET Calls
    BY GroupInCalls
  <2>9. InFlight' => /\ flush'.from <= head'
                     /\ accepting' => head' + flush'.len <= Len(log')
    BY <1>1, <1>2, <1>3, <1>6, <2>1
  <2>10. Cardinality(Missing(flush.from)') + (head' - flush'.from) <= dropped'
    <3>1. Missing(flush.from)' = Missing(g)' /\ Missing(flush.from) = Missing(g) /\ flush'.from = g
      BY <1>6, <2>2, MissingHere
    <3> QED BY <1>1, <1>3, <2>1, <2>2, <2>5, <3>1, SMTT(20)
  <2>11. \A i \in Batch(flush') : Route[log'[i]] \in flush'.done => Delivered(log[i])'
    <3> SUFFICES ASSUME NEW i \in Batch(flush), Route[log[i]] \in flush.done
                 PROVE  Delivered(log[i])'
      BY <1>6, <2>6
    <3>1. Delivered(log[i]) /\ log[i] \in Calls /\ log'[i] = log[i]
      BY <2>1, <2>6
    <3> QED BY <1>2, <3>1 DEF Delivered
  <2>12. flush'.phase = "settled" => \A c \in Group' : Delivered(c)'
    BY <1>2, <1>6, <2>1, <2>7, <2>8
  <2> QED BY <1>4, <1>6, <2>9, <2>10, <2>11, <2>12 DEF MissingInv, InFlight
<1>7. CASE ~InFlight
  <2>1. PICK h \in Nat, h2 \in Nat : h = head /\ h2 = head'
    BY <1>1
  <2>2. Cardinality(Missing(h)) <= dropped /\ IsFiniteSet(Missing(h)) /\ h <= h2
    BY <1>1, <1>3, <1>7, <2>1, MissingFinite, MissingHere DEF MissingInv
  <2>3. Missing(h2)' \subseteq Missing(h) \cup ((h + 1) .. h2)
    <3>1. ASSUME NEW i \in 1 .. MinOf(h2, Len(log')), ~Delivered(log[i])', i <= h
          PROVE  i \in Missing(h)
      <4>1. i \in 1 .. MinOf(h, Len(log))
        BY <1>1, <1>2, <1>3, <2>1, <3>1 DEF MinOf, MissingInv
      <4>2. i \in 1 .. Len(log)
        BY <1>1, <4>1 DEF MinOf
      <4>3. log'[i] = log[i] /\ log[i] \in Calls
        BY <1>2, <4>2
      <4>4. ~Delivered(log[i])
        BY <1>2, <3>1, <4>3 DEF Delivered
      <4> QED BY <4>1, <4>4 DEF Missing
    <3>2. \A i \in 1 .. MinOf(h2, Len(log')) : i <= h \/ i \in (h + 1) .. h2
      BY <1>1 DEF MinOf
    <3> QED BY <3>1, <3>2 DEF Missing
  <2>4. /\ Cardinality(Missing(h2)') <= Cardinality(Missing(h)) + (h2 - h)
        /\ Cardinality(Missing(h2)') \in Nat /\ Cardinality(Missing(h)) \in Nat
    BY <2>2, <2>3, CoverSize
  <2>5. Cardinality(Missing(head)') <= dropped' /\ Missing(head)' = Missing(h2)'
    <3>1. Missing(head)' = Missing(h2)'
      BY <2>1, MissingHere
    <3>2. Cardinality(Missing(h2)') <= dropped'
      BY <1>1, <1>3, <2>1, <2>2, <2>4
    <3> QED BY <3>1, <3>2
  <2>6. CASE flush' = flush
    BY <1>4, <1>7, <2>5, <2>6 DEF MissingInv, InFlight
  <2>7. CASE flush' = FlushBatch(log', head')
    <3>1. /\ flush'.phase \in {"writing", "rejected", "removed"}
          /\ flush'.from = head' /\ flush'.done = {} /\ flush'.len = PeekCount(log', head')
      BY <1>1, <2>7, FlushBatchProperties
    <3>2. InFlight' => head' + flush'.len <= Len(log')
      BY <1>1, <3>1, PeekCountProperties DEF FlightInv
    <3>3. Missing(flush.from)' = Missing(h2)'
      BY <2>1, <3>1, MissingHere
    <3>4. Cardinality(Missing(flush.from)') + (head' - flush'.from) <= dropped'
      BY <1>1, <2>4, <2>5, <3>1, <3>3
    <3> QED BY <1>1, <1>4, <2>5, <3>1, <3>2, <3>4 DEF MissingInv, InFlight
  <2> QED BY <2>6, <2>7 DEF Quiet, FlushMayBegin
<1> QED BY <1>6, <1>7 DEF Quiet, FlushMayBegin, InFlight

\* A step of the flush.
LEMMA MissingFlush ==
    ASSUME TypeInv, TypeInv', MissingInv, FlightInv', InService, FlushStep
    PROVE  MissingInv'
<1> USE DEF outside, counters, shutdownVars
<1>1. /\ log \in Seq(Calls) /\ Len(log) \in Nat /\ head \in Nat /\ head' \in Nat /\ dropped \in Nat
      /\ flush \in FlushType /\ FlushFits(log, flush) /\ FlushFits(log', flush')
      /\ flush.from \in Nat /\ flush.len \in Nat /\ copies \in [Calls -> Nat]
  BY SMTT(20) DEF TypeInv, TypeOK, FlushType
<1>2. /\ UNCHANGED <<log, dropped, accepting>> /\ dead \subseteq dead'
      /\ UNCHANGED copies \/ (flush.phase = "writing" /\ StoreGroup)
    BY DEF FlushStep, WriteResolves, WriteRejects, RejectedWrite, DeadLetter, DeadLetterThrows,
           BackoffEnds, GroupSettled, CompleteFlush
<1>3. \A c \in Calls : Delivered(c) => Delivered(c)'
  <2>1. \A c \in Calls : copies[c] > 0 => copies'[c] > 0
    BY <1>1, <1>2 DEF StoreGroup
  <2> QED BY <1>2, <2>1 DEF Delivered
<1>4. \A i \in 1 .. Len(log) : log[i] \in Calls
  BY <1>1
<1>5. ASSUME NEW h \in Nat
      PROVE  /\ Missing(h)' \subseteq Missing(h)
             /\ Cardinality(Missing(h)') <= Cardinality(Missing(h))
             /\ Cardinality(Missing(h)) \in Nat /\ Cardinality(Missing(h)') \in Nat
             /\ IsFiniteSet(Missing(h)')
  <2>1. ASSUME NEW i \in 1 .. MinOf(h, Len(log)), ~Delivered(log[i])'
        PROVE  ~Delivered(log[i])
    <3>1. i \in 1 .. Len(log)
      BY <1>1 DEF MinOf
    <3>2. log[i] \in Calls /\ log'[i] = log[i]
      BY <1>2, <1>4, <3>1
    <3> QED BY <1>3, <2>1, <3>2 DEF Delivered
  <2>2. Missing(h)' \subseteq Missing(h)
    BY <1>2, <2>1 DEF Missing, Delivered, MinOf
  <2>3. IsFiniteSet(Missing(h)) /\ Cardinality(Missing(h)) \in Nat
    BY <1>1, MissingFinite
  <2> QED BY <2>2, <2>3, FS_Subset, FS_CardinalityType
<1>6. accepting => head <= Len(log)
  BY DEF MissingInv
<1>7. InFlight => /\ flush.from <= head
                  /\ accepting => head + flush.len <= Len(log)
                  /\ Cardinality(Missing(flush.from)) + (head - flush.from) <= dropped
                  /\ \A i \in Batch(flush) : Route[log[i]] \in flush.done => Delivered(log[i])
  BY DEF MissingInv
<1>8. \A i \in Batch(flush) : i \in 1 .. Len(log) /\ log[i] \in Calls
  BY <1>1, BatchInLog
\* The batch goes on being written.
<1>9. ASSUME InFlight, InFlight', head' = head, flush'.from = flush.from, flush'.len = flush.len,
             \A i \in Batch(flush) : Route[log[i]] \in flush'.done => Delivered(log[i])',
             flush'.phase = "settled" => \A c \in Group' : Delivered(c)'
      PROVE  MissingInv'
  <2>1. PICK g \in Nat : g = flush.from /\ g = flush'.from
    BY <1>1, <1>9
  <2>2. /\ Missing(flush.from)' = Missing(g)' /\ Missing(flush.from) = Missing(g)
        /\ Batch(flush') = Batch(flush)
    BY <1>9, <2>1, MissingHere DEF Batch
  <2>3. Cardinality(Missing(flush.from)') + (head' - flush'.from) <= dropped'
    <3>1. /\ Cardinality(Missing(g)') <= Cardinality(Missing(g))
          /\ Cardinality(Missing(g)) \in Nat /\ Cardinality(Missing(g)') \in Nat
      BY <1>5
    <3>2. Cardinality(Missing(g)) + (head - g) <= dropped
      BY <1>7, <1>9, <2>1, <2>2
    <3> QED BY <1>1, <1>2, <1>9, <2>1, <2>2, <3>1, <3>2
  <2>4. \A i \in Batch(flush') : Route[log'[i]] \in flush'.done => Delivered(log[i])'
    BY <1>2, <1>9, <2>2
  <2> QED BY <1>2, <1>6, <1>7, <1>9, <2>3, <2>4 DEF MissingInv
\* The batch is over, or was never begun.
<1>10. ASSUME ~InFlight', NEW h \in Nat, h = head', accepting => h <= Len(log),
              Cardinality(Missing(h)') <= dropped
       PROVE  MissingInv'
  <2>1. Missing(head)' = Missing(h)'
    BY <1>10, MissingHere
  <2>2. Cardinality(Missing(head)') <= dropped'
    BY <1>2, <1>10, <2>1
  <2> QED BY <1>2, <1>10, <2>2 DEF MissingInv, InFlight
<1>11. ASSUME flush.phase = "writing", UNCHANGED head, flush'.from = flush.from, flush'.len = flush.len,
              flush'.done = flush.done, flush'.store = flush.store,
              flush'.phase \in {"settled", "backoff"},
              flush'.phase = "settled" => StoreGroup \/ Group \subseteq dead'
       PROVE  MissingInv'
  <2>1. Group' = Group /\ InFlight /\ InFlight'
    BY <1>2, <1>11 DEF Group, Batch, InFlight
  <2>2. Group \in SUBSET Calls
    BY GroupInCalls
  <2>3. flush'.phase = "settled" => \A c \in Group' : Delivered(c)'
    BY <1>1, <1>11, <2>1, <2>2 DEF Delivered, StoreGroup
  <2>4. \A i \in Batch(flush) : Route[log[i]] \in flush'.done => Delivered(log[i])'
    <3> SUFFICES ASSUME NEW i \in Batch(flush), Route[log[i]] \in flush.done
                 PROVE  Delivered(log[i])'
      BY <1>11
    <3> QED BY <1>2, <1>3, <1>7, <1>8, <2>1 DEF Delivered
  <2> QED BY <1>9, <1>11, <2>1, <2>3, <2>4
<1>12. CASE WriteResolves
  <2>1. /\ flush.phase = "writing" /\ UNCHANGED head /\ StoreGroup
        /\ flush' = [flush EXCEPT !.phase = "settled", !.ok = TRUE]
    BY <1>12 DEF WriteResolves
  <2> QED BY <1>1, <1>11, <2>1 DEF FlushType
<1>13. CASE WriteRejects
  <2>1. flush.phase = "writing" /\ UNCHANGED head
    BY <1>13 DEF WriteRejects
  <2>2. CASE flush' = [flush EXCEPT !.phase = "backoff", !.attempts = @ + 1]
    BY <1>1, <1>11, <2>1, <2>2 DEF FlushType
  <2>3. CASE DeadLetter(Group) /\ flush' = [flush EXCEPT !.phase = "settled", !.ok = FALSE]
    BY <1>1, <1>11, <2>1, <2>3 DEF FlushType, DeadLetter
  <2>4. CASE flush' = [flush EXCEPT !.phase = "rejected"]
    <3>1. ~InFlight' /\ InFlight
      BY <1>1, <2>1, <2>4 DEF InFlight, FlushType
    <3>2. PICK g \in Nat, h \in Nat : g = flush.from /\ h = head
      BY <1>1
    <3>3. g <= h /\ Cardinality(Missing(g)) + (h - g) <= dropped
      BY <1>7, <3>1, <3>2, MissingHere
    <3>4. Missing(h) \subseteq Missing(g) \cup ((g + 1) .. h)
      BY <1>1, <3>3 DEF Missing, MinOf
    <3>5. IsFiniteSet(Missing(g))
      BY <1>1, MissingFinite
    <3>6. /\ Cardinality(Missing(h)) <= Cardinality(Missing(g)) + (h - g)
          /\ Cardinality(Missing(h)) \in Nat /\ Cardinality(Missing(g)) \in Nat
      BY <3>3, <3>4, <3>5, CoverSize
    <3>7. Cardinality(Missing(h)') <= Cardinality(Missing(h)) /\ Cardinality(Missing(h)') \in Nat
      BY <1>5
    <3>8. Cardinality(Missing(h)') <= dropped
      BY <1>1, <3>3, <3>6, <3>7
    <3> QED BY <1>6, <1>10, <2>1, <3>1, <3>2, <3>8
  <2> QED BY <1>13, <2>2, <2>3, <2>4 DEF WriteRejects
<1>14. CASE BackoffEnds
  <2>1. /\ flush'.phase = "writing" /\ flush'.from = flush.from /\ flush'.len = flush.len
        /\ flush'.done = flush.done /\ InFlight /\ InFlight' /\ UNCHANGED head
    BY <1>1, <1>14 DEF BackoffEnds, FlushType, InFlight
  <2>2. \A i \in Batch(flush) : Route[log[i]] \in flush'.done => Delivered(log[i])'
    BY <1>2, <1>3, <1>7, <1>8, <2>1 DEF Delivered
  <2> QED BY <1>9, <2>1, <2>2
<1>15. CASE GroupSettled
  <2> DEFINE f == [flush EXCEPT !.done = @ \cup {flush.store}]
  <2>1. /\ f \in FlushType /\ f.from = flush.from /\ f.len = flush.len /\ Batch(f) = Batch(flush)
        /\ f.done = flush.done \cup {flush.store} /\ flush.phase = "settled" /\ InFlight
        /\ UNCHANGED <<copies, dead>>
    BY <1>1, <1>15 DEF GroupSettled, FlushType, Batch, InFlight
  <2>2. \A i \in Batch(flush) : Route[log[i]] \in f.done => Delivered(log[i])
    <3>1. \A c \in Group : Delivered(c)
      BY <2>1 DEF MissingInv
    <3> QED BY <1>7, <2>1, <3>1 DEF Group
  <2> HIDE DEF f
  <2>3. CASE flush' = BeginGroup(log, f) /\ UNCHANGED head
    <3>1. /\ flush'.from = flush.from /\ flush'.len = flush.len /\ flush'.done = f.done
          /\ flush'.phase = "writing" /\ InFlight'
      BY <2>1, <2>3 DEF BeginGroup, FlushType, InFlight
    <3>2. \A i \in Batch(flush) : Route[log[i]] \in flush'.done => Delivered(log[i])'
      BY <1>2, <2>1, <2>2, <3>1 DEF Delivered
    <3> QED BY <1>9, <2>1, <2>3, <3>1, <3>2
  <2>4. CASE Ungrouped(log, f) = {} /\ flush' = [f EXCEPT !.phase = "removed"] /\ head' = head + flush.len
    <3>1. ~InFlight'
      BY <2>1, <2>4 DEF InFlight, FlushType
    <3>2. \A i \in Batch(flush) : Delivered(log[i])
      BY <2>1, <2>2, <2>4 DEF Ungrouped
    <3>3. PICK g \in Nat, b \in Nat, h \in Nat : g = flush.from /\ b = flush.from + flush.len /\ h = head'
      BY <1>1
    <3>4. /\ b <= h /\ h - b = head - g /\ Cardinality(Missing(g)) + (h - b) <= dropped
          /\ accepting => h <= Len(log)
      BY <1>1, <1>7, <2>1, <2>4, <3>3, MissingHere
    <3>5. Missing(h) \subseteq Missing(g) \cup ((b + 1) .. h)
      <4>1. ASSUME NEW i \in 1 .. MinOf(h, Len(log)), ~Delivered(log[i])
            PROVE  i \in Missing(g) \/ i \in (b + 1) .. h
        <5>1. i \in Nat /\ i >= 1 /\ i <= h /\ i <= Len(log)
          BY <1>1 DEF MinOf
        <5>2. i <= g \/ i > b
          BY <1>1, <3>2, <3>3, <4>1, <5>1 DEF Batch
        <5>3. i <= g => i \in Missing(g)
          BY <1>1, <4>1, <5>1 DEF Missing, MinOf
        <5> QED BY <5>1, <5>2, <5>3
      <4> QED BY <4>1 DEF Missing
    <3>6. IsFiniteSet(Missing(g))
      BY <1>1, MissingFinite
    <3>7. /\ Cardinality(Missing(h)) <= Cardinality(Missing(g)) + (h - b)
          /\ Cardinality(Missing(h)) \in Nat /\ Cardinality(Missing(g)) \in Nat
      BY <3>4, <3>5, <3>6, CoverSize
    <3>8. Cardinality(Missing(h)') <= Cardinality(Missing(h)) /\ Cardinality(Missing(h)') \in Nat
      BY <1>5
    <3>9. Cardinality(Missing(h)') <= dropped
      BY <1>1, <3>4, <3>7, <3>8
    <3> QED BY <1>10, <3>1, <3>3, <3>4, <3>9
  <2> QED BY <1>15, <2>3, <2>4 DEF GroupSettled, RemoveBuffered, f
<1>16. CASE CompleteFlush
  <2>1. /\ ~InFlight /\ UNCHANGED <<head, copies, dead>>
        /\ flush' = NoFlush \/ flush' = FlushBatch(log, head)
    BY <1>16 DEF CompleteFlush, InFlight
  <2>2. PICK h \in Nat : h = head /\ h = head'
    BY <1>1, <2>1
  <2>3. /\ Cardinality(Missing(h)) <= dropped /\ Missing(h)' = Missing(h)
        /\ Cardinality(Missing(h)) \in Nat
    <3>1. Cardinality(Missing(head)) <= dropped
      BY <2>1 DEF MissingInv
    <3>2. Missing(h)' = Missing(h)
      BY <1>2, <2>1 DEF Missing, Delivered
    <3> QED BY <1>5, <2>2, <3>1, <3>2, MissingHere
  <2>4. CASE flush' = NoFlush
    BY <1>6, <1>10, <2>2, <2>4, <2>3 DEF InFlight, NoFlush
  <2>5. CASE flush' = FlushBatch(log, head)
    <3>1. /\ flush'.phase \in {"writing", "rejected", "removed"}
          /\ flush'.from = head /\ flush'.done = {} /\ flush'.len = PeekCount(log, head)
      BY <1>1, <2>5, FlushBatchProperties
    <3>2. InFlight' => head + flush'.len <= Len(log)
      <4>1. InFlight' => flush'.len > 0
        BY <1>16 DEF FlightInv, InService, CompleteFlush
      <4> QED BY <1>1, <3>1, <4>1, PeekCountProperties
    <3>3. Missing(flush.from)' = Missing(h) /\ Missing(head)' = Missing(h)
      BY <2>2, <2>3, <3>1, MissingHere
    <3>4. Cardinality(Missing(flush.from)') + (head' - flush'.from) <= dropped'
      BY <1>1, <1>2, <2>1, <2>3, <3>1, <3>3
    <3>5. Cardinality(Missing(head)') <= dropped'
      BY <1>2, <2>3, <3>3
    <3> QED BY <1>1, <1>2, <1>6, <2>1, <3>1, <3>2, <3>4, <3>5 DEF MissingInv, InFlight
  <2> QED BY <2>1, <2>4, <2>5
<1> QED BY <1>12, <1>13, <1>14, <1>15, <1>16 DEF FlushStep

LEMMA MissingStep ==
    ASSUME TypeInv, FlightInv, MissingInv, [Next]_vars
    PROVE  MissingInv'
<1> SUFFICES ASSUME InService' PROVE MissingInv'
  BY DEF MissingInv
<1>1. InService /\ (Quiet \/ FlushStep)
  BY ServiceKinds
<1>2. TypeInv' /\ FlightInv'
  BY TypeStep, FlightStep
<1> QED BY <1>1, <1>2, MissingQuiet, MissingFlush

\* With every overflow strategy, evictions during a write included: as long as the pipeline
\* serves, no more events have left the buffer without a store or the dead letters having
\* them than the dropped counter of stats() says.
THEOREM MissingIsCounted == Spec => []MissingBoundedByDropped
<1>1. Init => MissingInv
  <2> SUFFICES ASSUME Init PROVE MissingInv
    OBVIOUS
  <2>1. Len(log) = 0 /\ head = 0 /\ flush.phase = "none" /\ dropped = 0
    BY EmptySeq DEF Init, NoFlush
  <2>2. Missing(head) = {}
    BY <2>1 DEF Missing, MinOf
  <2> QED BY <2>1, <2>2, FS_EmptySet DEF MissingInv, InFlight
<1>2. TypeInv /\ FlightInv /\ MissingInv /\ [Next]_vars => MissingInv'
  BY MissingStep
<1>3. TypeInv /\ MissingInv => MissingBoundedByDropped
  <2> SUFFICES ASSUME TypeInv, MissingInv, InService
               PROVE  Cardinality({i \in 1 .. MinOf(head, Len(log)) : ~Delivered(log[i])}) <= dropped
    BY DEF MissingBoundedByDropped
  <2>1. /\ log \in Seq(Calls) /\ head \in Nat /\ flush.from \in Nat /\ dropped \in Nat
    BY DEF TypeInv, TypeOK, FlushType
  <2>2. CASE ~InFlight
    BY <2>2 DEF MissingInv, Missing
  <2>3. CASE InFlight
    <3>1. flush.from <= head /\ Cardinality(Missing(flush.from)) + (head - flush.from) <= dropped
      BY <2>3 DEF MissingInv
    <3>2. Missing(head) \subseteq Missing(flush.from) \cup ((flush.from + 1) .. head)
      BY <2>1 DEF Missing, MinOf
    <3>3. IsFiniteSet(Missing(flush.from))
      BY <2>1, MissingFinite
    <3>4. /\ Cardinality(Missing(head)) <= Cardinality(Missing(flush.from)) + (head - flush.from)
          /\ Cardinality(Missing(head)) \in Nat /\ Cardinality(Missing(flush.from)) \in Nat
      BY <2>1, <3>1, <3>2, <3>3, CoverSize
    <3> QED BY <2>1, <3>1, <3>4 DEF Missing
  <2> QED BY <2>2, <2>3
<1> QED BY <1>1, <1>2, <1>3, FlightAlways, PTL DEF Spec

=============================================================================
