------------------------ MODULE OutboxDrainerProofs ------------------------
(* Proofs about OutboxDrainer: types, the retry budget, and the promise of  *)
(* the outbox, for any rows, processes, limits and bounds.                  *)
EXTENDS OutboxDrainer, TLAPS

-----------------------------------------------------------------------------
(* Lemmas about where a drain stands. *)

\* A drain in a phase of the delivery has a row and an attempt.
LEMMA DeliveringHasRow ==
    ASSUME NEW w \in WorkerType, w.phase \in Delivering
    PROVE  /\ w \in [phase : Delivering, row : Rows, attempt : Nat \ {0}]
           /\ w.row \in Rows /\ w.attempt \in Nat \ {0}
<1>1. w \notin {Stopped, Idle, Looping}
  BY DEF Delivering, Stopped, Idle, Looping
<1> QED BY <1>1 DEF WorkerType

\* A step from one phase of the delivery to another keeps the row and the attempt.
LEMMA StepStays ==
    ASSUME worker \in [Drainers -> WorkerType], NEW d \in Drainers,
           worker[d].phase \in Delivering, NEW p \in Delivering, Step(d, p)
    PROVE  /\ worker' \in [Drainers -> WorkerType]
           /\ worker'[d].phase = p
           /\ worker'[d].row = worker[d].row /\ worker'[d].attempt = worker[d].attempt
           /\ \A e \in Drainers \ {d} : worker'[e] = worker[e]
<1>1. worker[d] \in [phase : Delivering, row : Rows, attempt : Nat \ {0}]
  BY DeliveringHasRow
<1>2. [worker[d] EXCEPT !.phase = p] \in [phase : Delivering, row : Rows, attempt : Nat \ {0}]
  BY <1>1
<1>3. worker' = [worker EXCEPT ![d] = [worker[d] EXCEPT !.phase = p]]
  BY DEF Step
<1> QED BY <1>1, <1>2, <1>3 DEF WorkerType

-----------------------------------------------------------------------------
(* Type correctness. *)

\* The select keeps the types.
LEMMA SelectRowsType ==
    ASSUME TypeOK, NEW d \in Drainers, SelectRows(d)
    PROVE  /\ todo' \in [Drainers -> SUBSET [row : Rows, attempts : Nat]]
           /\ worker' \in [Drainers -> WorkerType]
<1>1. PICK S \in SUBSET Due :
          todo' = [todo EXCEPT ![d] = {[row |-> r, attempts |-> attempts[r]] : r \in S}]
  BY DEF SelectRows
<1>2. S \subseteq Rows
  BY <1>1 DEF Due
<1>3. {[row |-> r, attempts |-> attempts[r]] : r \in S} \in SUBSET [row : Rows, attempts : Nat]
  BY <1>2 DEF TypeOK
<1>4. worker' \in [Drainers -> WorkerType]
  BY DEF SelectRows, TypeOK, WorkerType
<1> QED BY <1>1, <1>3, <1>4 DEF TypeOK

\* The update of a claim keeps the types.
LEMMA ClaimRowType ==
    ASSUME TypeOK, NEW t \in [row : Rows, attempts : Nat], ClaimRow(t.row, t.attempts + 1)
    PROVE  /\ status' \in [Rows -> {"absent", "pending", "processing", "processed", "failed"}]
           /\ attempts' \in [Rows -> Nat]
           /\ ripe' \in [Rows -> BOOLEAN]
           /\ claims' \in [Rows -> Nat]
BY DEF ClaimRow, TypeOK

\* The update of #fail keeps the types.
LEMMA FailRowType ==
    ASSUME TypeOK, NEW d \in Drainers, worker[d].row \in Rows, FailRow(d)
    PROVE  /\ status' \in [Rows -> {"absent", "pending", "processing", "processed", "failed"}]
           /\ ripe' \in [Rows -> BOOLEAN]
BY DelayedAssumption DEF FailRow, TypeOK

\* The bounds of a behaviour are numbers.
LEMMA BoundType ==
    ASSUME bound \in Bounds
    PROVE  bound.faults \in Nat /\ bound.crashes \in Nat /\ bound.requeues \in Nat
BY BoundsAssumption

\* What is counted against the bounds stays within them.
LEMMA FaultType ==
    ASSUME TypeOK, Fault
    PROVE  /\ bound' = bound /\ faults' \in 0 .. bound.faults
           /\ crashes' = crashes /\ requeues' = requeues
BY BoundType DEF Fault, TypeOK

\* Every step keeps the types.
LEMMA TypeStep == TypeOK /\ [Next]_vars => TypeOK'
<1> SUFFICES ASSUME TypeOK, [Next]_vars PROVE TypeOK'
  OBVIOUS
<1> USE DEF columns, bounds, deliveryFrame
<1>1. CASE UNCHANGED vars
  BY <1>1 DEF TypeOK, vars
<1>2. ASSUME NEW r \in Rows, Commit(r) PROVE TypeOK'
  BY <1>2 DEF Commit, TypeOK
<1>3. ASSUME NEW r \in Rows, Ripen(r) PROVE TypeOK'
  BY <1>3 DEF Ripen, TypeOK
<1>4. ASSUME NEW r \in Rows, Requeue(r) PROVE TypeOK'
  BY <1>4, BoundType DEF Requeue, TypeOK
<1>5. ASSUME NEW d \in Drainers, Start(d) PROVE TypeOK'
  <2>1. CASE SelectRows(d)
    BY <1>5, <2>1, SelectRowsType DEF Start, TypeOK
  <2>2. CASE worker' = [worker EXCEPT ![d] = Idle] /\ UNCHANGED todo
    BY <1>5, <2>2 DEF Start, TypeOK, WorkerType
  <2> QED BY <1>5, <2>1, <2>2 DEF Start
<1>6. ASSUME NEW d \in Drainers, Scheduled(d) PROVE TypeOK'
  BY <1>6, SelectRowsType DEF Scheduled, TypeOK
<1>7. ASSUME NEW d \in Drainers, Stop(d) PROVE TypeOK'
  BY <1>7 DEF Stop, TypeOK, WorkerType
<1>8. ASSUME NEW d \in Drainers, Claim(d) PROVE TypeOK'
  <2>1. PICK t \in todo[d] :
          /\ todo' = [todo EXCEPT ![d] = @ \ {t}]
          /\ \/ /\ ClaimRow(t.row, t.attempts + 1)
                /\ worker' = [worker EXCEPT ![d] =
                       At(IF t.row \in Malformed THEN "failingForGood" ELSE "checking",
                          t.row, t.attempts + 1)]
             \/ UNCHANGED <<columns, claims, worker>>
    BY <1>8 DEF Claim
  <2>2. t \in [row : Rows, attempts : Nat]
    BY <2>1 DEF TypeOK
  <2>3. todo' \in [Drainers -> SUBSET [row : Rows, attempts : Nat]]
    BY <2>1 DEF TypeOK
  <2>4. CASE UNCHANGED <<columns, claims, worker>>
    BY <1>8, <2>3, <2>4 DEF Claim, TypeOK
  <2>5. CASE /\ ClaimRow(t.row, t.attempts + 1)
             /\ worker' = [worker EXCEPT ![d] =
                    At(IF t.row \in Malformed THEN "failingForGood" ELSE "checking",
                       t.row, t.attempts + 1)]
    <3>1. t.attempts + 1 \in Nat \ {0} /\ t.row \in Rows
      BY <2>2
    <3>2. At(IF t.row \in Malformed THEN "failingForGood" ELSE "checking",
             t.row, t.attempts + 1) \in WorkerType
      BY <3>1 DEF At, WorkerType, Delivering
    <3>3. worker' \in [Drainers -> WorkerType]
      BY <2>5, <3>2 DEF TypeOK
    <3> QED BY <1>8, <2>2, <2>3, <2>5, <3>3, ClaimRowType DEF Claim, TypeOK
  <2> QED BY <2>1, <2>4, <2>5
<1>9. ASSUME NEW d \in Drainers, ClaimRejects(d) PROVE TypeOK'
  <2>1. PICK t \in todo[d] :
          \/ UNCHANGED <<columns, claims>>
          \/ ClaimRow(t.row, t.attempts + 1)
    BY <1>9 DEF ClaimRejects
  <2>2. t \in [row : Rows, attempts : Nat]
    BY DEF TypeOK
  <2>3. /\ status' \in [Rows -> {"absent", "pending", "processing", "processed", "failed"}]
        /\ attempts' \in [Rows -> Nat] /\ ripe' \in [Rows -> BOOLEAN] /\ claims' \in [Rows -> Nat]
    BY <2>1, <2>2, ClaimRowType DEF TypeOK
  <2>4. worker' \in [Drainers -> WorkerType]
    BY <1>9 DEF ClaimRejects, TypeOK, WorkerType
  <2> QED BY <1>9, <2>3, <2>4, FaultType DEF ClaimRejects, TypeOK
<1>10. ASSUME NEW d \in Drainers, Return(d) PROVE TypeOK'
  BY <1>10 DEF Return, TypeOK, WorkerType
<1>11. ASSUME NEW d \in Drainers, Check(d) PROVE TypeOK'
  <2>1. worker' \in [Drainers -> WorkerType]
    BY <1>11, StepStays DEF Check, TypeOK, Delivering
  <2> QED BY <1>11, <2>1 DEF Check, TypeOK
<1>12. ASSUME NEW d \in Drainers, Insert(d) PROVE TypeOK'
  <2>1. worker' \in [Drainers -> WorkerType] /\ worker[d].row \in Rows
    BY <1>12, StepStays, DeliveringHasRow DEF Insert, TypeOK, Delivering
  <2> QED BY <1>12, <2>1 DEF Insert, TypeOK
<1>13. ASSUME NEW d \in Drainers, WriteRejects(d) PROVE TypeOK'
  <2>1. worker' \in [Drainers -> WorkerType] /\ worker[d].row \in Rows
    BY <1>13, StepStays, DeliveringHasRow DEF WriteRejects, TypeOK, Delivering
  <2> QED BY <1>13, <2>1 DEF WriteRejects, TypeOK
<1>14. ASSUME NEW d \in Drainers, Notify(d) PROVE TypeOK'
  <2>1. worker' \in [Drainers -> WorkerType] /\ worker[d].row \in Rows
    BY <1>14, StepStays, DeliveringHasRow DEF Notify, TypeOK, Delivering
  <2>2. notified' \in [Drainers -> SUBSET Rows]
    BY <1>14, <2>1 DEF Notify, TypeOK
  <2>3. announced' \in [Rows -> Nat]
    BY <1>14, <2>1 DEF Notify, TypeOK
  <2> QED BY <1>14, <2>1, <2>2, <2>3 DEF Notify, TypeOK
<1>15. ASSUME NEW d \in Drainers, Ack(d) PROVE TypeOK'
  <2>1. worker[d].row \in Rows
    BY <1>15, DeliveringHasRow DEF Ack, TypeOK, Delivering
  <2> QED BY <1>15, <2>1 DEF Ack, AckRow, TypeOK, WorkerType
<1>16. ASSUME NEW d \in Drainers, AckRejects(d) PROVE TypeOK'
  <2>1. worker' \in [Drainers -> WorkerType] /\ worker[d].row \in Rows
    BY <1>16, StepStays, DeliveringHasRow DEF AckRejects, TypeOK, Delivering
  <2>2. status' \in [Rows -> {"absent", "pending", "processing", "processed", "failed"}]
    BY <1>16, <2>1 DEF AckRejects, AckRow, TypeOK
  <2> QED BY <1>16, <2>1, <2>2, FaultType DEF AckRejects, TypeOK
<1>17. ASSUME NEW d \in Drainers, Fail(d) PROVE TypeOK'
  <2>1. worker[d].row \in Rows
    BY <1>17, DeliveringHasRow DEF Fail, TypeOK, Delivering
  <2>2. /\ status' \in [Rows -> {"absent", "pending", "processing", "processed", "failed"}]
        /\ ripe' \in [Rows -> BOOLEAN]
    BY <1>17, <2>1, FailRowType DEF Fail
  <2>3. worker' \in [Drainers -> WorkerType] /\ poisoned' \subseteq Rows
    BY <1>17, <2>1 DEF Fail, TypeOK, WorkerType
  <2> QED BY <1>17, <2>2, <2>3 DEF Fail, TypeOK
<1>18. ASSUME NEW d \in Drainers, FailRejects(d) PROVE TypeOK'
  <2>1. worker[d].row \in Rows
    BY <1>18, DeliveringHasRow DEF FailRejects, TypeOK, Delivering
  <2>2. /\ status' \in [Rows -> {"absent", "pending", "processing", "processed", "failed"}]
        /\ ripe' \in [Rows -> BOOLEAN]
    BY <1>18, <2>1, FailRowType DEF FailRejects, TypeOK
  <2>3. worker' \in [Drainers -> WorkerType]
    BY <1>18 DEF FailRejects, TypeOK, WorkerType
  <2> QED BY <1>18, <2>2, <2>3, FaultType DEF FailRejects, TypeOK
<1>19. ASSUME NEW d \in Drainers, Crash(d) PROVE TypeOK'
  BY <1>19, BoundType DEF Crash, TypeOK, WorkerType
<1> QED
  BY <1>1, <1>2, <1>3, <1>4, <1>5, <1>6, <1>7, <1>8, <1>9, <1>10, <1>11, <1>12, <1>13, <1>14,
     <1>15, <1>16, <1>17, <1>18, <1>19 DEF Next, Drain, Trouble

\* The initial state has the types.
LEMMA TypeInit == Init => TypeOK
BY BoundType DEF Init, TypeOK, WorkerType

\* In every reachable state the variables have their types.
THEOREM TypeCorrect == Spec => []TypeOK
<1> QED BY TypeInit, TypeStep, PTL DEF Spec

-----------------------------------------------------------------------------
(* The retry budget. *)

\* No attempts that drain() works with, or has read, exceed the claims of the row.
BudgetInv ==
    /\ \A r \in Rows : attempts[r] <= claims[r]
    /\ \A d \in Drainers : \A t \in todo[d] : t.attempts <= claims[t.row]
    /\ \A d \in Drainers : worker[d].phase \in Delivering =>
          /\ worker[d].attempt <= claims[worker[d].row]
          /\ worker[d].phase = "failingForGood" => worker[d].row \in Malformed
    /\ NeverGivenUpEarly

\* A drain that does not deliver has no phase of the delivery.
LEMMA NotDelivering ==
    Idle.phase \notin Delivering /\ Looping.phase \notin Delivering /\ Stopped.phase \notin Delivering
BY DEF Idle, Looping, Stopped, Delivering

\* A step that claims nothing and fails nothing keeps the budget, if what the drains
\* hold afterwards they held before, or have just read.
LEMMA BudgetFrame ==
    ASSUME TypeOK, TypeOK', BudgetInv, claims' = claims,
           \A r \in Rows : attempts'[r] <= claims[r],
           \A d \in Drainers : \A t \in todo'[d] :
               t \in todo[d] \/ (t.row \in Rows /\ t.attempts = attempts[t.row]),
           \A d \in Drainers : worker'[d].phase \in Delivering =>
               /\ worker[d].phase \in Delivering
               /\ worker'[d].row = worker[d].row /\ worker'[d].attempt = worker[d].attempt
               /\ worker'[d].phase = "failingForGood" => worker[d].phase = "failingForGood",
           \A r \in Rows : GivenUp(r)' => GivenUp(r) \/ r \in Malformed
                                                   \/ claims[r] >= MaxAttempts
    PROVE  BudgetInv'
<1>1. \A d \in Drainers : \A t \in todo'[d] : t.attempts <= claims'[t.row]
  BY DEF BudgetInv
<1>2. \A d \in Drainers : worker'[d].phase \in Delivering =>
          /\ worker'[d].attempt <= claims'[worker'[d].row]
          /\ worker'[d].phase = "failingForGood" => worker'[d].row \in Malformed
  BY DEF BudgetInv
<1>3. NeverGivenUpEarly'
  BY DEF BudgetInv, NeverGivenUpEarly
<1> QED BY <1>1, <1>2, <1>3 DEF BudgetInv

\* The update of a claim keeps the budget of everything but the claiming drain.
LEMMA ClaimRowBudget ==
    ASSUME TypeOK, BudgetInv, NEW t \in [row : Rows, attempts : Nat],
           t.attempts <= claims[t.row], ClaimRow(t.row, t.attempts + 1), poisoned' = poisoned
    PROVE  /\ \A r \in Rows : claims'[r] >= claims[r]
           /\ \A r \in Rows : attempts'[r] <= claims'[r]
           /\ t.attempts + 1 <= claims'[t.row]
           /\ NeverGivenUpEarly'
<1>1. claims' = [claims EXCEPT ![t.row] = @ + 1] /\ claims \in [Rows -> Nat] /\ t.row \in Rows
  BY DEF ClaimRow, TypeOK
<1>2. \A r \in Rows : claims'[r] >= claims[r]
  BY <1>1
<1>3. claims'[t.row] = claims[t.row] + 1
  BY <1>1
<1>4. \A r \in Rows : attempts'[r] <= claims'[r]
  BY <1>1, <1>2, <1>3 DEF ClaimRow, TypeOK, BudgetInv
<1>5. NeverGivenUpEarly'
  <2> SUFFICES ASSUME NEW r \in Rows \ Malformed, GivenUp(r)'
               PROVE  claims'[r] >= MaxAttempts
    BY DEF NeverGivenUpEarly
  <2>1. GivenUp(r)
    BY DEF GivenUp, ClaimRow, TypeOK
  <2> QED BY <1>1, <1>2, <2>1, AttemptsAssumption DEF BudgetInv, NeverGivenUpEarly
<1>6. t.attempts + 1 <= claims'[t.row]
  BY <1>1, <1>3
<1> QED BY <1>2, <1>4, <1>5, <1>6

\* What #fail does keeps the budget: it gives up after enough claims only.
LEMMA FailRowBudget ==
    ASSUME TypeOK, BudgetInv, NEW d \in Drainers,
           worker[d].phase \in {"failing", "failingForGood"}, FailRow(d)
    PROVE  /\ \A r \in Rows : status'[r] = "failed" => status[r] = "failed" \/ r \in Malformed
                                                       \/ claims[r] >= MaxAttempts
           /\ GivesUp(d) => worker[d].row \in Malformed \/ claims[worker[d].row] >= MaxAttempts
<1>1. worker[d].row \in Rows /\ worker[d].attempt \in Nat \ {0}
  BY DeliveringHasRow DEF TypeOK, Delivering
<1>2. /\ worker[d].attempt <= claims[worker[d].row]
      /\ worker[d].phase = "failingForGood" => worker[d].row \in Malformed
  BY DEF BudgetInv, Delivering
<1>3. claims[worker[d].row] \in Nat
  BY <1>1 DEF TypeOK
<1>4. GivesUp(d) => worker[d].row \in Malformed \/ claims[worker[d].row] >= MaxAttempts
  BY <1>1, <1>2, <1>3, AttemptsAssumption DEF GivesUp
<1>5. \A r \in Rows : r # worker[d].row => status'[r] = status[r]
  BY <1>1 DEF FailRow, TypeOK
<1>6. status'[worker[d].row] = "failed" => status[worker[d].row] = "failed" \/ GivesUp(d)
  BY <1>1 DEF FailRow, TypeOK
<1> QED BY <1>4, <1>5, <1>6

\* Every step keeps the budget.
LEMMA BudgetStep == TypeOK /\ BudgetInv /\ [Next]_vars => BudgetInv'
<1> SUFFICES ASSUME TypeOK, BudgetInv, [Next]_vars PROVE BudgetInv'
  OBVIOUS
<1>0. TypeOK'
  BY TypeStep
<1> USE DEF columns, bounds, deliveryFrame
<1>1. CASE UNCHANGED vars
  BY <1>1 DEF vars, BudgetInv, NeverGivenUpEarly, GivenUp
<1>2. ASSUME NEW r \in Rows, Commit(r) \/ Ripen(r) \/ Requeue(r) PROVE BudgetInv'
  <2>1. \A q \in Rows : attempts'[q] <= claims[q]
    BY <1>2 DEF Commit, Ripen, Requeue, BudgetInv, TypeOK
  <2>2. \A q \in Rows : GivenUp(q)' => GivenUp(q)
    BY <1>2 DEF Commit, Ripen, Requeue, TypeOK, GivenUp
  <2>3. claims' = claims /\ todo' = todo /\ worker' = worker
    BY <1>2 DEF Commit, Ripen, Requeue
  <2> QED BY <1>0, <2>1, <2>2, <2>3, BudgetFrame
<1>3. ASSUME NEW d \in Drainers, Start(d) \/ Scheduled(d) PROVE BudgetInv'
  <2>1. claims' = claims /\ attempts' = attempts /\ status' = status /\ poisoned' = poisoned
    BY <1>3 DEF Start, Scheduled
  <2>2. \A e \in Drainers : worker'[e].phase \in Delivering => worker'[e] = worker[e]
    BY <1>3, NotDelivering DEF Start, Scheduled, SelectRows, TypeOK
  <2>3. \A e \in Drainers : \A t \in todo'[e] :
            t \in todo[e] \/ (t.row \in Rows /\ t.attempts = attempts[t.row])
    <3>1. CASE SelectRows(d)
      BY <3>1 DEF SelectRows, Due, TypeOK
    <3>2. CASE UNCHANGED todo
      BY <3>2
    <3> QED BY <1>3, <3>1, <3>2 DEF Start, Scheduled
  <2> QED BY <1>0, <2>1, <2>2, <2>3, BudgetFrame DEF BudgetInv, GivenUp
<1>4. ASSUME NEW d \in Drainers, Stop(d) \/ Return(d) \/ Crash(d) PROVE BudgetInv'
  <2>1. claims' = claims /\ attempts' = attempts /\ status' = status /\ poisoned' = poisoned
    BY <1>4 DEF Stop, Return, Crash
  <2>2. \A e \in Drainers : worker'[e].phase \in Delivering => worker'[e] = worker[e]
    BY <1>4, NotDelivering DEF Stop, Return, Crash, TypeOK
  <2>3. \A e \in Drainers : todo'[e] \subseteq todo[e]
    BY <1>4 DEF Stop, Return, Crash, TypeOK
  <2> QED BY <1>0, <2>1, <2>2, <2>3, BudgetFrame DEF BudgetInv, GivenUp
<1>5. ASSUME NEW d \in Drainers, Claim(d) PROVE BudgetInv'
  <2>1. PICK t \in todo[d] :
          /\ todo' = [todo EXCEPT ![d] = @ \ {t}]
          /\ \/ /\ ClaimRow(t.row, t.attempts + 1)
                /\ worker' = [worker EXCEPT ![d] =
                       At(IF t.row \in Malformed THEN "failingForGood" ELSE "checking",
                          t.row, t.attempts + 1)]
             \/ UNCHANGED <<columns, claims, worker>>
          /\ poisoned' = poisoned
    BY <1>5 DEF Claim
  <2>2. t \in [row : Rows, attempts : Nat] /\ t.attempts <= claims[t.row]
    BY <2>1 DEF TypeOK, BudgetInv
  <2>3. \A e \in Drainers : todo'[e] \subseteq todo[e]
    BY <2>1 DEF TypeOK
  <2>4. CASE UNCHANGED <<columns, claims, worker>>
    BY <1>0, <2>1, <2>3, <2>4, BudgetFrame DEF BudgetInv, GivenUp
  <2>5. CASE /\ ClaimRow(t.row, t.attempts + 1)
             /\ worker' = [worker EXCEPT ![d] =
                    At(IF t.row \in Malformed THEN "failingForGood" ELSE "checking",
                       t.row, t.attempts + 1)]
    <3>1. /\ \A r \in Rows : claims'[r] >= claims[r]
          /\ \A r \in Rows : attempts'[r] <= claims'[r]
          /\ t.attempts + 1 <= claims'[t.row]
          /\ NeverGivenUpEarly'
      BY <2>1, <2>2, <2>5, ClaimRowBudget
    <3>2. \A e \in Drainers : \A s \in todo'[e] : s.attempts <= claims'[s.row]
      <4> SUFFICES ASSUME NEW e \in Drainers, NEW s \in todo'[e] PROVE s.attempts <= claims'[s.row]
        OBVIOUS
      <4>1. s \in todo[e] /\ s \in [row : Rows, attempts : Nat]
        BY <2>3 DEF TypeOK
      <4> QED BY <1>0, <3>1, <4>1 DEF BudgetInv, TypeOK
    <3>3. ASSUME NEW e \in Drainers, worker'[e].phase \in Delivering
          PROVE  /\ worker'[e].attempt <= claims'[worker'[e].row]
                 /\ worker'[e].phase = "failingForGood" => worker'[e].row \in Malformed
      <4>1. CASE e = d
        <5>1. worker'[d] = At(IF t.row \in Malformed THEN "failingForGood" ELSE "checking",
                              t.row, t.attempts + 1)
          BY <2>5 DEF TypeOK
        <5> QED BY <3>1, <4>1, <5>1 DEF At
      <4>2. CASE e # d
        <5>1. worker'[e] = worker[e]
          BY <2>5, <4>2 DEF TypeOK
        <5>2. worker[e].row \in Rows /\ worker[e].attempt \in Nat
          BY <3>3, <5>1, DeliveringHasRow DEF TypeOK
        <5> QED BY <1>0, <3>1, <3>3, <5>1, <5>2 DEF BudgetInv, TypeOK
      <4> QED BY <4>1, <4>2
    <3> QED BY <3>1, <3>2, <3>3 DEF BudgetInv
  <2> QED BY <2>1, <2>4, <2>5
<1>6. ASSUME NEW d \in Drainers, ClaimRejects(d) PROVE BudgetInv'
  <2>1. PICK t \in todo[d] :
          \/ UNCHANGED <<columns, claims>>
          \/ ClaimRow(t.row, t.attempts + 1)
    BY <1>6 DEF ClaimRejects
  <2> poisoned' = poisoned
    BY <1>6 DEF ClaimRejects
  <2>2. t \in [row : Rows, attempts : Nat] /\ t.attempts <= claims[t.row]
    BY <2>1 DEF TypeOK, BudgetInv
  <2>3. \A e \in Drainers : todo'[e] \subseteq todo[e]
    BY <1>6 DEF ClaimRejects, TypeOK
  <2>4. \A e \in Drainers : worker'[e].phase \in Delivering => worker'[e] = worker[e]
    BY <1>6, NotDelivering DEF ClaimRejects, TypeOK
  <2>5. CASE UNCHANGED <<columns, claims>>
    BY <1>0, <2>3, <2>4, <2>5, BudgetFrame DEF BudgetInv, GivenUp
  <2>6. CASE ClaimRow(t.row, t.attempts + 1)
    <3>1. /\ \A r \in Rows : claims'[r] >= claims[r]
          /\ \A r \in Rows : attempts'[r] <= claims'[r]
          /\ NeverGivenUpEarly'
      BY <2>2, <2>6, ClaimRowBudget
    <3>2. \A e \in Drainers : \A s \in todo'[e] : s.attempts <= claims'[s.row]
      <4> SUFFICES ASSUME NEW e \in Drainers, NEW s \in todo'[e] PROVE s.attempts <= claims'[s.row]
        OBVIOUS
      <4>1. s \in todo[e] /\ s \in [row : Rows, attempts : Nat]
        BY <2>3 DEF TypeOK
      <4> QED BY <1>0, <3>1, <4>1 DEF BudgetInv, TypeOK
    <3>3. ASSUME NEW e \in Drainers, worker'[e].phase \in Delivering
          PROVE  /\ worker'[e].attempt <= claims'[worker'[e].row]
                 /\ worker'[e].phase = "failingForGood" => worker'[e].row \in Malformed
      <4>1. worker[e].row \in Rows /\ worker[e].attempt \in Nat
        BY <2>4, <3>3, DeliveringHasRow DEF TypeOK
      <4> QED BY <1>0, <2>4, <3>1, <3>3, <4>1 DEF BudgetInv, TypeOK
    <3> QED BY <3>1, <3>2, <3>3 DEF BudgetInv
  <2> QED BY <2>1, <2>5, <2>6
<1>7. ASSUME NEW d \in Drainers, Check(d) \/ Insert(d) \/ WriteRejects(d) \/ Notify(d) \/ AckRejects(d)
      PROVE  BudgetInv'
  <2>1. PICK p \in {"written", "inserting", "failing", "notified"} : Step(d, p)
    BY <1>7 DEF Check, Insert, WriteRejects, Notify, AckRejects
  <2>2. worker[d].phase \in Delivering /\ p \in Delivering /\ p # "failingForGood"
    BY <1>7, <2>1 DEF Check, Insert, WriteRejects, Notify, AckRejects, Delivering
  <2>3. /\ worker'[d].phase = p
        /\ worker'[d].row = worker[d].row /\ worker'[d].attempt = worker[d].attempt
        /\ \A e \in Drainers \ {d} : worker'[e] = worker[e]
    BY <2>1, <2>2, StepStays DEF TypeOK
  <2>4. claims' = claims /\ todo' = todo /\ attempts' = attempts
    BY <1>7 DEF Check, Insert, WriteRejects, Notify, AckRejects
  <2>5. \A r \in Rows : GivenUp(r)' => GivenUp(r)
    <3>1. worker[d].row \in Rows
      BY <2>2, DeliveringHasRow DEF TypeOK
    <3> QED BY <1>7, <3>1 DEF Check, Insert, WriteRejects, Notify, AckRejects, AckRow, TypeOK,
                           GivenUp
  <2>6. \A e \in Drainers : worker'[e].phase \in Delivering =>
            /\ worker[e].phase \in Delivering
            /\ worker'[e].row = worker[e].row /\ worker'[e].attempt = worker[e].attempt
            /\ worker'[e].phase = "failingForGood" => worker[e].phase = "failingForGood"
    BY <2>2, <2>3
  <2> QED BY <1>0, <2>4, <2>5, <2>6, BudgetFrame DEF BudgetInv
<1>8. ASSUME NEW d \in Drainers, Ack(d) PROVE BudgetInv'
  <2>1. worker[d].row \in Rows
    BY <1>8, DeliveringHasRow DEF Ack, TypeOK, Delivering
  <2>2. \A r \in Rows : GivenUp(r)' => GivenUp(r)
    BY <1>8, <2>1 DEF Ack, AckRow, TypeOK, GivenUp
  <2>3. \A e \in Drainers : worker'[e].phase \in Delivering => worker'[e] = worker[e]
    BY <1>8, NotDelivering DEF Ack, TypeOK
  <2> QED BY <1>0, <1>8, <2>2, <2>3, BudgetFrame DEF Ack, BudgetInv
<1>9. ASSUME NEW d \in Drainers, Fail(d) \/ FailRejects(d) PROVE BudgetInv'
  <2>1. \A r \in Rows : GivenUp(r)' => GivenUp(r) \/ r \in Malformed
                                                 \/ claims[r] >= MaxAttempts
    BY <1>9, FailRowBudget DEF Fail, FailRejects, GivenUp
  <2>2. \A e \in Drainers : worker'[e].phase \in Delivering => worker'[e] = worker[e]
    BY <1>9, NotDelivering DEF Fail, FailRejects, TypeOK
  <2>3. \A e \in Drainers : todo'[e] \subseteq todo[e]
    BY <1>9 DEF Fail, FailRejects, TypeOK
  <2>4. claims' = claims /\ attempts' = attempts
    BY <1>9 DEF Fail, FailRejects
  <2> QED BY <1>0, <2>1, <2>2, <2>3, <2>4, BudgetFrame DEF BudgetInv
<1> QED
  BY <1>1, <1>2, <1>3, <1>4, <1>5, <1>6, <1>7, <1>8, <1>9 DEF Next, Drain, Trouble

\* The start has spent nothing.
LEMMA BudgetInit == Init => BudgetInv
BY NotDelivering DEF Init, BudgetInv, NeverGivenUpEarly, GivenUp

\* A well-formed row fails only after it was claimed MaxAttempts times, however old the
\* list was that a drain took its attempts from.
THEOREM BudgetIsSpent == Spec => []NeverGivenUpEarly
<1>1. BudgetInv => NeverGivenUpEarly
  BY DEF BudgetInv
<1> QED BY <1>1, TypeInit, TypeStep, BudgetInit, BudgetStep, PTL DEF Spec

-----------------------------------------------------------------------------
(* The promise of the outbox. *)

\* A drain that goes on from the write has its event in the target.
WrittenIsStored ==
    \A d \in Drainers : worker[d].phase \in {"written", "notified"} => worker[d].row \in stored

\* What a process holds in its phases "written" and "notified" is not disturbed by others.
LEMMA WrittenFrame ==
    ASSUME WrittenIsStored, stored \subseteq stored',
           \A e \in Drainers : worker'[e].phase \in {"written", "notified"} =>
               \/ worker'[e].row \in stored'
               \/ worker[e].phase \in {"written", "notified"} /\ worker'[e].row = worker[e].row
    PROVE  WrittenIsStored'
BY DEF WrittenIsStored

\* Every step keeps it.
LEMMA WrittenStep == TypeOK /\ WrittenIsStored /\ [Next]_vars => WrittenIsStored'
<1> SUFFICES ASSUME TypeOK, WrittenIsStored, [Next]_vars PROVE WrittenIsStored'
  OBVIOUS
<1> USE DEF columns, bounds, deliveryFrame
<1>1. CASE UNCHANGED vars
  BY <1>1 DEF vars, WrittenIsStored
<1>2. ASSUME NEW r \in Rows, Commit(r) \/ Ripen(r) \/ Requeue(r) PROVE WrittenIsStored'
  BY <1>2 DEF Commit, Ripen, Requeue, WrittenIsStored
<1>3. ASSUME NEW d \in Drainers, \/ Start(d) \/ Scheduled(d) \/ Stop(d) \/ Return(d) \/ Crash(d)
                                \/ ClaimRejects(d) \/ Ack(d) \/ Fail(d) \/ FailRejects(d)
      PROVE  WrittenIsStored'
  <2>1. \A e \in Drainers : worker'[e].phase \in {"written", "notified"} => worker'[e] = worker[e]
    BY <1>3 DEF Start, Scheduled, SelectRows, Stop, Return, Crash, ClaimRejects, Ack, Fail,
                FailRejects, TypeOK, Idle, Looping, Stopped
  <2>2. stored' = stored
    BY <1>3 DEF Start, Scheduled, Stop, Return, Crash, ClaimRejects, Ack, Fail, FailRejects
  <2> QED BY <2>1, <2>2, WrittenFrame
<1>4. ASSUME NEW d \in Drainers, Claim(d) PROVE WrittenIsStored'
  <2>1. \A e \in Drainers : worker'[e].phase \in {"written", "notified"} => worker'[e] = worker[e]
    BY <1>4 DEF Claim, At, TypeOK
  <2> QED BY <1>4, <2>1, WrittenFrame DEF Claim
<1>5. ASSUME NEW d \in Drainers, Check(d) \/ Insert(d) \/ WriteRejects(d) \/ Notify(d) \/ AckRejects(d)
      PROVE  WrittenIsStored'
  <2>1. PICK p \in {"written", "inserting", "failing", "notified"} : Step(d, p)
    BY <1>5 DEF Check, Insert, WriteRejects, Notify, AckRejects
  <2>2. worker[d].phase \in Delivering /\ p \in Delivering
    BY <1>5, <2>1 DEF Check, Insert, WriteRejects, Notify, AckRejects, Delivering
  <2>3. /\ worker'[d].phase = p /\ worker'[d].row = worker[d].row
        /\ \A e \in Drainers \ {d} : worker'[e] = worker[e]
    BY <2>1, <2>2, StepStays DEF TypeOK
  <2>4. stored \subseteq stored'
    BY <1>5 DEF Check, Insert, WriteRejects, Notify, AckRejects
  <2>5. worker'[d].phase \in {"written", "notified"} => worker[d].row \in stored'
    <3>1. CASE Check(d)
      <4>1. p = IF worker[d].row \in stored THEN "written" ELSE "inserting"
        <5>1. Step(d, IF worker[d].row \in stored THEN "written" ELSE "inserting")
          BY <3>1 DEF Check
        <5>2. worker'[d].phase = IF worker[d].row \in stored THEN "written" ELSE "inserting"
          BY <2>2, <5>1, StepStays DEF TypeOK, Delivering
        <5> QED BY <2>3, <5>2
      <4> QED BY <2>3, <2>4, <4>1
    <3>2. CASE Insert(d)
      BY <3>2 DEF Insert
    <3>3. CASE WriteRejects(d) \/ AckRejects(d)
      <4>1. Step(d, "failing")
        BY <3>3 DEF WriteRejects, AckRejects
      <4>2. worker'[d].phase = "failing"
        BY <2>2, <4>1, StepStays DEF TypeOK, Delivering
      <4> QED BY <4>2
    <3>4. CASE Notify(d)
      BY <2>4, <3>4 DEF Notify, WrittenIsStored
    <3> QED BY <1>5, <3>1, <3>2, <3>3, <3>4
  <2> QED BY <2>3, <2>4, <2>5, WrittenFrame
<1> QED
  BY <1>1, <1>2, <1>3, <1>4, <1>5 DEF Next, Drain, Trouble

\* No drain stands anywhere at the start.
LEMMA WrittenInit == Init => WrittenIsStored
BY DEF Init, WrittenIsStored, Stopped

\* The abstract state that the mapping gives.
Intent == [r \in Rows |-> Owed(status[r])]

\* A change of one status changes one intent.
LEMMA IntentMoves ==
    ASSUME TypeOK, NEW r \in Rows,
           NEW s \in {"absent", "pending", "processing", "processed", "failed"},
           status' = [status EXCEPT ![r] = s]
    PROVE  Intent' = [Intent EXCEPT ![r] = Owed(s)]
BY DEF TypeOK, Intent

\* A change between the two statuses of an owed row changes no intent.
LEMMA IntentStays ==
    ASSUME TypeOK, NEW r \in Rows,
           NEW s \in {"absent", "pending", "processing", "processed", "failed"},
           status' = [status EXCEPT ![r] = s], Owed(status[r]) = Owed(s)
    PROVE  Intent' = Intent
BY DEF TypeOK, Intent

\* A new event in the target is a delivery of an intent that is not done.
LEMMA TargetGrows ==
    ASSUME NEW r \in Rows, Intent[r] \in {"owed", "failed"}, Intent' = Intent,
           stored' = stored \cup {r}
    PROVE  [Promise!Next]_<<Intent, stored>>
BY DEF Promise!Next, Promise!Deliver, Intent

\* What is acknowledged is stored, what is claimed has been committed.
Reconciled ==
    /\ \A r \in Rows : status[r] = "processed" => r \in stored
    /\ \A d \in Drainers : worker[d].phase \in Delivering => status[worker[d].row] # "absent"
    /\ \A d \in Drainers : \A t \in todo[d] : status[t.row] # "absent"

\* A step changes the status of one row by a claim, an acknowledgement or a failure, or
\* commits or requeues a row, or leaves the statuses alone.
LEMMA StatusStep ==
    ASSUME TypeOK, [Next]_vars
    PROVE  \/ status' = status
           \/ \E r \in Rows :
                \/ status[r] \in {"absent", "failed"} /\ status' = [status EXCEPT ![r] = "pending"]
                \/ r \in Due /\ status' = [status EXCEPT ![r] = "processing"]
                \/ \E d \in Drainers :
                     /\ Holds(d, r) /\ status[r] = "processing"
                     /\ \/ /\ worker[d].phase = "notified"
                           /\ status' = [status EXCEPT ![r] = "processed"]
                        \/ \E s \in {"pending", "failed"} : status' = [status EXCEPT ![r] = s]
<1> USE DEF columns, bounds, deliveryFrame
<1>1. CASE UNCHANGED vars
  BY <1>1 DEF vars
<1>2. ASSUME NEW r \in Rows, Commit(r) \/ Ripen(r) \/ Requeue(r)
      PROVE  \/ status' = status
             \/ status[r] \in {"absent", "failed"} /\ status' = [status EXCEPT ![r] = "pending"]
  BY <1>2 DEF Commit, Ripen, Requeue
<1>3. ASSUME NEW d \in Drainers, \/ Start(d) \/ Scheduled(d) \/ Stop(d) \/ Return(d) \/ Crash(d)
                                \/ Check(d) \/ Insert(d) \/ WriteRejects(d) \/ Notify(d)
      PROVE  status' = status
  BY <1>3 DEF Start, Scheduled, Stop, Return, Crash, Check, Insert, WriteRejects, Notify
<1>4. ASSUME NEW d \in Drainers, Claim(d) \/ ClaimRejects(d)
      PROVE  \/ status' = status
             \/ \E r \in Rows : r \in Due /\ status' = [status EXCEPT ![r] = "processing"]
  BY <1>4 DEF Claim, ClaimRejects, ClaimRow, Due
<1>5. ASSUME NEW d \in Drainers, Ack(d) \/ AckRejects(d)
      PROVE  \/ status' = status
             \/ /\ worker[d].row \in Rows /\ Holds(d, worker[d].row)
                /\ status[worker[d].row] = "processing" /\ worker[d].phase = "notified"
                /\ status' = [status EXCEPT ![worker[d].row] = "processed"]
  <2>1. worker[d].phase = "notified" /\ worker[d].phase \in Delivering
    BY <1>5 DEF Ack, AckRejects, Delivering
  <2>2. worker[d].row \in Rows
    BY <2>1, DeliveringHasRow DEF TypeOK
  <2> QED BY <1>5, <2>1, <2>2 DEF Ack, AckRejects, AckRow, Holds
<1>6. ASSUME NEW d \in Drainers, Fail(d) \/ FailRejects(d)
      PROVE  \/ status' = status
             \/ /\ worker[d].row \in Rows /\ Holds(d, worker[d].row)
                /\ status[worker[d].row] = "processing"
                /\ \E s \in {"pending", "failed"} : status' = [status EXCEPT ![worker[d].row] = s]
  <2>1. worker[d].phase \in Delivering
    BY <1>6 DEF Fail, FailRejects, Delivering
  <2>2. worker[d].row \in Rows
    BY <2>1, DeliveringHasRow DEF TypeOK
  <2> QED BY <1>6, <2>1, <2>2 DEF Fail, FailRejects, FailRow, Holds
<1> QED
  BY <1>1, <1>2, <1>3, <1>4, <1>5, <1>6 DEF Next, Drain, Trouble

\* A committed row stays committed.
LEMMA CommittedStays ==
    ASSUME TypeOK, [Next]_vars, NEW r \in Rows, status[r] # "absent"
    PROVE  status'[r] # "absent"
BY StatusStep DEF TypeOK

\* What a drain newly selects or claims has been committed.
LEMMA HeldIsCommitted ==
    ASSUME TypeOK, Reconciled, [Next]_vars
    PROVE  /\ \A d \in Drainers : \A t \in todo'[d] : t.row \in Rows /\ status[t.row] # "absent"
           /\ \A d \in Drainers : worker'[d].phase \in Delivering =>
                  worker'[d].row \in Rows /\ status[worker'[d].row] # "absent"
<1> USE DEF columns, bounds, deliveryFrame
<1> DEFINE ListOK == \A d \in Drainers : \A t \in todo'[d] : t.row \in Rows /\ status[t.row] # "absent"
<1> DEFINE HeldOK == \A d \in Drainers : worker'[d].phase \in Delivering =>
                        worker'[d].row \in Rows /\ status[worker'[d].row] # "absent"
<1>a. (\A d \in Drainers : todo'[d] \subseteq todo[d]) => ListOK
  BY DEF Reconciled, TypeOK
<1>b. (\A d \in Drainers : worker'[d].phase \in Delivering =>
          worker[d].phase \in Delivering /\ worker'[d].row = worker[d].row) => HeldOK
  BY DeliveringHasRow DEF Reconciled, TypeOK
<1>1. CASE UNCHANGED vars
  BY <1>1, <1>a, <1>b DEF vars
<1>2. ASSUME NEW r \in Rows, Commit(r) \/ Ripen(r) \/ Requeue(r) PROVE ListOK /\ HeldOK
  BY <1>2, <1>a, <1>b DEF Commit, Ripen, Requeue
<1>3. ASSUME NEW d \in Drainers, Start(d) \/ Scheduled(d) PROVE ListOK /\ HeldOK
  <2>1. HeldOK
    <3>1. \A e \in Drainers : worker'[e].phase \in Delivering => worker'[e] = worker[e]
      BY <1>3, NotDelivering DEF Start, Scheduled, SelectRows, TypeOK
    <3> QED BY <1>b, <3>1
  <2>2. CASE SelectRows(d)
    <3>1. \A e \in Drainers : \A t \in todo'[e] : t \in todo[e] \/ t.row \in Due
      BY <2>2 DEF SelectRows, TypeOK
    <3> QED BY <2>1, <3>1 DEF Due, Reconciled, TypeOK
  <2>3. CASE UNCHANGED todo
    BY <1>a, <2>1, <2>3
  <2> QED BY <1>3, <2>2, <2>3 DEF Start, Scheduled
<1>4. ASSUME NEW d \in Drainers, \/ Stop(d) \/ Return(d) \/ Crash(d) \/ ClaimRejects(d)
                                \/ Ack(d) \/ Fail(d) \/ FailRejects(d)
      PROVE  ListOK /\ HeldOK
  <2>1. \A e \in Drainers : worker'[e].phase \in Delivering => worker'[e] = worker[e]
    BY <1>4, NotDelivering DEF Stop, Return, Crash, ClaimRejects, Ack, Fail, FailRejects, TypeOK
  <2>2. \A e \in Drainers : todo'[e] \subseteq todo[e]
    BY <1>4 DEF Stop, Return, Crash, ClaimRejects, Ack, Fail, FailRejects, TypeOK
  <2> QED BY <1>a, <1>b, <2>1, <2>2
<1>5. ASSUME NEW d \in Drainers, Claim(d) PROVE ListOK /\ HeldOK
  <2>1. \A e \in Drainers : todo'[e] \subseteq todo[e]
    BY <1>5 DEF Claim, TypeOK
  <2>2. ASSUME NEW e \in Drainers, worker'[e].phase \in Delivering
        PROVE  worker'[e].row \in Rows /\ status[worker'[e].row] # "absent"
    <3>1. worker'[e] = worker[e] \/ worker'[e].row \in Due
      BY <1>5 DEF Claim, At, TypeOK
    <3> QED BY <2>2, <3>1, DeliveringHasRow DEF Due, Reconciled, TypeOK
  <2> QED BY <1>a, <2>1, <2>2
<1>6. ASSUME NEW d \in Drainers, Check(d) \/ Insert(d) \/ WriteRejects(d) \/ Notify(d) \/ AckRejects(d)
      PROVE  ListOK /\ HeldOK
  <2>1. PICK p \in {"written", "inserting", "failing", "notified"} : Step(d, p)
    BY <1>6 DEF Check, Insert, WriteRejects, Notify, AckRejects
  <2>2. worker[d].phase \in Delivering /\ p \in Delivering
    BY <1>6, <2>1 DEF Check, Insert, WriteRejects, Notify, AckRejects, Delivering
  <2>3. worker'[d].row = worker[d].row /\ \A e \in Drainers \ {d} : worker'[e] = worker[e]
    BY <2>1, <2>2, StepStays DEF TypeOK
  <2>4. todo' = todo
    BY <1>6 DEF Check, Insert, WriteRejects, Notify, AckRejects
  <2> QED BY <1>a, <1>b, <2>2, <2>3, <2>4
<1> QED
  BY <1>1, <1>2, <1>3, <1>4, <1>5, <1>6 DEF Next, Drain, Trouble

\* The target loses nothing.
LEMMA StoredStays == ASSUME [Next]_vars PROVE stored \subseteq stored'
BY DEF Next, Drain, Trouble, vars, Commit, Ripen, Requeue, Start, Scheduled, Stop, Claim,
       ClaimRejects, Return, Check, Insert, WriteRejects, Notify, Ack, AckRejects, Fail,
       FailRejects, Crash

\* Every step keeps acknowledged rows stored and held rows committed.
LEMMA ReconciledStep == TypeOK /\ WrittenIsStored /\ Reconciled /\ [Next]_vars => Reconciled'
<1> SUFFICES ASSUME TypeOK, WrittenIsStored, Reconciled, [Next]_vars PROVE Reconciled'
  OBVIOUS
<1>1. \A r \in Rows : status'[r] = "processed" => r \in stored
  BY StatusStep DEF TypeOK, Holds, Reconciled, WrittenIsStored
<1>2. \A r \in Rows : status'[r] = "processed" => r \in stored'
  BY <1>1, StoredStays
<1> QED BY <1>2, HeldIsCommitted, CommittedStays DEF Reconciled

\* Nothing is committed at the start.
LEMMA ReconciledInit == Init => Reconciled
BY NotDelivering DEF Init, Reconciled

\* The initial states map to initial states.
LEMMA PromiseInit == Init => Promise!Init
BY DEF Init, Promise!Init, Owed

\* The target grows by a step of a drain that changes no status.
LEMMA StoredStep ==
    ASSUME TypeOK, [Next]_vars, stored' # stored
    PROVE  /\ status' = status
           /\ \E d \in Drainers : /\ worker[d].phase \in Delivering
                                  /\ stored' = stored \cup {worker[d].row}
<1>1. PICK d \in Drainers : Insert(d) \/ WriteRejects(d)
  BY DEF Next, Drain, Trouble, vars, Commit, Ripen, Requeue, Start, Scheduled, Stop, Claim,
         ClaimRejects, Return, Check, Notify, Ack, AckRejects, Fail, FailRejects, Crash
<1> QED BY <1>1 DEF Insert, WriteRejects, Delivering, columns

\* Every step maps to a step of IntentDelivery, or to a stutter.
LEMMA PromiseStep ==
    TypeOK /\ WrittenIsStored /\ Reconciled /\ [Next]_vars => [Promise!Next]_(Promise!vars)
<1> SUFFICES ASSUME TypeOK, WrittenIsStored, Reconciled, [Next]_vars
             PROVE  [Promise!Next]_<<Intent, stored>>
  BY DEF Promise!vars, Intent
<1>1. CASE stored' # stored
  <2>1. PICK d \in Drainers : worker[d].phase \in Delivering /\ stored' = stored \cup {worker[d].row}
    BY <1>1, StoredStep
  <2>2. worker[d].row \in Rows /\ status[worker[d].row] # "absent"
    BY <2>1, DeliveringHasRow DEF TypeOK, Reconciled
  <2>3. worker[d].row \notin stored /\ Intent' = Intent
    BY <1>1, <2>1, StoredStep DEF Intent
  <2>4. Intent[worker[d].row] \in {"owed", "failed"}
    BY <2>2, <2>3 DEF TypeOK, Reconciled, Intent, Owed
  <2> QED BY <2>1, <2>2, <2>3, <2>4, TargetGrows
<1>2. CASE stored' = stored
  <2>1. CASE status' = status
    BY <1>2, <2>1 DEF Intent
  <2>2. ASSUME NEW r \in Rows, status[r] \in {"absent", "failed"},
               status' = [status EXCEPT ![r] = "pending"]
        PROVE  Promise!Next
    <3>1. Intent' = [Intent EXCEPT ![r] = "owed"]
      BY <2>2, IntentMoves DEF Owed
    <3>2. Intent[r] = "none" \/ Intent[r] = "failed"
      BY <2>2 DEF Intent, Owed
    <3>3. Promise!Commit(r) \/ Promise!Requeue(r)
      BY <1>2, <3>1, <3>2 DEF Promise!Commit, Promise!Requeue, Promise!Move, Intent
    <3> QED BY <3>3 DEF Promise!Next
  <2>3. ASSUME NEW r \in Rows, r \in Due, status' = [status EXCEPT ![r] = "processing"]
        PROVE  Intent' = Intent
    BY <2>3, IntentStays DEF Due, Owed
  <2>4. ASSUME NEW r \in Rows, NEW d \in Drainers, Holds(d, r), worker[d].phase = "notified",
               status[r] = "processing", status' = [status EXCEPT ![r] = "processed"]
        PROVE  Promise!Next
    <3>1. Intent' = [Intent EXCEPT ![r] = "done"] /\ Intent[r] = "owed"
      BY <2>4, IntentMoves DEF Owed, Intent
    <3>2. r \in stored
      BY <2>4 DEF WrittenIsStored, Holds
    <3>3. Promise!Settle(r)
      BY <1>2, <3>1, <3>2 DEF Promise!Settle, Promise!Move, Intent
    <3> QED BY <3>3 DEF Promise!Next
  <2>5. ASSUME NEW r \in Rows, status[r] = "processing", status' = [status EXCEPT ![r] = "pending"]
        PROVE  Intent' = Intent
    BY <2>5, IntentStays DEF Owed
  <2>6. ASSUME NEW r \in Rows, status[r] = "processing", status' = [status EXCEPT ![r] = "failed"]
        PROVE  Promise!Next
    <3>1. Intent' = [Intent EXCEPT ![r] = "failed"] /\ Intent[r] = "owed"
      BY <2>6, IntentMoves DEF Owed, Intent
    <3>2. Promise!GiveUp(r)
      BY <1>2, <3>1 DEF Promise!GiveUp, Promise!Move, Intent
    <3> QED BY <3>2 DEF Promise!Next
  <2> QED BY <1>2, <2>1, <2>2, <2>3, <2>4, <2>5, <2>6, StatusStep
<1> QED BY <1>1, <1>2

\* The drainer, with any processes, faults, crashes and stale claims, implements the
\* promise of the outbox: a committed row is owed until it is acknowledged, which it is
\* only when the target has its event, or until it has failed.
THEOREM OutboxKeepsPromise == Spec => PromiseSpec
<1> QED
  BY TypeInit, TypeStep, WrittenInit, WrittenStep, ReconciledInit, ReconciledStep,
     PromiseInit, PromiseStep, PTL DEF Spec, PromiseSpec, Promise!Spec

-----------------------------------------------------------------------------
(* One holder at a time. *)

\* A row that is held, and whose claim has not gone stale, cannot be claimed.
HeldIsSafe ==
    \A r \in Rows \ overrun : \A d \in Drainers : Holds(d, r) =>
        status[r] = "processed" \/ (status[r] = "processing" /\ ~ripe[r])

ExclusiveInv == HeldIsSafe /\ ClaimExclusive

\* A step by which nobody takes a row, and that moves no held row where it could be
\* claimed, keeps the invariant.
LEMMA ExclusiveFrame ==
    ASSUME ExclusiveInv, overrun' = overrun,
           \A e \in Drainers : \A r \in Rows : Holds(e, r)' => Holds(e, r),
           \A r \in Rows \ overrun : (\E e \in Drainers : Holds(e, r)') =>
               \/ status'[r] = "processed"
               \/ status'[r] = status[r] /\ ripe'[r] = ripe[r]
    PROVE  ExclusiveInv'
<1>1. HeldIsSafe'
  BY DEF ExclusiveInv, HeldIsSafe
<1>2. ClaimExclusive'
  BY DEF ExclusiveInv, ClaimExclusive
<1> QED BY <1>1, <1>2 DEF ExclusiveInv

\* A drain that keeps its worker, or that leaves the delivery, holds nothing new.
LEMMA HoldsLess ==
    ASSUME NEW e \in Drainers, NEW r \in Rows, Holds(e, r)',
           worker'[e].phase \in Delivering =>
               worker[e].phase \in Delivering /\ worker'[e].row = worker[e].row
    PROVE  Holds(e, r)
BY DEF Holds

\* Every step keeps a row with one holder.
LEMMA ExclusiveStep == TypeOK /\ ExclusiveInv /\ [Next]_vars => ExclusiveInv'
<1> SUFFICES ASSUME TypeOK, ExclusiveInv, [Next]_vars PROVE ExclusiveInv'
  OBVIOUS
<1> USE DEF columns, bounds, deliveryFrame
<1>1. CASE UNCHANGED vars
  BY <1>1 DEF vars, ExclusiveInv, HeldIsSafe, ClaimExclusive, Holds
<1>2. ASSUME NEW q \in Rows, Commit(q) \/ Requeue(q) PROVE ExclusiveInv'
  <2>1. \A e \in Drainers : \A r \in Rows : Holds(e, r)' => Holds(e, r)
    BY <1>2 DEF Commit, Requeue, Holds
  <2>2. status[q] \in {"absent", "failed"} /\ overrun' = overrun
    BY <1>2 DEF Commit, Requeue
  <2>3. \A r \in Rows \ {q} : status'[r] = status[r] /\ ripe'[r] = ripe[r]
    BY <1>2 DEF Commit, Requeue, TypeOK
  <2>4. q \notin overrun => \A e \in Drainers : ~ Holds(e, q)
    BY <2>2 DEF ExclusiveInv, HeldIsSafe
  <2> QED BY <2>1, <2>2, <2>3, <2>4, ExclusiveFrame
<1>3. ASSUME NEW q \in Rows, Ripen(q) PROVE ExclusiveInv'
  <2>1. \A e \in Drainers : \A r \in Rows : Holds(e, r)' <=> Holds(e, r)
    BY <1>3 DEF Ripen, Holds
  <2>2. overrun \subseteq overrun' /\ (q \in overrun' \/ \A e \in Drainers : ~ Holds(e, q))
    BY <1>3 DEF Ripen
  <2>3. \A r \in Rows \ {q} : status'[r] = status[r] /\ ripe'[r] = ripe[r]
    BY <1>3 DEF Ripen, TypeOK
  <2>4. HeldIsSafe'
    BY <2>1, <2>2, <2>3 DEF ExclusiveInv, HeldIsSafe
  <2>5. ClaimExclusive'
    BY <2>1, <2>2 DEF ExclusiveInv, ClaimExclusive
  <2> QED BY <2>4, <2>5 DEF ExclusiveInv
<1>4. ASSUME NEW d \in Drainers, \/ Start(d) \/ Scheduled(d) \/ Stop(d) \/ Return(d) \/ Crash(d)
      PROVE  ExclusiveInv'
  <2>1. \A e \in Drainers : worker'[e].phase \in Delivering => worker'[e] = worker[e]
    BY <1>4, NotDelivering DEF Start, Scheduled, SelectRows, Stop, Return, Crash, TypeOK
  <2>2. \A e \in Drainers : \A r \in Rows : Holds(e, r)' => Holds(e, r)
    BY <2>1, HoldsLess DEF Holds
  <2>3. status' = status /\ ripe' = ripe /\ overrun' = overrun
    BY <1>4 DEF Start, Scheduled, Stop, Return, Crash
  <2> QED BY <2>2, <2>3, ExclusiveFrame
<1>5. ASSUME NEW d \in Drainers, Claim(d) PROVE ExclusiveInv'
  <2>1. PICK t \in todo[d] :
          \/ /\ t.row \in Due
             /\ ClaimRow(t.row, t.attempts + 1)
             /\ worker' = [worker EXCEPT ![d] =
                    At(IF t.row \in Malformed THEN "failingForGood" ELSE "checking",
                       t.row, t.attempts + 1)]
          \/ UNCHANGED <<columns, claims, worker>>
    BY <1>5 DEF Claim
  <2>2. overrun' = overrun
    BY <1>5 DEF Claim
  <2>3. CASE UNCHANGED <<columns, claims, worker>>
    BY <2>2, <2>3, ExclusiveFrame DEF Holds
  <2>4. CASE /\ t.row \in Due
             /\ ClaimRow(t.row, t.attempts + 1)
             /\ worker' = [worker EXCEPT ![d] =
                    At(IF t.row \in Malformed THEN "failingForGood" ELSE "checking",
                       t.row, t.attempts + 1)]
    <3>1. t.row \in Rows
      BY <2>4 DEF Due
    <3>2. t.row \notin overrun => \A e \in Drainers : ~ Holds(e, t.row)
      BY <2>4, <3>1 DEF Due, ExclusiveInv, HeldIsSafe
    <3>3. \A r \in Rows : Holds(d, r)' => r = t.row
      BY <2>4 DEF Holds, At, TypeOK
    <3>4. \A e \in Drainers \ {d} : \A r \in Rows : Holds(e, r)' => Holds(e, r)
      BY <2>4 DEF Holds, TypeOK
    <3>5. /\ status'[t.row] = "processing" /\ ~ripe'[t.row]
          /\ \A r \in Rows \ {t.row} : status'[r] = status[r] /\ ripe'[r] = ripe[r]
      BY <2>4, <3>1 DEF ClaimRow, TypeOK
    <3>6. HeldIsSafe'
      BY <2>2, <3>1, <3>2, <3>3, <3>4, <3>5 DEF ExclusiveInv, HeldIsSafe
    <3>7. ClaimExclusive'
      BY <2>2, <3>1, <3>2, <3>3, <3>4 DEF ExclusiveInv, ClaimExclusive
    <3> QED BY <3>6, <3>7 DEF ExclusiveInv
  <2> QED BY <2>1, <2>3, <2>4
<1>6. ASSUME NEW d \in Drainers, ClaimRejects(d) PROVE ExclusiveInv'
  <2>1. \A e \in Drainers : worker'[e].phase \in Delivering => worker'[e] = worker[e]
    BY <1>6, NotDelivering DEF ClaimRejects, TypeOK
  <2>2. \A e \in Drainers : \A r \in Rows : Holds(e, r)' => Holds(e, r)
    BY <2>1, HoldsLess DEF Holds
  <2>3. PICK t \in todo[d] :
          \/ UNCHANGED <<columns, claims>>
          \/ t.row \in Due /\ ClaimRow(t.row, t.attempts + 1)
    BY <1>6 DEF ClaimRejects
  <2>4. overrun' = overrun
    BY <1>6 DEF ClaimRejects
  <2>5. CASE t.row \in Due /\ ClaimRow(t.row, t.attempts + 1)
    <3>1. t.row \in Rows
      BY <2>5 DEF Due
    <3>2. t.row \notin overrun => \A e \in Drainers : ~ Holds(e, t.row)
      BY <2>5, <3>1 DEF Due, ExclusiveInv, HeldIsSafe
    <3>3. \A r \in Rows \ {t.row} : status'[r] = status[r] /\ ripe'[r] = ripe[r]
      BY <2>5, <3>1 DEF ClaimRow, TypeOK
    <3> QED BY <2>2, <2>4, <3>2, <3>3, ExclusiveFrame
  <2>6. CASE UNCHANGED <<columns, claims>>
    BY <2>2, <2>4, <2>6, ExclusiveFrame
  <2> QED BY <2>3, <2>5, <2>6
<1>7. ASSUME NEW d \in Drainers, \/ Check(d) \/ Insert(d) \/ WriteRejects(d) \/ Notify(d)
                                \/ AckRejects(d)
      PROVE  ExclusiveInv'
  <2>1. PICK p \in {"written", "inserting", "failing", "notified"} : Step(d, p)
    BY <1>7 DEF Check, Insert, WriteRejects, Notify, AckRejects
  <2>2. worker[d].phase \in Delivering /\ p \in Delivering
    BY <1>7, <2>1 DEF Check, Insert, WriteRejects, Notify, AckRejects, Delivering
  <2>3. worker'[d].row = worker[d].row /\ \A e \in Drainers \ {d} : worker'[e] = worker[e]
    BY <2>1, <2>2, StepStays DEF TypeOK
  <2>4. \A e \in Drainers : \A r \in Rows : Holds(e, r)' => Holds(e, r)
    BY <2>2, <2>3 DEF Holds
  <2>5. ripe' = ripe /\ overrun' = overrun
    BY <1>7 DEF Check, Insert, WriteRejects, Notify, AckRejects
  <2>6. worker[d].row \in Rows
    BY <2>2, DeliveringHasRow DEF TypeOK
  <2>7. \A r \in Rows : status'[r] = status[r] \/ status'[r] = "processed"
    BY <1>7, <2>6 DEF Check, Insert, WriteRejects, Notify, AckRejects, AckRow, TypeOK
  <2> QED BY <2>4, <2>5, <2>7, ExclusiveFrame
<1>8. ASSUME NEW d \in Drainers, Ack(d) PROVE ExclusiveInv'
  <2>1. \A e \in Drainers : worker'[e].phase \in Delivering => worker'[e] = worker[e]
    BY <1>8, NotDelivering DEF Ack, TypeOK
  <2>2. \A e \in Drainers : \A r \in Rows : Holds(e, r)' => Holds(e, r)
    BY <2>1, HoldsLess DEF Holds
  <2>3. worker[d].row \in Rows
    BY <1>8, DeliveringHasRow DEF Ack, TypeOK, Delivering
  <2>4. \A r \in Rows : status'[r] = status[r] \/ status'[r] = "processed"
    BY <1>8, <2>3 DEF Ack, AckRow, TypeOK
  <2> QED BY <1>8, <2>2, <2>4, ExclusiveFrame DEF Ack
<1>9. ASSUME NEW d \in Drainers, Fail(d) \/ FailRejects(d) PROVE ExclusiveInv'
  <2>1. \A e \in Drainers : worker'[e].phase \in Delivering => worker'[e] = worker[e] /\ e # d
    BY <1>9, NotDelivering DEF Fail, FailRejects, TypeOK
  <2>2. \A e \in Drainers : \A r \in Rows : Holds(e, r)' => Holds(e, r) /\ e # d
    BY <2>1, HoldsLess DEF Holds
  <2>3. PICK q \in Rows : q = worker[d].row /\ Holds(d, q)
    BY <1>9, DeliveringHasRow DEF Fail, FailRejects, TypeOK, Delivering, Holds
  <2>4. q \notin overrun => \A e \in Drainers : ~ Holds(e, q)'
    BY <2>2, <2>3 DEF ExclusiveInv, ClaimExclusive
  <2>5. \A r \in Rows \ {q} : status'[r] = status[r] /\ ripe'[r] = ripe[r]
    BY <1>9, <2>3 DEF Fail, FailRejects, FailRow, TypeOK
  <2>6. overrun' = overrun
    BY <1>9 DEF Fail, FailRejects
  <2>7. \A e \in Drainers : \A r \in Rows : Holds(e, r)' => Holds(e, r)
    BY <2>2
  <2> QED BY <2>4, <2>5, <2>6, <2>7, ExclusiveFrame
<1> QED
  BY <1>1, <1>2, <1>3, <1>4, <1>5, <1>6, <1>7, <1>8, <1>9 DEF Next, Drain, Trouble

\* Nobody holds a row at the start.
LEMMA ExclusiveInit == Init => ExclusiveInv
BY NotDelivering DEF Init, ExclusiveInv, HeldIsSafe, ClaimExclusive, Holds

\* A row whose claims do not go stale under a live drain has one holder at a time, for
\* any number of processes, whatever rejects and whoever crashes.
THEOREM OneHolder == Spec => []ClaimExclusive
<1>1. ExclusiveInv => ClaimExclusive
  BY DEF ExclusiveInv
<1> QED BY <1>1, TypeInit, TypeStep, ExclusiveInit, ExclusiveStep, PTL DEF Spec

=============================================================================
