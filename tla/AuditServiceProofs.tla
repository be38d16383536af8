------------------------- MODULE AuditServiceProofs -------------------------
(* Proofs about AuditService, for any requests, subjects and configuration. *)
EXTENDS AuditService, TLAPS

-----------------------------------------------------------------------------
(* Type correctness. *)

\* Only an event with a subject is encrypted.
TypeInv ==
    /\ TypeOK
    /\ \A r \in Requests :
          pc[r] \in {"getKey", "setKey", "readBack"} => SubjectOf(r) \in Subjects

\* The types hold in the beginning.
LEMMA TypeInit == Init => TypeInv
BY BoundsAssumption DEF Init, TypeInv, TypeOK, Places, Keys

\* The kind of a request is one of those that requests can have.
LEMMA KindOf ==
    ASSUME TypeOK, NEW r \in Requests
    PROVE  /\ kind[r] \in AllKinds
           /\ kind[r].trx \in BOOLEAN
           /\ SubjectOf(r) \in Subjects \cup {NoSubject}
BY KindsAssumption DEF TypeOK, AllKinds, SubjectOf

\* What a request that encrypts sees is a key or none.
LEMMA SeesKeys ==
    ASSUME TypeInv, NEW r \in Requests, pc[r] \in {"getKey", "setKey", "readBack"}
    PROVE  Visible(r) \in Keys /\ ReadsAgain(r) \in Keys
BY DEF TypeInv, TypeOK, Visible, ReadsAgain

\* The encryption of an event keeps the types.
LEMMA EncryptType ==
    ASSUME TypeInv, NEW r \in Requests, Encrypt(r), UNCHANGED config
    PROVE  TypeInv'
<1>1. CASE GetKey(r)
  BY <1>1, SeesKeys DEF GetKey, Goto, TypeInv, TypeOK, Places, config, transactions, tables,
     delivery, erasure, SubjectOf
<1>2. CASE SetKey(r)
  BY <1>2 DEF SetKey, Inserted, RowIsLocked, Goto, TypeInv, TypeOK, Places, Keys, config,
     delivery, erasure, SubjectOf
<1>3. CASE ReadBack(r)
  BY <1>3, SeesKeys DEF ReadBack, Goto, TypeInv, TypeOK, Places, config, transactions, tables,
     delivery, erasure, SubjectOf
<1> QED BY <1>1, <1>2, <1>3 DEF Encrypt

\* The way of an event through submit() keeps the types.
LEMMA SubmitType ==
    ASSUME TypeInv, NEW r \in Requests, UNCHANGED config,
           InsertIntent(r) \/ RegisterHook(r) \/ Enqueue(r) \/ CoupledTimeout(r)
    PROVE  TypeInv'
<1> USE DEF TypeInv, TypeOK, Places, Keys, config, SubjectOf, Goto
<1>1. CASE InsertIntent(r)
  BY <1>1, BoundsAssumption DEF InsertIntent, Returns, Fails, tables, delivery, erasure
<1>2. CASE RegisterHook(r)
  BY <1>2 DEF RegisterHook, tables, delivery, erasure
<1>3. CASE Enqueue(r)
  BY <1>3 DEF Enqueue, Accepted, Refused, Returns, Fails, transactions, tables, erasure
<1>4. CASE CoupledTimeout(r)
  BY <1>4 DEF CoupledTimeout, Fails, transactions, tables, delivery, erasure
<1> QED BY <1>1, <1>2, <1>3, <1>4

\* The change and the end of its transaction keep the types.
LEMMA ChangeType ==
    ASSUME TypeInv, NEW r \in Requests, UNCHANGED config,
           Begin(r) \/ Change(r) \/ Leave(r) \/ Commit(r) \/ Throw(r) \/ Reject(r)
    PROVE  TypeInv'
<1> USE DEF TypeInv, TypeOK, Places, Keys, config, SubjectOf, Goto
<1>1. CASE Begin(r)
  BY <1>1 DEF Begin, transactions, tables, delivery, erasure
<1>2. CASE Change(r)
  BY <1>2, KindOf DEF Change, transactions, delivery, erasure
<1>3. CASE Leave(r)
  BY <1>3 DEF Leave, transactions, tables, delivery, erasure
<1>4. CASE Commit(r)
  BY <1>4 DEF Commit, delivery, erasure
<1>5. CASE Throw(r)
  BY <1>5 DEF Throw, transactions, tables, delivery, erasure
<1>6. CASE Reject(r)
  BY <1>6 DEF Reject, tables, delivery, erasure
<1> QED BY <1>1, <1>2, <1>3, <1>4, <1>5, <1>6

\* What goes on beside the requests keeps the types.
LEMMA BesideType ==
    ASSUME TypeInv, UNCHANGED config,
           \/ \E r \in Requests : Flush(r) \/ FlushFails(r) \/ Deliver(r)
           \/ \E s \in Subjects : Forget(s)
           \/ Shutdown \/ Crash
    PROVE  TypeInv'
<1> USE DEF TypeInv, TypeOK, Places, Keys, config, SubjectOf, Goto
<1>1. ASSUME NEW r \in Requests, Flush(r) PROVE TypeInv'
  BY <1>1 DEF Flush, Returns, transactions, tables, erasure
<1>2. ASSUME NEW r \in Requests, FlushFails(r) PROVE TypeInv'
  BY <1>2, BoundsAssumption DEF FlushFails, transactions, tables, erasure
<1>3. ASSUME NEW r \in Requests, Deliver(r) PROVE TypeInv'
  BY <1>3 DEF Deliver, transactions, tables, erasure
<1>4. ASSUME NEW s \in Subjects, Forget(s) PROVE TypeInv'
  BY <1>4, BoundsAssumption DEF Forget, DeleteKey, Durable, transactions, delivery
<1>5. CASE Shutdown
  BY <1>5 DEF Shutdown, transactions, tables, erasure
<1>6. CASE Crash
  BY <1>6, BoundsAssumption DEF Crash, tables, erasure
<1> QED BY <1>1, <1>2, <1>3, <1>4, <1>5, <1>6

\* Every step keeps the types.
LEMMA TypeStep == TypeInv /\ [Next]_vars => TypeInv'
<1> SUFFICES ASSUME TypeInv, [Next]_vars PROVE TypeInv'
  OBVIOUS
<1>1. CASE UNCHANGED vars
  BY <1>1 DEF vars, config, state, transactions, tables, delivery, erasure, TypeInv, TypeOK, SubjectOf
<1>2. CASE Next
  BY <1>2, EncryptType, SubmitType, ChangeType, BesideType DEF Next, RequestStep
<1> QED BY <1>1, <1>2

\* The types of AuditService, and that no two open transactions hold a key of one subject.
THEOREM TypeCorrect == Spec => []TypeOK
<1>1. TypeInv => TypeOK
  BY DEF TypeInv
<1> QED BY TypeInit, TypeStep, <1>1, PTL DEF Spec

-----------------------------------------------------------------------------
(* The change and its intent. *)

\* The requests that owe an intent in outbox mode.
Watched(r) == HasEvent(r) /\ (kind[r].path = "model" \/ kind[r].trx)

\* In outbox mode a request that is past its change has the intent, and the tables show
\* both or none; no after-commit hook is ever registered.
IntentOf(r) ==
    /\ pc[r] \notin {"coupled", "afterCommit"} /\ r \notin hooked
    /\ ~kind[r].trx => pc[r] \in {"idle", "rejected"}
    /\ r \in committed <=> pc[r] = "done"
    /\ r \in outbox <=> pc[r] = "done"
    /\ pc[r] = "leaving" => r \in intents

IntentInv == Outbox => \A r \in Requests : Watched(r) => IntentOf(r)

\* A step of a request keeps the invariant.
LEMMA IntentOfRequest ==
    ASSUME TypeInv, IntentInv, Outbox, NEW q \in Requests, RequestStep(q), UNCHANGED config,
           NEW r \in Requests, Watched(r)
    PROVE  IntentOf(r)'
<1>1. IntentOf(r)
  BY DEF IntentInv
<1>2. pc \in [Requests -> Places] /\ kind[r].trx \in BOOLEAN
  BY KindOf DEF TypeInv, TypeOK
<1> USE <1>1, <1>2 DEF IntentOf, Watched, Goto, config
<1>3. CASE Begin(q)
  BY <1>3 DEF Begin, transactions, tables
<1>4. CASE Change(q)
  BY <1>4 DEF Change, transactions
<1>5. CASE Encrypt(q)
  BY <1>5 DEF Encrypt, GetKey, SetKey, ReadBack, transactions, tables
<1>6. CASE InsertIntent(q)
  BY <1>6 DEF InsertIntent, Returns, Fails, Rethrows, tables
<1>7. CASE RegisterHook(q) \/ Enqueue(q) \/ CoupledTimeout(q)
  BY <1>7 DEF RegisterHook, AfterCommit, Enqueue, Submits, CoupledTimeout, Accepted, Refused,
     Fails, Returns, transactions, tables
<1>8. CASE Leave(q) \/ Throw(q)
  BY <1>8 DEF Leave, Throw, transactions, tables
<1>9. CASE Commit(q)
  BY <1>9 DEF Commit
<1>10. CASE Reject(q)
  BY <1>10 DEF Reject, tables
<1> QED BY <1>3, <1>4, <1>5, <1>6, <1>7, <1>8, <1>9, <1>10 DEF RequestStep

\* A step beside the requests keeps the invariant.
LEMMA IntentBeside ==
    ASSUME TypeInv, IntentInv, Outbox, UNCHANGED config,
           \/ \E q \in Requests : Flush(q) \/ FlushFails(q) \/ Deliver(q)
           \/ \E s \in Subjects : Forget(s)
           \/ Shutdown \/ Crash,
           NEW r \in Requests, Watched(r)
    PROVE  IntentOf(r)'
<1>1. IntentOf(r) /\ pc \in [Requests -> Places]
  BY DEF IntentInv, TypeInv, TypeOK
<1> USE <1>1 DEF IntentOf, Watched, Goto, config
<1>2. ASSUME NEW q \in Requests, Flush(q) PROVE IntentOf(r)'
  BY <1>2 DEF Flush, Returns, transactions, tables
<1>3. ASSUME NEW q \in Requests, FlushFails(q) \/ Deliver(q) PROVE IntentOf(r)'
  BY <1>3 DEF FlushFails, Deliver, transactions, tables
<1>4. ASSUME NEW s \in Subjects, Forget(s) PROVE IntentOf(r)'
  BY <1>4 DEF Forget, transactions
<1>5. CASE Shutdown
  BY <1>5 DEF Shutdown, transactions, tables
<1>6. CASE Crash
  BY <1>6 DEF Crash, Over, tables
<1> QED BY <1>2, <1>3, <1>4, <1>5, <1>6

\* Every step keeps the invariant.
LEMMA IntentStep == TypeInv /\ IntentInv /\ [Next]_vars => IntentInv'
<1> SUFFICES ASSUME TypeInv, IntentInv, [Next]_vars PROVE IntentInv'
  OBVIOUS
<1>1. CASE UNCHANGED vars
  BY <1>1 DEF vars, config, state, transactions, tables, IntentInv, IntentOf, Watched, HasEvent,
     Outbox
<1>2. CASE Next
  <2>1. UNCHANGED config /\ (Outbox <=> Outbox') /\ \A r \in Requests : Watched(r) <=> Watched(r)'
    BY <1>2 DEF Next, config, Outbox, Watched, HasEvent
  <2>2. ASSUME Outbox, NEW r \in Requests, Watched(r) PROVE IntentOf(r)'
    BY <1>2, <2>1, <2>2, IntentOfRequest, IntentBeside DEF Next
  <2> QED BY <2>1, <2>2 DEF IntentInv
<1> QED BY <1>1, <1>2

\* In outbox mode a change and its intent are committed together or not at all.
THEOREM IntentCommitsWithChange == Spec => []IntentWithChange
<1>1. Init => IntentInv
  BY DEF Init, IntentInv, IntentOf
<1>2. IntentInv => IntentWithChange
  BY DEF IntentInv, IntentOf, IntentWithChange, Watched
<1> QED BY TypeInit, TypeStep, IntentStep, <1>1, <1>2, PTL DEF Spec

-----------------------------------------------------------------------------
(* No event without its change. *)

\* A request reports its change after it, and a hook runs after the commit.
PhantomOf(r) ==
    /\ pc[r] = "afterCommit" => r \in committed
    /\ ~kind[r].trx /\ pc[r] \in {"getKey", "setKey", "readBack", "submit"} => r \in committed
    /\ r \in buffer \cup stored \cup dead \cup dropped \cup outbox => Early(r) \/ r \in committed

PhantomInv == \A r \in Requests : PhantomOf(r)

\* A step of a request keeps the invariant.
LEMMA PhantomOfRequest ==
    ASSUME TypeInv, PhantomInv, NEW q \in Requests, RequestStep(q), UNCHANGED config,
           NEW r \in Requests
    PROVE  PhantomOf(r)'
<1>1. PhantomOf(r) /\ PhantomOf(q)
  BY DEF PhantomInv
<1>2. pc \in [Requests -> Places] /\ kind[r].trx \in BOOLEAN
  BY KindOf DEF TypeInv, TypeOK
<1> USE <1>1, <1>2 DEF PhantomOf, Early, Outbox, Goto, config
<1>3. CASE Begin(q)
  BY <1>3 DEF Begin, tables, delivery
<1>4. CASE Change(q)
  BY <1>4 DEF Change, delivery
<1>5. CASE Encrypt(q)
  BY <1>5 DEF Encrypt, GetKey, SetKey, ReadBack, tables, delivery
<1>6. CASE InsertIntent(q) \/ RegisterHook(q) \/ CoupledTimeout(q)
  BY <1>6 DEF InsertIntent, RegisterHook, CoupledTimeout, Returns, Fails, tables, delivery
<1>7. CASE Enqueue(q)
  BY <1>7 DEF Enqueue, Submits, AfterCommit, Accepted, Refused, Fails, Returns, tables
<1>8. CASE Leave(q) \/ Throw(q) \/ Reject(q)
  BY <1>8 DEF Leave, Throw, Reject, tables, delivery
<1>9. CASE Commit(q)
  BY <1>9 DEF Commit, delivery
<1> QED BY <1>3, <1>4, <1>5, <1>6, <1>7, <1>8, <1>9 DEF RequestStep

\* A step beside the requests keeps the invariant.
LEMMA PhantomBeside ==
    ASSUME TypeInv, PhantomInv, UNCHANGED config,
           \/ \E q \in Requests : Flush(q) \/ FlushFails(q) \/ Deliver(q)
           \/ \E s \in Subjects : Forget(s)
           \/ Shutdown \/ Crash,
           NEW r \in Requests
    PROVE  PhantomOf(r)'
<1>1. PhantomOf(r) /\ pc \in [Requests -> Places]
  BY DEF PhantomInv, TypeInv, TypeOK
<1> USE <1>1 DEF PhantomOf, Early, Outbox, Goto, config
<1>2. ASSUME NEW q \in Requests, Flush(q) PROVE PhantomOf(r)'
  BY <1>2 DEF Flush, Returns, tables
<1>3. ASSUME NEW q \in Requests, FlushFails(q) \/ Deliver(q) PROVE PhantomOf(r)'
  BY <1>3 DEF FlushFails, Deliver, tables
<1>4. ASSUME NEW s \in Subjects, Forget(s) PROVE PhantomOf(r)'
  BY <1>4 DEF Forget, delivery
<1>5. CASE Shutdown
  BY <1>5 DEF Shutdown, tables
<1>6. CASE Crash
  BY <1>6 DEF Crash, Over, tables
<1> QED BY <1>2, <1>3, <1>4, <1>5, <1>6

\* Every step keeps the invariant.
LEMMA PhantomStep == TypeInv /\ PhantomInv /\ [Next]_vars => PhantomInv'
<1> SUFFICES ASSUME TypeInv, PhantomInv, [Next]_vars PROVE PhantomInv'
  OBVIOUS
<1>1. CASE UNCHANGED vars
  BY <1>1 DEF vars, config, state, tables, delivery, PhantomInv, PhantomOf, Early, Outbox
<1>2. CASE Next
  BY <1>2, PhantomOfRequest, PhantomBeside DEF Next, PhantomInv
<1> QED BY <1>1, <1>2

\* It holds in the beginning, when no request has started.
LEMMA PhantomInit == Init => PhantomInv
BY DEF Init, PhantomInv, PhantomOf

\* No event of a model, and no intent, outlives a change that was rolled back.
THEOREM NoPhantoms == Spec => []NothingPhantom
<1>1. TypeInv /\ PhantomInv => NothingPhantom
  BY DEF TypeInv, TypeOK, PhantomInv, PhantomOf, NothingPhantom
<1> QED BY TypeInit, TypeStep, PhantomInit, PhantomStep, <1>1, PTL DEF Spec

-----------------------------------------------------------------------------
(* No request ends well without a trace. *)

\* What is left of the event of a request when its submission has returned.
Traced(r) ==
    /\ guarantee # "best-effort" => r \in outbox \cup stored \cup dead \cup dropped \cup reported
    /\ guarantee = "best-effort" /\ accepting /\ crashes = 0
       => r \in outbox \cup buffer \cup stored \cup dead \cup dropped \cup reported

\* A coupled event that was not taken, or that was taken for good.
Settled(r) ==
    \/ guarantee = "best-effort" /\ (r \in dropped \/ ~accepting \/ crashes # 0)
    \/ r \in stored \cup reported

OutcomeOf(r) ==
    /\ r \in hooked => AfterCommit(r)
    /\ r \in intents => kind[r].trx
    /\ pc[r] = "afterCommit" => r \in hooked
    /\ Owed(r) /\ pc[r] = "done" => Traced(r)
    /\ Owed(r) /\ pc[r] = "leaving" => r \in hooked \cup intents \/ Traced(r)
    /\ HasEvent(r) /\ Coupled(r) /\ ~Outbox =>
          /\ pc[r] = "done" => Settled(r)
          /\ pc[r] = "leaving" => r \in hooked \/ Settled(r)

OutcomeInv == \A r \in Requests : OutcomeOf(r)

\* A change that is to be reported has an event.
LEMMA OwedHasEvent ==
    ASSUME TypeOK, NEW r \in Requests, Owed(r)
    PROVE  HasEvent(r)
<1>1. kind[r].op \in Ops
  BY KindOf DEF AllKinds
<1>2. CASE kind[r].path = "model"
  BY <1>1, <1>2 DEF Ops, Owed, Names, HasEvent, Captured, Event
<1> QED BY <1>2 DEF HasEvent

\* A guarantee that is not best-effort waits for the flush or uses the outbox.
LEMMA OtherGuarantees ==
    ASSUME TypeOK, guarantee # "best-effort", ~Outbox, NEW r
    PROVE  Coupled(r)
BY ConfigAssumption DEF TypeOK, Outbox, Coupled

\* A step of a request keeps the invariant.
LEMMA OutcomeOfRequest ==
    ASSUME TypeInv, OutcomeInv, NEW q \in Requests, RequestStep(q), UNCHANGED config,
           NEW r \in Requests
    PROVE  OutcomeOf(r)'
<1>1. OutcomeOf(r) /\ OutcomeOf(q)
  BY DEF OutcomeInv
<1>2. /\ pc \in [Requests -> Places] /\ kind[r].trx \in BOOLEAN
      /\ Owed(r) => HasEvent(r)
      /\ guarantee # "best-effort" => Outbox \/ Coupled(r)
      /\ crashes \in Nat
  BY KindOf, OwedHasEvent, OtherGuarantees, BoundsAssumption DEF TypeInv, TypeOK
<1>3. /\ (Owed(r) <=> Owed(r)') /\ (HasEvent(r) <=> HasEvent(r)') /\ (Coupled(r) <=> Coupled(r)')
      /\ (AfterCommit(r) <=> AfterCommit(r)') /\ (Outbox <=> Outbox')
      /\ guarantee' = guarantee /\ kind' = kind
  BY DEF config, Owed, HasEvent, Coupled, AfterCommit, Outbox
<1> USE <1>1, <1>2, <1>3 DEF OutcomeOf, Traced, Settled, Goto
<1>4. CASE Begin(q)
  BY <1>4 DEF Begin, transactions, tables, delivery
<1>5. CASE Change(q)
  BY <1>5 DEF Change, transactions, delivery
<1>6. CASE Encrypt(q)
  BY <1>6 DEF Encrypt, GetKey, SetKey, ReadBack, transactions, tables, delivery
<1>7. CASE InsertIntent(q)
  BY <1>7 DEF InsertIntent, AfterCommit, Returns, Fails, tables, delivery
<1>8. CASE RegisterHook(q)
  BY <1>8 DEF RegisterHook, tables, delivery
<1>9. CASE Enqueue(q)
  <2>1. ~Outbox
    BY <1>9 DEF Enqueue, Submits, AfterCommit
  <2>2. guarantee = "best-effort" <=> ~(guarantee # "best-effort")
    OBVIOUS
  <2>3. CASE Accepted(q)
    BY <1>9, <2>1, <2>2, <2>3 DEF Enqueue, Accepted, Returns, transactions, tables
  <2>4. CASE Refused(q)
    BY <1>9, <2>1, <2>2, <2>4 DEF Enqueue, Refused, Fails, Returns, transactions, tables
  <2> QED BY <1>9, <2>3, <2>4 DEF Enqueue
<1>10. CASE CoupledTimeout(q)
  BY <1>10 DEF CoupledTimeout, Fails, transactions, tables, delivery
<1>11. CASE Leave(q) \/ Throw(q)
  BY <1>11 DEF Leave, Throw, AfterCommit, transactions, tables, delivery
<1>12. CASE Commit(q)
  BY <1>12 DEF Commit, delivery
<1>13. CASE Reject(q)
  BY <1>13 DEF Reject, tables, delivery
<1> QED BY <1>4, <1>5, <1>6, <1>7, <1>8, <1>9, <1>10, <1>11, <1>12, <1>13 DEF RequestStep

\* A step beside the requests keeps the invariant.
LEMMA OutcomeBeside ==
    ASSUME TypeInv, OutcomeInv, UNCHANGED config,
           \/ \E q \in Requests : Flush(q) \/ FlushFails(q) \/ Deliver(q)
           \/ \E s \in Subjects : Forget(s)
           \/ Shutdown \/ Crash,
           NEW r \in Requests
    PROVE  OutcomeOf(r)'
<1>1. OutcomeOf(r) /\ pc \in [Requests -> Places] /\ crashes \in Nat
  BY BoundsAssumption DEF OutcomeInv, TypeInv, TypeOK
<1>2. /\ (Owed(r) <=> Owed(r)') /\ (HasEvent(r) <=> HasEvent(r)') /\ (Coupled(r) <=> Coupled(r)')
      /\ (AfterCommit(r) <=> AfterCommit(r)') /\ (Outbox <=> Outbox')
      /\ guarantee' = guarantee /\ kind' = kind
  BY DEF config, Owed, HasEvent, Coupled, AfterCommit, Outbox
<1> USE <1>1, <1>2 DEF OutcomeOf, Traced, Settled, Goto
<1>3. ASSUME NEW q \in Requests, Flush(q) PROVE OutcomeOf(r)'
  BY <1>3 DEF Flush, Returns, transactions, tables
<1>4. ASSUME NEW q \in Requests, FlushFails(q) \/ Deliver(q) PROVE OutcomeOf(r)'
  BY <1>4 DEF FlushFails, Deliver, transactions, tables
<1>5. ASSUME NEW s \in Subjects, Forget(s) PROVE OutcomeOf(r)'
  BY <1>5 DEF Forget, transactions, delivery
<1>6. CASE Shutdown
  BY <1>6 DEF Shutdown, transactions, tables
<1>7. CASE Crash
  BY <1>7 DEF Crash, Over, tables
<1> QED BY <1>3, <1>4, <1>5, <1>6, <1>7

\* Every step keeps the invariant.
LEMMA OutcomeStep == TypeInv /\ OutcomeInv /\ [Next]_vars => OutcomeInv'
<1> SUFFICES ASSUME TypeInv, OutcomeInv, [Next]_vars PROVE OutcomeInv'
  OBVIOUS
<1>1. CASE UNCHANGED vars
  BY <1>1 DEF vars, config, state, transactions, tables, delivery, OutcomeInv, OutcomeOf, Owed,
     HasEvent, Coupled, AfterCommit, Outbox, Traced, Settled
<1>2. CASE Next
  BY <1>2, OutcomeOfRequest, OutcomeBeside DEF Next, OutcomeInv
<1> QED BY <1>1, <1>2

\* It holds in the beginning, when no request has started.
LEMMA OutcomeInit == Init => OutcomeInv
BY DEF Init, OutcomeInv, OutcomeOf

\* A request that ends well has left an event or a report behind.
THEOREM NoSilentRequests == Spec => []NothingSilent
<1>1. OutcomeInv => NothingSilent
  BY DEF OutcomeInv, OutcomeOf, NothingSilent, Traced
<1> QED BY TypeInit, TypeStep, OutcomeInit, OutcomeStep, <1>1, PTL DEF Spec

\* A coupled call that returns has its event in a store or was reported.
THEOREM CoupledCallsAreStored == Spec => []CoupledIsStored
<1>1. OutcomeInv => CoupledIsStored
  BY DEF OutcomeInv, OutcomeOf, CoupledIsStored, Settled
<1> QED BY TypeInit, TypeStep, OutcomeInit, OutcomeStep, <1>1, PTL DEF Spec

-----------------------------------------------------------------------------
(* The keys of the subjects. *)

\* Where a request is before its event is submitted.
Before == {"idle", "change", "getKey", "setKey", "readBack", "submit"}

\* Nothing of a request exists before it has submitted its event, and a transaction that is
\* committed is over but for its hook.
ProgressOf(r) ==
    /\ r \in intents \cup hooked \cup buffer \cup stored \cup outbox => pc[r] \notin Before
    /\ pc[r] = "afterCommit" => r \in hooked
    /\ r \in committed /\ kind[r].trx =>
          /\ pc[r] \in {"afterCommit", "coupled", "done", "crashed"}
          /\ pc[r] = "coupled" => r \in hooked

ProgressInv == \A r \in Requests : ProgressOf(r)

\* A key that an open transaction has inserted is the first of its subject, and seen by
\* nobody else.
OwnKey(r) ==
    own[r] # NoKey =>
        /\ own[r] = r /\ kind[r].trx /\ r \notin committed
        /\ keys[SubjectOf(r)] = NoKey /\ SubjectOf(r) \in Subjects
        /\ pc[r] \in {"readBack", "submit", "coupled", "throws", "leaving"}
        /\ pc[r] = "coupled" => r \notin hooked
        /\ \A q \in Requests : encrypted[q] = r => q = r

\* The key of a request that has not inserted it is nowhere.
Unborn(r) ==
    pc[r] \in {"idle", "change", "getKey", "setKey"} =>
        /\ encrypted[r] = NoKey /\ own[r] = NoKey
        /\ \A q \in Requests : encrypted[q] # r
        /\ \A s \in Subjects : keys[s] # r

\* A committed key is no open transaction's.
Born(s) == keys[s] # NoKey => own[keys[s]] = NoKey

KeyInv ==
    /\ \A r \in Requests : OwnKey(r) /\ Unborn(r)
    /\ \A s \in Subjects : Born(s)

\* An event has the key that its subject has, or none, until the subject is forgotten.
Fits(r) ==
    \/ Early(r)
    \/ SubjectOf(r) \in forgotten \cup {NoSubject}
    \/ encrypted[r] \in {NoKey, Visible(r)}

\* The event of a request that goes on, or that has left it.
Alive(r) ==
    \/ pc[r] \in {"submit", "leaving", "afterCommit", "coupled", "done"}
    \/ r \in stored \cup outbox \cup buffer

FitInv == \A r \in Requests : Alive(r) => Fits(r)

\* A forgotten event is durable and does not fit any more.
ForgetInv ==
    /\ erasable \subseteq stored \cup outbox
    /\ \A r \in erasable : SubjectOf(r) \in Subjects
    /\ ForgottenForGood

\* Every step keeps the progress of a request.
LEMMA ProgressStep == TypeInv /\ PhantomInv /\ OutcomeInv /\ ProgressInv /\ [Next]_vars => ProgressInv'
<1> SUFFICES ASSUME TypeInv, PhantomInv, OutcomeInv, ProgressInv, [Next]_vars,
                    NEW r \in Requests
             PROVE  ProgressOf(r)'
  BY DEF ProgressInv
<1>1. /\ ProgressOf(r) /\ OutcomeOf(r)
      /\ pc \in [Requests -> Places] /\ kind[r].trx \in BOOLEAN
  BY KindOf DEF ProgressInv, OutcomeInv, TypeInv, TypeOK
<1> USE <1>1 DEF ProgressOf, Before, Goto, config
<1>2. ASSUME UNCHANGED vars PROVE ProgressOf(r)'
  BY <1>2 DEF vars, state, transactions, tables, delivery
<1>3. ASSUME NEW q \in Requests, RequestStep(q), UNCHANGED config PROVE ProgressOf(r)'
  <2>1. CASE Begin(q)
    BY <1>3, <2>1 DEF Begin, transactions, tables, delivery
  <2>2. CASE Change(q)
    BY <1>3, <2>2 DEF Change, transactions, delivery
  <2>3. CASE Encrypt(q)
    BY <1>3, <2>3 DEF Encrypt, GetKey, SetKey, ReadBack, Inserted, transactions, tables, delivery
  <2>4. CASE InsertIntent(q)
    BY <1>3, <2>4 DEF InsertIntent, Returns, Fails, tables, delivery
  <2>5. CASE RegisterHook(q) \/ CoupledTimeout(q)
    BY <1>3, <2>5 DEF RegisterHook, CoupledTimeout, Fails, transactions, tables, delivery
  <2>6. CASE Enqueue(q)
    BY <1>3, <2>6 DEF Enqueue, Submits, Accepted, Refused, Returns, Fails, transactions, tables
  <2>7. CASE Leave(q) \/ Throw(q)
    BY <1>3, <2>7 DEF Leave, Throw, transactions, tables, delivery
  <2>8. CASE Commit(q)
    BY <1>3, <2>8 DEF Commit, delivery
  <2>9. CASE Reject(q)
    BY <1>3, <2>9 DEF Reject, tables, delivery
  <2> QED BY <1>3, <2>1, <2>2, <2>3, <2>4, <2>5, <2>6, <2>7, <2>8, <2>9 DEF RequestStep
<1>4. ASSUME NEW q \in Requests, Flush(q) \/ FlushFails(q) \/ Deliver(q), UNCHANGED config
      PROVE  ProgressOf(r)'
  BY <1>4 DEF Flush, FlushFails, Deliver, Returns, transactions, tables
<1>5. ASSUME NEW s \in Subjects, Forget(s), UNCHANGED config PROVE ProgressOf(r)'
  BY <1>5 DEF Forget, transactions, delivery
<1>6. ASSUME Shutdown, UNCHANGED config PROVE ProgressOf(r)'
  BY <1>6 DEF Shutdown, transactions, tables
<1>7. ASSUME Crash, UNCHANGED config PROVE ProgressOf(r)'
  BY <1>7 DEF Crash, Over, tables
<1> QED BY <1>2, <1>3, <1>4, <1>5, <1>6, <1>7 DEF Next

\* The first event of a subject inserts its key.
LEMMA SetKeyKeeps ==
    ASSUME TypeInv, KeyInv, ProgressInv, NEW q \in Requests, SetKey(q), UNCHANGED config
    PROVE  KeyInv'
<1>1. /\ own \in [Requests -> Keys] /\ keys \in [Subjects -> Keys] /\ pc \in [Requests -> Places]
      /\ \A r \in Requests : kind[r].trx \in BOOLEAN
      /\ SubjectOf(q) \in Subjects /\ NoKey \notin Requests
  BY KindOf, NamesAssumption DEF SetKey, TypeInv, TypeOK
<1>2. /\ \A r \in Requests : OwnKey(r) /\ Unborn(r)
      /\ \A s \in Subjects : Born(s)
      /\ ProgressOf(q)
      /\ \A r \in Requests : SubjectOf(r)' = SubjectOf(r)
  BY DEF KeyInv, ProgressInv, config, SubjectOf
<1>3. pc[q] = "setKey" /\ own[q] = NoKey /\ encrypted' = encrypted
      /\ pc' = [pc EXCEPT ![q] = "readBack"] /\ UNCHANGED <<hooked, committed, kind>>
  BY <1>2 DEF SetKey, Goto, Unborn, config
<1>4. CASE keys[SubjectOf(q)] # NoKey
  <2>1. own' = own /\ keys' = keys
    BY <1>4 DEF SetKey
  <2> QED BY <1>1, <1>2, <1>3, <2>1 DEF KeyInv, OwnKey, Unborn, Born
<1>5. CASE keys[SubjectOf(q)] = NoKey /\ kind[q].trx
  <2>1. own' = [own EXCEPT ![q] = q] /\ keys' = keys
    BY <1>5 DEF SetKey, Inserted
  <2>2. q \notin committed
    BY <1>2, <1>3, <1>5 DEF ProgressOf
  <2>3. ASSUME NEW r \in Requests PROVE OwnKey(r)' /\ Unborn(r)'
    BY <1>1, <1>2, <1>3, <1>5, <2>1, <2>2 DEF OwnKey, Unborn
  <2>4. ASSUME NEW s \in Subjects PROVE Born(s)'
    BY <1>1, <1>2, <1>3, <2>1 DEF Born, Unborn
  <2> QED BY <2>3, <2>4 DEF KeyInv
<1>6. CASE keys[SubjectOf(q)] = NoKey /\ ~kind[q].trx
  <2>1. keys' = [keys EXCEPT ![SubjectOf(q)] = q] /\ own' = own
    BY <1>6 DEF SetKey, Inserted
  <2>2. \A r \in Requests : own[r] # NoKey => SubjectOf(r) # SubjectOf(q)
    BY DEF SetKey, RowIsLocked
  <2>3. ASSUME NEW r \in Requests PROVE OwnKey(r)' /\ Unborn(r)'
    BY <1>1, <1>2, <1>3, <2>1, <2>2 DEF OwnKey, Unborn
  <2>4. ASSUME NEW s \in Subjects PROVE Born(s)'
    BY <1>1, <1>2, <1>3, <2>1 DEF Born
  <2> QED BY <2>3, <2>4 DEF KeyInv
<1> QED BY <1>1, <1>4, <1>5, <1>6

\* A key that is read keeps the invariant.
LEMMA ReadKeyKeeps ==
    ASSUME TypeInv, KeyInv, NEW q \in Requests, GetKey(q) \/ ReadBack(q), UNCHANGED config
    PROVE  KeyInv'
<1>1. /\ own \in [Requests -> Keys] /\ keys \in [Subjects -> Keys] /\ pc \in [Requests -> Places]
      /\ encrypted \in [Requests -> Keys]
      /\ SubjectOf(q) \in Subjects /\ NoKey \notin Requests
  BY NamesAssumption DEF GetKey, ReadBack, TypeInv, TypeOK
<1>2. /\ \A r \in Requests : OwnKey(r) /\ Unborn(r)
      /\ \A s \in Subjects : Born(s)
      /\ \A r \in Requests : SubjectOf(r)' = SubjectOf(r)
      /\ UNCHANGED <<own, keys, hooked, committed, kind>>
  BY DEF KeyInv, config, SubjectOf, GetKey, ReadBack, transactions, tables
<1>3. PICK k \in {own[q], keys[SubjectOf(q)]} :
          /\ encrypted' = [encrypted EXCEPT ![q] = k]
          /\ pc[q] = "getKey" => k = Visible(q)
  BY DEF GetKey, ReadBack, Visible, ReadsAgain
<1>4. \/ pc[q] = "getKey" /\ pc' = [pc EXCEPT ![q] = IF Visible(q) = NoKey THEN "setKey" ELSE "submit"]
      \/ pc[q] = "readBack" /\ pc'[q] \in {"throws", "submit"}
         /\ \A r \in Requests \ {q} : pc'[r] = pc[r]
  BY <1>1 DEF GetKey, ReadBack, Goto
<1>5. ASSUME NEW r \in Requests, own[r] # NoKey, r # q PROVE k # r
  BY <1>1, <1>2, <1>5 DEF OwnKey, Born
<1>6. ASSUME NEW r \in Requests, Unborn(r), pc[r] \in {"idle", "change", "getKey", "setKey"}
      PROVE  k # r
  BY <1>1, <1>2, <1>6 DEF OwnKey, Unborn
<1>7. ASSUME NEW r \in Requests PROVE OwnKey(r)'
  BY <1>1, <1>2, <1>3, <1>4, <1>5 DEF OwnKey
<1>8. ASSUME NEW r \in Requests PROVE Unborn(r)'
  BY <1>1, <1>2, <1>3, <1>4, <1>6 DEF Unborn
<1> QED BY <1>2, <1>7, <1>8 DEF KeyInv, Born

\* A commit makes the key of the transaction the key of its subject.
LEMMA CommitKeeps ==
    ASSUME TypeInv, KeyInv, NEW q \in Requests, Commit(q), UNCHANGED config
    PROVE  KeyInv'
<1>1. /\ own \in [Requests -> Keys] /\ keys \in [Subjects -> Keys] /\ pc \in [Requests -> Places]
      /\ NoKey \notin Requests
      /\ \A x, y \in Requests : own[x] # NoKey /\ own[y] # NoKey /\ SubjectOf(x) = SubjectOf(y) => x = y
  BY NamesAssumption DEF TypeInv, TypeOK
<1>2. /\ \A r \in Requests : OwnKey(r) /\ Unborn(r)
      /\ \A s \in Subjects : Born(s)
      /\ \A r \in Requests : SubjectOf(r)' = SubjectOf(r)
  BY DEF KeyInv, config, SubjectOf
<1>3. /\ pc[q] = "leaving" /\ pc' = [pc EXCEPT ![q] = IF q \in hooked THEN "afterCommit" ELSE "done"]
      /\ own' = [own EXCEPT ![q] = NoKey]
      /\ keys' = [s \in Subjects |-> IF own[q] # NoKey /\ s = SubjectOf(q) THEN own[q] ELSE keys[s]]
      /\ committed' = committed \cup {q} /\ UNCHANGED <<encrypted, hooked, kind>>
  BY DEF Commit, Goto, config
<1>4. ASSUME NEW r \in Requests PROVE OwnKey(r)' /\ Unborn(r)'
  <2>1. OwnKey(r)'
    BY <1>1, <1>2, <1>3 DEF OwnKey
  <2>2. Unborn(r)'
    BY <1>1, <1>2, <1>3 DEF OwnKey, Unborn
  <2> QED BY <2>1, <2>2
<1>5. ASSUME NEW s \in Subjects PROVE Born(s)'
  BY <1>1, <1>2, <1>3 DEF OwnKey, Born
<1> QED BY <1>4, <1>5 DEF KeyInv

\* A step that only takes keys away keeps the invariant.
LEMMA TakingKeepsKeys ==
    ASSUME TypeInv, KeyInv, UNCHANGED config, UNCHANGED encrypted,
           \A r \in Requests :
               /\ own'[r] \in {NoKey, own[r]}
               /\ pc'[r] \in {"idle", "change", "getKey", "setKey"} =>
                     pc[r] \in {"idle", "change", "getKey", "setKey"}
               /\ own'[r] # NoKey =>
                     /\ r \in committed' => r \in committed
                     /\ pc'[r] \in {"readBack", "submit", "coupled", "throws", "leaving"}
                     /\ pc'[r] = "coupled" => r \notin hooked',
           \A s \in Subjects : keys'[s] \in {NoKey, keys[s]}
    PROVE  KeyInv'
<1>1. /\ keys \in [Subjects -> Keys] /\ NoKey \notin Requests
      /\ \A r \in Requests : OwnKey(r) /\ Unborn(r)
      /\ \A s \in Subjects : Born(s)
      /\ \A r \in Requests : SubjectOf(r)' = SubjectOf(r)
      /\ kind' = kind
  BY NamesAssumption DEF TypeInv, TypeOK, KeyInv, config, SubjectOf
<1>2. ASSUME NEW r \in Requests PROVE OwnKey(r)'
  BY <1>1 DEF OwnKey
<1>3. ASSUME NEW r \in Requests PROVE Unborn(r)'
  BY <1>1 DEF Unborn
<1>4. ASSUME NEW s \in Subjects PROVE Born(s)'
  BY <1>1 DEF Born, Keys
<1> QED BY <1>2, <1>3, <1>4 DEF KeyInv

\* Every step keeps the keys in order.
LEMMA KeyStep == TypeInv /\ ProgressInv /\ OutcomeInv /\ KeyInv /\ [Next]_vars => KeyInv'
<1> SUFFICES ASSUME TypeInv, ProgressInv, OutcomeInv, KeyInv, [Next]_vars PROVE KeyInv'
  OBVIOUS
<1> DEFINE early == {"idle", "change", "getKey", "setKey"}
           late == {"readBack", "submit", "coupled", "throws", "leaving"}
<1>1. /\ pc \in [Requests -> Places]
      /\ \A r \in Requests : own[r] # NoKey =>
            pc[r] \in late /\ r \notin committed /\ kind[r].trx /\ (pc[r] = "coupled" => r \notin hooked)
      /\ \A r \in Requests : r \in hooked => pc[r] \notin Before
      /\ \A r \in Requests : pc[r] = "afterCommit" => r \in hooked
  BY DEF TypeInv, TypeOK, KeyInv, OwnKey, ProgressInv, ProgressOf
<1>2. CASE UNCHANGED vars
  BY <1>1, <1>2, TakingKeepsKeys DEF vars, state, transactions, tables
<1>3. ASSUME NEW q \in Requests, RequestStep(q), UNCHANGED config PROVE KeyInv'
  <2>1. CASE Begin(q) \/ Leave(q) \/ Throw(q)
    BY <1>1, <1>3, <2>1, TakingKeepsKeys DEF Begin, Leave, Throw, Goto, transactions, tables
  <2>2. CASE Change(q)
    <3>1. own[q] = NoKey
      BY <1>1, <2>2 DEF Change
    <3> QED BY <1>1, <1>3, <2>2, <3>1, TakingKeepsKeys DEF Change, Goto, transactions
  <2>3. CASE Encrypt(q)
    BY <1>3, <2>3, SetKeyKeeps, ReadKeyKeeps DEF Encrypt
  <2>4. CASE InsertIntent(q) \/ RegisterHook(q)
    BY <1>1, <1>3, <2>4, TakingKeepsKeys
    DEF InsertIntent, RegisterHook, Returns, Fails, Goto, Before, transactions, tables
  <2>5. CASE Enqueue(q)
    <3>1. pc[q] \in {"submit", "afterCommit"} /\ (own[q] # NoKey => q \notin hooked)
      BY <1>1, <2>5 DEF Enqueue, Submits, Before
    <3> QED BY <1>1, <1>3, <2>5, <3>1, TakingKeepsKeys
            DEF Enqueue, Accepted, Refused, Returns, Fails, Goto, transactions, tables
  <2>6. CASE CoupledTimeout(q)
    BY <1>1, <1>3, <2>6, TakingKeepsKeys DEF CoupledTimeout, Fails, Goto, transactions, tables
  <2>7. CASE Commit(q)
    BY <1>3, <2>7, CommitKeeps
  <2>8. CASE Reject(q)
    <3>1. own' = [own EXCEPT ![q] = NoKey] /\ own \in [Requests -> Keys] /\ keys' = keys
      BY <2>8 DEF Reject, tables, TypeInv, TypeOK
    <3> QED BY <1>1, <1>3, <2>8, <3>1, TakingKeepsKeys DEF Reject, Goto, tables
  <2> QED BY <1>3, <2>1, <2>2, <2>3, <2>4, <2>5, <2>6, <2>7, <2>8 DEF RequestStep
<1>4. ASSUME NEW q \in Requests, Flush(q) \/ FlushFails(q) \/ Deliver(q), UNCHANGED config
      PROVE  KeyInv'
  BY <1>1, <1>4, TakingKeepsKeys DEF Flush, FlushFails, Deliver, Returns, Goto, transactions, tables
<1>5. ASSUME NEW s \in Subjects, Forget(s), UNCHANGED config PROVE KeyInv'
  BY <1>1, <1>5, TakingKeepsKeys DEF Forget, DeleteKey, transactions, TypeInv, TypeOK
<1>6. ASSUME Shutdown, UNCHANGED config PROVE KeyInv'
  BY <1>1, <1>6, TakingKeepsKeys DEF Shutdown, transactions, tables
<1>7. ASSUME Crash, UNCHANGED config PROVE KeyInv'
  BY <1>1, <1>7, TakingKeepsKeys DEF Crash, Over, tables
<1> QED BY <1>2, <1>3, <1>4, <1>5, <1>6, <1>7 DEF Next

\* An event fits as long as it stays as it is and its subject gets no other key.
LEMMA FitStays ==
    ASSUME NEW r \in Requests, UNCHANGED config, Fits(r),
           encrypted'[r] = encrypted[r], forgotten \subseteq forgotten',
           Early(r) \/ Visible(r) = NoKey \/ Visible(r)' = Visible(r)
                    \/ SubjectOf(r) \in forgotten' \cup {NoSubject}
    PROVE  Fits(r)'
<1>1. (Early(r) <=> Early(r)') /\ SubjectOf(r)' = SubjectOf(r)
  BY DEF config, Early, Outbox, SubjectOf
<1> QED BY <1>1 DEF Fits

\* The statements of the encryption keep the events fitting.
LEMMA FitEncrypt ==
    ASSUME TypeInv, ProgressInv, KeyInv, FitInv, NEW q \in Requests, Encrypt(q), UNCHANGED config,
           NEW r \in Requests, Alive(r)'
    PROVE  Fits(r)'
<1>1. /\ own \in [Requests -> Keys] /\ keys \in [Subjects -> Keys] /\ pc \in [Requests -> Places]
      /\ encrypted \in [Requests -> Keys] /\ SubjectOf(q) \in Subjects
      /\ SubjectOf(r) \in Subjects \cup {NoSubject} /\ NoKey \notin Requests
      /\ SubjectOf(r)' = SubjectOf(r)
  BY KindOf, NamesAssumption DEF Encrypt, GetKey, SetKey, ReadBack, TypeInv, TypeOK, config, SubjectOf
<1>2. pc'[q] \notin {"leaving", "afterCommit", "coupled", "done"} /\ pc[q] \in Before
      /\ forgotten' = forgotten /\ UNCHANGED <<stored, outbox, buffer>>
      /\ \A p \in Requests \ {q} : pc'[p] = pc[p]
  BY <1>1 DEF Encrypt, GetKey, SetKey, ReadBack, Goto, Before, delivery, tables, erasure
<1>3. ASSUME r # q PROVE Alive(r) /\ Fits(r)
  BY <1>2, <1>3 DEF Alive, FitInv
<1>4. ASSUME r = q PROVE pc'[q] = "submit"
  BY <1>2, <1>4 DEF Alive, ProgressInv, ProgressOf
<1>5. CASE GetKey(q) \/ ReadBack(q)
  <2>1. UNCHANGED <<own, keys>> /\ Visible(r)' = Visible(r)
    BY <1>1, <1>5 DEF GetKey, ReadBack, transactions, tables, Visible
  <2>2. CASE r # q
    BY <1>1, <1>2, <1>3, <1>5, <2>1, <2>2, FitStays DEF GetKey, ReadBack
  <2>3. CASE r = q
    <3>1. encrypted'[q] \in {NoKey, Visible(q)}
      BY <1>1, <1>5 DEF GetKey, ReadBack, ReadsAgain, Visible
    <3> QED BY <2>1, <2>3, <3>1 DEF Fits
  <2> QED BY <2>2, <2>3
<1>6. CASE SetKey(q)
  <2>1. r # q
    BY <1>1, <1>4, <1>6 DEF SetKey, Goto
  <2>2. encrypted' = encrypted /\ (Visible(r) = NoKey \/ Visible(r)' = Visible(r) \/ SubjectOf(r) = NoSubject)
    BY <1>1, <1>6, <2>1 DEF SetKey, Inserted, RowIsLocked, Visible
  <2> QED BY <1>2, <1>3, <2>1, <2>2, FitStays
<1> QED BY <1>5, <1>6 DEF Encrypt

\* The end of a transaction keeps the events fitting.
LEMMA FitEnd ==
    ASSUME TypeInv, PhantomInv, ProgressInv, KeyInv, FitInv, NEW q \in Requests,
           Commit(q) \/ Reject(q), UNCHANGED config, NEW r \in Requests, Alive(r)'
    PROVE  Fits(r)'
<1>1. /\ own \in [Requests -> Keys] /\ keys \in [Subjects -> Keys] /\ pc \in [Requests -> Places]
      /\ SubjectOf(r) \in Subjects \cup {NoSubject} /\ NoKey \notin Requests
      /\ \A x, y \in Requests : own[x] # NoKey /\ own[y] # NoKey /\ SubjectOf(x) = SubjectOf(y) => x = y
  BY KindOf, NamesAssumption DEF TypeInv, TypeOK
<1>2. /\ encrypted' = encrypted /\ forgotten' = forgotten /\ own' = [own EXCEPT ![q] = NoKey]
      /\ SubjectOf(r)' = SubjectOf(r)
  BY DEF Commit, Reject, erasure, config, SubjectOf
<1>3. Alive(r) /\ Fits(r)
  <2>1. Alive(r)
    BY <1>1 DEF Commit, Reject, Goto, Alive, delivery, tables
  <2> QED BY <2>1 DEF FitInv
<1>4. CASE Commit(q)
  <2>1. keys' = [s \in Subjects |-> IF own[q] # NoKey /\ s = SubjectOf(q) THEN own[q] ELSE keys[s]]
    BY <1>4 DEF Commit
  <2>2. own[q] # NoKey => keys[SubjectOf(q)] = NoKey /\ SubjectOf(q) \in Subjects
    BY DEF KeyInv, OwnKey
  <2>3. Visible(r) = NoKey \/ Visible(r)' = Visible(r) \/ SubjectOf(r) = NoSubject
    BY <1>1, <1>2, <2>1, <2>2 DEF Visible
  <2> QED BY <1>2, <1>3, <2>3, FitStays
<1>5. CASE Reject(q)
  <2>1. keys' = keys
    BY <1>5 DEF Reject, tables
  <2>2. ASSUME r = q PROVE Early(r) \/ own[r] = NoKey
    <3>1. r \in stored \cup outbox \cup buffer
      BY <1>1, <1>5, <2>2 DEF Reject, Goto, Alive, delivery, tables
    <3> QED BY <3>1 DEF PhantomInv, PhantomOf, KeyInv, OwnKey
  <2>3. Early(r) \/ Visible(r)' = Visible(r)
    BY <1>1, <1>2, <2>1, <2>2 DEF Visible
  <2> QED BY <1>2, <1>3, <2>3, FitStays
<1> QED BY <1>4, <1>5

\* Steps that touch no key.
LEMMA FitOthers ==
    ASSUME TypeInv, ProgressInv, KeyInv, FitInv, NEW q \in Requests, UNCHANGED config,
           \/ Begin(q) \/ Change(q) \/ InsertIntent(q) \/ RegisterHook(q) \/ Enqueue(q)
           \/ CoupledTimeout(q) \/ Leave(q) \/ Throw(q)
           \/ Flush(q) \/ FlushFails(q) \/ Deliver(q),
           NEW r \in Requests, Alive(r)'
    PROVE  Fits(r)'
<1> USE DEF transactions, tables, delivery, erasure, Goto, Returns, Fails
<1>1. /\ UNCHANGED <<own, keys, encrypted, forgotten>> /\ pc \in [Requests -> Places]
      /\ Visible(r)' = Visible(r)
  BY DEF Begin, Change, InsertIntent, RegisterHook, Enqueue, CoupledTimeout, Leave, Throw,
     Flush, FlushFails, Deliver, TypeInv, TypeOK, Visible, config, SubjectOf
<1>2. CASE Change(q) /\ r = q
  <2>1. encrypted[r] = NoKey
    BY <1>2 DEF Change, KeyInv, Unborn
  <2> QED BY <1>1, <2>1 DEF Fits
<1>3. CASE ~(Change(q) /\ r = q)
  <2>1. Alive(r)
    <3>1. CASE Begin(q) \/ Change(q)
      BY <1>1, <1>3, <3>1 DEF Begin, Change, Alive
    <3>2. CASE InsertIntent(q) \/ RegisterHook(q)
      BY <1>1, <3>2 DEF InsertIntent, RegisterHook, Alive
    <3>3. CASE Enqueue(q)
      BY <1>1, <3>3 DEF Enqueue, Submits, Accepted, Refused, Alive
    <3>4. CASE CoupledTimeout(q) \/ Leave(q) \/ Throw(q)
      BY <1>1, <3>4 DEF CoupledTimeout, Leave, Throw, Alive
    <3>5. CASE Flush(q) \/ FlushFails(q) \/ Deliver(q)
      BY <1>1, <3>5 DEF Flush, FlushFails, Deliver, Alive
    <3> QED BY <3>1, <3>2, <3>3, <3>4, <3>5
  <2> QED BY <1>1, <2>1, FitStays DEF FitInv
<1> QED BY <1>2, <1>3

\* Every step keeps the events fitting.
LEMMA FitStep ==
    TypeInv /\ PhantomInv /\ ProgressInv /\ KeyInv /\ FitInv /\ [Next]_vars => FitInv'
<1> SUFFICES ASSUME TypeInv, PhantomInv, ProgressInv, KeyInv, FitInv, [Next]_vars,
                    NEW r \in Requests, Alive(r)'
             PROVE  Fits(r)'
  BY DEF FitInv
<1>1. /\ own \in [Requests -> Keys] /\ keys \in [Subjects -> Keys]
      /\ SubjectOf(r) \in Subjects \cup {NoSubject}
  BY KindOf DEF TypeInv, TypeOK
<1>2. CASE UNCHANGED vars
  <2>1. Alive(r) /\ Visible(r)' = Visible(r)
    BY <1>2 DEF vars, state, config, transactions, tables, delivery, Alive, Visible, SubjectOf
  <2> QED BY <1>2, <2>1, FitStays DEF vars, state, erasure, FitInv
<1>3. ASSUME NEW q \in Requests, RequestStep(q) \/ Flush(q) \/ FlushFails(q) \/ Deliver(q),
             UNCHANGED config
      PROVE  Fits(r)'
  BY <1>3, FitEncrypt, FitEnd, FitOthers DEF RequestStep
<1>4. ASSUME NEW s \in Subjects, Forget(s), UNCHANGED config PROVE Fits(r)'
  <2>1. Alive(r) /\ own' = own /\ keys' = [keys EXCEPT ![s] = NoKey] /\ encrypted' = encrypted
        /\ forgotten' = forgotten \cup {s}
    BY <1>4 DEF Forget, DeleteKey, transactions, delivery, Alive
  <2>2. Visible(r)' = Visible(r) \/ SubjectOf(r) \in forgotten' \cup {NoSubject}
    BY <1>1, <1>4, <2>1 DEF Visible, config, SubjectOf
  <2> QED BY <1>4, <2>1, <2>2, FitStays DEF FitInv
<1>5. ASSUME Shutdown, UNCHANGED config PROVE Fits(r)'
  <2>1. Alive(r) /\ Visible(r)' = Visible(r)
    BY <1>5 DEF Shutdown, config, transactions, tables, Alive, Visible, SubjectOf
  <2> QED BY <1>5, <2>1, FitStays DEF Shutdown, erasure, FitInv
<1>6. ASSUME Crash, UNCHANGED config PROVE Fits(r)'
  <2>1. Alive(r) /\ keys' = keys /\ own' = [p \in Requests |-> NoKey]
    BY <1>6 DEF Crash, Over, tables, Alive
  <2>2. Early(r) \/ own[r] = NoKey
    <3>1. pc[r] = "done" \/ r \in stored \cup outbox
      BY <1>6 DEF Crash, Over, tables, Alive
    <3> QED BY <3>1 DEF PhantomInv, PhantomOf, KeyInv, OwnKey
  <2>3. Early(r) \/ Visible(r)' = Visible(r)
    BY <1>6, <2>1, <2>2 DEF Visible, config, SubjectOf
  <2> QED BY <1>6, <2>1, <2>3, FitStays DEF Crash, erasure, FitInv
<1> QED BY <1>2, <1>3, <1>4, <1>5, <1>6 DEF Next

\* Every step keeps unreadable what was forgotten.
LEMMA ForgetStep ==
    TypeInv /\ PhantomInv /\ ProgressInv /\ KeyInv /\ ForgetInv /\ [Next]_vars => ForgetInv'
<1> SUFFICES ASSUME TypeInv, PhantomInv, ProgressInv, KeyInv, ForgetInv, [Next]_vars
             PROVE  ForgetInv'
  OBVIOUS
<1>1. /\ own \in [Requests -> Keys] /\ keys \in [Subjects -> Keys] /\ NoKey \notin Requests
      /\ erasable \subseteq Requests /\ encrypted \in [Requests -> Keys] /\ pc \in [Requests -> Places]
      /\ \A r \in Requests : SubjectOf(r)' = SubjectOf(r) /\ (Early(r)' <=> Early(r))
      /\ UNCHANGED config
  BY NamesAssumption
  DEF TypeInv, TypeOK, Next, vars, config, SubjectOf, Early, Outbox
<1>2. \A r \in erasable : Early(r) \/ (r \in committed /\ own[r] = NoKey)
  BY <1>1 DEF ForgetInv, PhantomInv, PhantomOf, KeyInv, OwnKey
<1>3. \A r \in erasable : pc[r] \notin Before
  BY <1>1 DEF ForgetInv, ProgressInv, ProgressOf
<1>4. stored \subseteq stored' /\ outbox \subseteq outbox'
  BY DEF Next, vars, state, RequestStep, Begin, Change, Encrypt, GetKey, SetKey, ReadBack,
     InsertIntent, RegisterHook, Enqueue, CoupledTimeout, Leave, Commit, Throw, Reject, Flush,
     FlushFails, Deliver, Forget, Shutdown, Crash, tables, delivery
<1>5. ASSUME NEW s \in Subjects, Forget(s) PROVE ForgetInv'
  <2>1. /\ erasable' = erasable \cup Durable(s) /\ keys' = [keys EXCEPT ![s] = NoKey]
        /\ UNCHANGED <<encrypted, stored, outbox>>
    BY <1>5 DEF Forget, DeleteKey, delivery
  <2>2. Durable(s) \subseteq Requests
    BY DEF Durable, TypeInv, TypeOK
  <2>3. \A r \in erasable' : SubjectOf(r) \in Subjects /\ r \in stored \cup outbox
    BY <2>1 DEF Durable, ForgetInv
  <2>4. ASSUME NEW r \in erasable'
        PROVE  Early(r) \/ encrypted[r] = NoKey \/ encrypted[r] # keys'[SubjectOf(r)]
    BY <1>1, <2>1, <2>3 DEF Durable, ForgetInv, ForgottenForGood, Readable
  <2> QED BY <1>1, <2>1, <2>2, <2>3, <2>4 DEF ForgetInv, ForgottenForGood, Readable
<1>6. ASSUME erasable' = erasable,
             \A r \in erasable : encrypted'[r] = encrypted[r],
             \A r \in erasable : \/ keys'[SubjectOf(r)] \in {NoKey, keys[SubjectOf(r)]}
                                 \/ encrypted[r] # keys'[SubjectOf(r)] \/ Early(r)
      PROVE  ForgetInv'
  BY <1>1, <1>4, <1>6 DEF ForgetInv, ForgottenForGood, Readable
<1>7. ASSUME NEW q \in Requests, Encrypt(q) PROVE ForgetInv'
  <2>1. pc[q] \in Before /\ erasable' = erasable
    BY <1>7 DEF Encrypt, GetKey, SetKey, ReadBack, Before, erasure
  <2>2. \A r \in erasable : r # q /\ encrypted'[r] = encrypted[r]
    BY <1>1, <1>3, <1>7, <2>1 DEF Encrypt, GetKey, SetKey, ReadBack
  <2>3. \A s \in Subjects : keys'[s] = keys[s] \/ (keys'[s] = q /\ pc[q] = "setKey")
    BY <1>1, <1>7 DEF Encrypt, GetKey, SetKey, Inserted, ReadBack, tables
  <2>4. pc[q] = "setKey" => \A r \in Requests : encrypted[r] # q
    BY DEF KeyInv, Unborn
  <2> QED BY <1>1, <1>6, <2>1, <2>2, <2>3, <2>4 DEF ForgetInv
<1>8. ASSUME NEW q \in Requests, Commit(q) PROVE ForgetInv'
  <2>1. /\ erasable' = erasable /\ encrypted' = encrypted
        /\ keys' = [s \in Subjects |-> IF own[q] # NoKey /\ s = SubjectOf(q) THEN own[q] ELSE keys[s]]
    BY <1>8 DEF Commit, erasure
  <2>2. own[q] # NoKey => own[q] = q /\ \A r \in Requests : encrypted[r] = q => r = q
    BY DEF KeyInv, OwnKey
  <2>3. ASSUME NEW r \in erasable
        PROVE  \/ keys'[SubjectOf(r)] = keys[SubjectOf(r)]
               \/ encrypted[r] # keys'[SubjectOf(r)] \/ Early(r)
    BY <1>1, <1>2, <2>1, <2>2 DEF ForgetInv
  <2> QED BY <1>6, <2>1, <2>3
<1>9. ASSUME UNCHANGED <<erasable, encrypted, keys>> PROVE ForgetInv'
  BY <1>6, <1>9
<1>10. ASSUME NEW q \in Requests,
              \/ RequestStep(q) /\ ~Encrypt(q) /\ ~Commit(q)
              \/ Flush(q) \/ FlushFails(q) \/ Deliver(q)
       PROVE  UNCHANGED <<erasable, encrypted, keys>>
  BY <1>10 DEF RequestStep, Begin, Change, InsertIntent, RegisterHook, Enqueue, CoupledTimeout,
     Leave, Throw, Reject, Flush, FlushFails, Deliver, tables, erasure
<1>11. ASSUME Shutdown \/ Crash \/ UNCHANGED vars PROVE UNCHANGED <<erasable, encrypted, keys>>
  BY <1>11 DEF Shutdown, Crash, vars, state, tables, erasure
<1> QED BY <1>5, <1>7, <1>8, <1>9, <1>10, <1>11 DEF Next

\* The inductive invariant behind the two theorems about keys.
KeyInvs == TypeInv /\ PhantomInv /\ OutcomeInv /\ ProgressInv /\ KeyInv /\ FitInv /\ ForgetInv

\* All of it is an invariant.
LEMMA KeyInvariant == Spec => []KeyInvs
<1>1. Init => ProgressInv /\ KeyInv /\ FitInv /\ ForgetInv
  BY NamesAssumption DEF Init, ProgressInv, ProgressOf, KeyInv, OwnKey, Unborn, Born, FitInv, Alive,
     ForgetInv, ForgottenForGood
<1>2. Init => KeyInvs
  BY <1>1, TypeInit, PhantomInit, OutcomeInit DEF KeyInvs
<1>3. KeyInvs /\ [Next]_vars => KeyInvs'
  BY TypeStep, PhantomStep, OutcomeStep, ProgressStep, KeyStep, FitStep, ForgetStep DEF KeyInvs
<1> QED BY <1>2, <1>3, PTL DEF Spec

\* What is stored can be decrypted as long as its subject was not forgotten.
THEOREM EventsAreReadable == Spec => []ReadableUntilForgotten
<1>1. KeyInvs => ReadableUntilForgotten
  <2> SUFFICES ASSUME KeyInvs, NEW r \in stored \cup outbox
               PROVE  Early(r) \/ SubjectOf(r) \in forgotten \cup {NoSubject} \/ Readable(r)
    BY DEF ReadableUntilForgotten
  <2>1. r \in Requests
    BY DEF KeyInvs, TypeInv, TypeOK
  <2>2. Fits(r) /\ (Early(r) \/ own[r] = NoKey)
    BY <2>1 DEF KeyInvs, FitInv, Alive, PhantomInv, PhantomOf, KeyInv, OwnKey
  <2> QED BY <2>2 DEF Fits, Visible, Readable
<1> QED BY KeyInvariant, <1>1, PTL

\* What was durable when its subject was forgotten is never readable again.
THEOREM ForgettingLasts == Spec => []ForgottenForGood
<1>1. KeyInvs => ForgottenForGood
  BY DEF KeyInvs, ForgetInv
<1> QED BY KeyInvariant, <1>1, PTL

=============================================================================
