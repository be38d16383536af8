-------------------------- MODULE IntentDelivery --------------------------
(***************************************************************************)
(* What the transactional outbox promises (docs/guarantee-modes.md): an    *)
(* intent that was committed stays owed until it is done, which it is only *)
(* once the target has its event, or until it has failed, from where an    *)
(* operator can bring it back.  The target takes an event once.            *)
(***************************************************************************)
CONSTANT Rows

VARIABLES
    intent,    \* what the source knows of each intent
    target     \* the events the target has

vars == <<intent, target>>

Init ==
    /\ intent = [r \in Rows |-> "none"]
    /\ target = {}

Move(r, from, to) == intent[r] = from /\ intent' = [intent EXCEPT ![r] = to]

Commit(r) == Move(r, "none", "owed") /\ UNCHANGED target

\* The target may get the event late, when its intent has already failed.
Deliver(r) ==
    /\ intent[r] \in {"owed", "failed"} /\ r \notin target
    /\ target' = target \cup {r}
    /\ UNCHANGED intent

Settle(r) == r \in target /\ Move(r, "owed", "done") /\ UNCHANGED target
GiveUp(r) == Move(r, "owed", "failed") /\ UNCHANGED target
Requeue(r) == Move(r, "failed", "owed") /\ UNCHANGED target

Next == \E r \in Rows : Commit(r) \/ Deliver(r) \/ Settle(r) \/ GiveUp(r) \/ Requeue(r)

Spec == Init /\ [][Next]_vars

=============================================================================
