-------------------------- MODULE MCOutboxDrainer --------------------------
(* A small instance of OutboxDrainer for TLC. *)
EXTENDS OutboxDrainer, TLC

CONSTANTS r1, r2, d1, d2

\* Two rows without trouble, or one row with a bit of every kind.
MCBounds ==
    {[rows |-> 2, faults |-> 0, crashes |-> 0, requeues |-> 0],
     [rows |-> 1, faults |-> 1, crashes |-> 1, requeues |-> 0],
     [rows |-> 1, faults |-> 0, crashes |-> 1, requeues |-> 1]}

=============================================================================
