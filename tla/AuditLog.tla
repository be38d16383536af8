------------------------------ MODULE AuditLog ------------------------------
(***************************************************************************)
(* What a chained store promises of its streams: each is a log that only   *)
(* grows at its end, an entry knows its place, an event enters the log     *)
(* once, and retention takes entries away from the front but never the     *)
(* last one.                                                               *)
(***************************************************************************)
EXTENDS Naturals, Sequences

CONSTANTS Streams, IdOf

VARIABLES
    log,    \* per stream: all entries it ever had, oldest first
    gone    \* per stream: how many of them retention has removed

vars == <<log, gone>>

Init ==
    /\ log = [s \in Streams |-> <<>>]
    /\ gone = [s \in Streams |-> 0]

Id(s, i) == IdOf[log[s][i].event]

\* Some entries are added to the end of one stream.
Grow(s) ==
    /\ Len(log[s]) < Len(log'[s])
    /\ SubSeq(log'[s], 1, Len(log[s])) = log[s]
    /\ \A i \in Len(log[s]) + 1 .. Len(log'[s]) :
          /\ log'[s][i].seq = i
          /\ \A t \in Streams : \A j \in 1 .. Len(log'[t]) :
                <<t, j>> # <<s, i>> => Id(t, j)' # Id(s, i)'
    /\ \A t \in Streams \ {s} : log'[t] = log[t]
    /\ UNCHANGED gone

\* Retention removes the front of one stream.
Trim(s) ==
    /\ gone[s] < gone'[s] /\ gone'[s] < Len(log[s])
    /\ \A t \in Streams \ {s} : gone'[t] = gone[t]
    /\ UNCHANGED log

Next == \E s \in Streams : Grow(s) \/ Trim(s)

Spec == Init /\ [][Next]_vars

=============================================================================
