----------------------------- MODULE HashChain -----------------------------
(***************************************************************************)
(* src/core/hash_chain.ts: how an event is chained to the one before it,   *)
(* and how a chain is verified.  A hash stands for what it commits to: its *)
(* own entry after all that the previous hash commits to.                  *)
(***************************************************************************)
EXTENDS Integers, Sequences

GENESIS == <<>>

\* The head of a stream without rows.
NoHead == [seq |-> 0, hash |-> GENESIS]

HashEntry(event, seq, prevHash) == Append(prevHash, [event |-> event, seq |-> seq])

\* The hash of the last of some events that are chained to head.
HashAfter(events, head) ==
    [k \in 1 .. head.seq + Len(events) |->
        IF k <= head.seq THEN head.hash[k] ELSE [event |-> events[k - head.seq], seq |-> k]]

\* The rows of a batch, by seq.
ChainBatch(events, head) ==
    [n \in head.seq + 1 .. head.seq + Len(events) |->
        [event |-> events[n - head.seq],
         hash |-> HashAfter(SubSeq(events, 1, n - head.seq), head)]]

\* Where a verification that starts at a head has got after each row: an invalid row
\* leaves it where it is.
Reached(rows, start) ==
    LET after[k \in 0 .. Len(rows)] ==
            IF k = 0 THEN start
            ELSE LET row == rows[k]
                     prev == after[k - 1]
                 IN  IF row.seq = prev.seq + 1 /\ row.hash = HashEntry(row.event, row.seq, prev.hash)
                     THEN [seq |-> row.seq, hash |-> row.hash]
                     ELSE prev
    IN  after

\* Every report of the verification is valid.
AllValid(rows, start) ==
    LET reached == Reached(rows, start)
    IN  \A k \in DOMAIN rows : reached[k].seq = rows[k].seq /\ reached[k].hash = rows[k].hash

=============================================================================
