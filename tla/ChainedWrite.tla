---------------------------- MODULE ChainedWrite ----------------------------
(***************************************************************************)
(* What StreamStore and HttpStore do alike in write(): they group a batch  *)
(* by stream and chain every group to the head they hold in memory.        *)
(***************************************************************************)
EXTENDS HashChain, FiniteSets, SequencesExt

CONSTANTS Events, Streams, StreamOf

NoHeads == [s \in Streams |-> NoHead]

\* The entries of a sequence that are in a set, in their order.
Where(q, S) ==
    LET kept[n \in 0 .. Len(q)] ==
            IF n = 0 THEN <<>>
            ELSE IF q[n] \in S THEN Append(kept[n - 1], q[n]) ELSE kept[n - 1]
    IN  kept[Len(q)]

OfStream(batch, s) == Where(batch, {e \in Events : StreamOf[e] = s})

\* The streams of a batch, in the order of their first events.
StreamsOf(batch) ==
    LET firsts == {i \in DOMAIN batch :
                      \A j \in 1 .. i - 1 : StreamOf[batch[j]] # StreamOf[batch[i]]}
        order == Where([i \in DOMAIN batch |-> i], firsts)
    IN  [k \in DOMAIN order |-> StreamOf[batch[order[k]]]]

\* The rows of a batch, stream by stream.
Chained(batch, heads) ==
    LET rows(s) == ChainBatch(OfStream(batch, s), heads[s])
        group(s) == [k \in 1 .. Len(OfStream(batch, s)) |->
            LET n == heads[s].seq + k
            IN  [event |-> rows(s)[n].event, seq |-> n, hash |-> rows(s)[n].hash]]
        order == StreamsOf(batch)
    IN  FlattenSeq([k \in DOMAIN order |-> group(order[k])])

HeadsAfter(batch, heads) ==
    [s \in Streams |-> [seq |-> heads[s].seq + Len(OfStream(batch, s)),
                        hash |-> HashAfter(OfStream(batch, s), heads[s])]]

\* The rows of a stream among some rows.
RowsOf(rows, s) == Where(rows, {r \in ToSet(rows) : StreamOf[r.event] = s})

\* Every entry a head commits to is the last one of some row.
BackedBy(head, rows) ==
    \A k \in 1 .. head.seq : \E r \in rows : r.hash = SubSeq(head.hash, 1, k)

=============================================================================
