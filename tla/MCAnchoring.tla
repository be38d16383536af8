---------------------------- MODULE MCAnchoring ----------------------------
(* A small instance of Anchoring: one stream of three rows, and one of one. *)
EXTENDS Anchoring, TLC

CONSTANTS s1, s2, d1, d2

MCBatches == {<<s1, s1>>, <<s2, s1>>}
MCMaxRows == [s \in Streams |-> IF s = s1 THEN 3 ELSE 1]
MCSym == Permutations({d1, d2})

=============================================================================
