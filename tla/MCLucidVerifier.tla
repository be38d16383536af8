-------------------------- MODULE MCLucidVerifier --------------------------
(* A small instance of LucidVerifier for TLC. *)
EXTENDS LucidVerifier, TLC

CONSTANTS a, b, c, d, a2, s1, w1, p1

\* a2 is a with another payload, d has another name.
MCIdOf == [e \in Events |-> IF e = a2 THEN a ELSE e]
MCStreamOf == [e \in Events |-> s1]
MCNameOf == [e \in Events |-> IF e = d THEN "deleted" ELSE "created"]

MCBatches == {<<a, b>>, <<c, d, c>>, <<a, a2>>}
MCRanges == {[from |-> 1, to |-> 0], [from |-> 2, to |-> 3]}

=============================================================================
