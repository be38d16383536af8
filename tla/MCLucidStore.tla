---------------------------- MODULE MCLucidStore ----------------------------
(* Small instances of LucidStore for TLC. *)
EXTENDS LucidStore, TLC

CONSTANTS a, b, c, x, a2, s1, s2, w1, w2, p1, p2

\* a2 is a with another payload; x goes to a stream of its own, c has another name.
MCIdOf == [e \in Events |-> IF e = a2 THEN a ELSE e]
MCStreamOf == [e \in Events |-> IF e = x THEN s2 ELSE s1]
MCNameOf == [e \in Events |-> IF e = c THEN "deleted" ELSE "created"]

MCBatches == {<<a, x>>, <<b, c>>}

MCSym == Permutations({w1, w2}) \cup Permutations({p1, p2})

=============================================================================
