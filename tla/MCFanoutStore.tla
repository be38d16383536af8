--------------------------- MODULE MCFanoutStore ---------------------------
(* Small instances of FanoutStore for TLC. *)
EXTENDS FanoutStore

CONSTANTS a, b, c, x, s1, s2

\* x goes to a stream of its own, b has a name of its own.
MCStreamOf == [e \in Events |-> IF e = x THEN s2 ELSE s1]
MCNameOf == [e \in Events |-> IF e = b THEN "deleted" ELSE "created"]

MCCutoffs == {{a, x}}

MCBatches == {<<a, x, b>>, <<c>>}

=============================================================================
