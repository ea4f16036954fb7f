-------------------------- MODULE MCRequestUpdates --------------------------
(* Instance of RequestUpdates for TLC: MCRequestUpdates.cfg.               *)
EXTENDS RequestUpdates, TLC

CONSTANTS c1, c2, c3, k1, touch, notes, none

Commands == {c1, c2, c3}
OneKey == {k1}
Fields == {touch, notes}

\* Commands are interchangeable.
Symmetry == Permutations(Commands)
=============================================================================
