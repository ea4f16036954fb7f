--------------------------- MODULE MCStreamRelay ---------------------------
(***************************************************************************)
(* StreamRelay with two pollers, whose run time of three, lease of two and *)
(* buffer of one keep the proportions of 60, 55 and 5 seconds.             *)
(***************************************************************************)
EXTENDS StreamRelay, TLC

CONSTANTS p1, p2, m1, m2, c1

Symmetry == Permutations(Pollers) \cup Permutations(Messages)
============================================================================
