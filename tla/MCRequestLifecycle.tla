------------------------- MODULE MCRequestLifecycle -------------------------
(* Instances of RequestLifecycle for TLC: see the two                      *)
(* MCRequestLifecycle*.cfg, and MCStaleEvaluation.cfg for a finding.       *)
EXTENDS RequestLifecycleRefinement, TLC

CONSTANTS w1, w2, w3, u1, s1, s2, m1, m2, none

TwoWriters == {w1, w2}
ThreeWriters == {w1, w2, w3}
OneUnit == {u1}
NoScore == {}
OneScore == {s1}
TwoScores == {s1, s2}
NoSource == {}
OneSource == {m1}
TwoSources == {m1, m2}

Symmetry == Permutations(Writer) \cup Permutations(Source)
=============================================================================
