-------------------------- MODULE MCCreateRequest --------------------------
(* Instances of CreateRequest for TLC: MCCreateRequest.cfg, and            *)
(* MCPhoneUnique.cfg for a finding.                                        *)
EXTENDS CreateRequestRefinement, TLC

CONSTANTS c1, c2, c3, h1, h2, k1, b1, b2, none

ThreeCreators == {c1, c2, c3}
TwoCreators == {c1, c2}
TwoPhones == {h1, h2}
OnePhone == {h1}
OneKey == {k1}
TwoBuckets == {b1, b2}
OneBucket == {b1}

\* Creators, phones and buckets are interchangeable.
Symmetry == Permutations(Creator) \cup Permutations(Phone) \cup Permutations(Bucket)
=============================================================================
