--------------------------- MODULE MCIdempotency ---------------------------
(* Instances of Idempotency for TLC: MCIdempotencyDeployed.cfg and         *)
(* MCIdempotencySlow.cfg.                                                  *)
EXTENDS IdempotencyRefinement, TLC

CONSTANTS a1, a2, a3, p1, p2, none

ThreeAttempts == {a1, a2, a3}
TwoAttempts == {a1, a2}
OnePayload == {p1}
TwoPayloads == {p1, p2}

\* Attempts and payloads are interchangeable.
Symmetry == Permutations(Attempt) \cup Permutations(Payload)
=============================================================================
