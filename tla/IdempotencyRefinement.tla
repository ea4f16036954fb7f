----------------------- MODULE IdempotencyRefinement -----------------------
(***************************************************************************)
(* The protocol of Idempotency implements SingleFlight: the invocations at *)
(* work are those past check_and_reserve, the result is the body of a      *)
(* COMPLETED item.                                                         *)
(***************************************************************************)
EXTENDS Idempotency

StoredResult == IF rec.status = "COMPLETED" THEN rec.body ELSE None

SF == INSTANCE SingleFlight WITH running <- Holder, result <- StoredResult

\* Every step of the protocol is a step of SingleFlight or leaves it alone:
\* one invocation at work at a time, none once a result is stored
\* (idempotency_service.py:79-255).  Holds when RunTime < LockTime <= TTL.
ImplementsSingleFlight == SF!Spec
=============================================================================
