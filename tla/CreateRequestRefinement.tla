---------------------- MODULE CreateRequestRefinement ----------------------
(***************************************************************************)
(* CreateRequest uses its idempotency keys as SingleFlight allows.         *)
(***************************************************************************)
EXTENDS CreateRequest

WorkOn(k) == {holder[k]} \ {None}

KeyStore(k) ==
  INSTANCE SingleFlight WITH Attempt <- Creator, running <- WorkOn(k), result <- result[k]

\* Whatever path a creation takes (refused after its reservation, failed,
\* committed, dead) and whatever follows it (its lock or its answer expires),
\* what happens to a key is a step SingleFlight knows or none, so the two
\* models fit (create_rescue_request.py:56-68 and 241-267).
KeysAreSingleFlight ==
  /\ \A k \in Key : KeyStore(k)!Init
  /\ [][\A k \in Key : KeyStore(k)!Next \/ UNCHANGED KeyStore(k)!vars]_<<holder, result>>
=============================================================================
