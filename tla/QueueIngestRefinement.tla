----------------------- MODULE QueueIngestRefinement -----------------------
(***************************************************************************)
(* The consumers use their idempotency keys as SingleFlight allows: at     *)
(* work under a key is who holds its lock, for the content of the message  *)
(* in its hands, and the result is the content stored with COMPLETED.      *)
(***************************************************************************)
EXTENDS QueueIngest

Holders(k) == {i \in Working : Id(on[i]) = k /\ record[k].status = "IN_PROGRESS"}

Contents(k) == {raw[on[i]] : i \in Holders(k)}

Stored(k) == IF record[k].status = "COMPLETED" THEN record[k].body ELSE None

KeyStore(k) ==
  INSTANCE SingleFlight WITH Attempt <- Raw, running <- Contents(k), result <- Stored(k)

\* Whatever path a record takes (applied, skipped, failed, refused), however
\* calls raise and invocations die, at most one invocation holds a key, and what
\* happens to the key is a step SingleFlight knows or none: a stored result is
\* the holder's own and final (ingest_rescue_request_evaluation.py:36-48 and
\* 159-176, ingest_mission_status_changed.py:41-77).  Holds when
\* RunTime < LockTime.
KeysAreSingleFlight ==
  /\ []\A k \in Key : \A i, j \in Holders(k) : i = j
  /\ \A k \in Key : KeyStore(k)!Init
  /\ [][\A k \in Key : KeyStore(k)!Next \/ UNCHANGED KeyStore(k)!vars]_vars
=============================================================================
