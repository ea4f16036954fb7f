--------------------------- MODULE MCQueueIngest ---------------------------
(* Instance of QueueIngest for TLC: MCQueueIngest.cfg (safety) and         *)
(* MCQueueSettles.cfg (liveness).                                          *)
EXTENDS QueueIngest, TLC

CONSTANTS m1, m2, i1, i2, k1, k2, s1, none

TwoMessages == {m1, m2}
TwoInvocations == {i1, i2}
TwoKeys == {k1, k2}
OneSource == {s1}

\* A result for event s1 under key k1.
Result ==
  [kind |-> "evaluation", id |-> k1, wrapped |-> TRUE, enveloped |-> TRUE,
   header |-> s1, attribute |-> none, wellFormed |-> TRUE, status |-> "UNMAPPED",
   fits |-> TRUE]

\* The same result without an envelope: the correlation is an attribute.
BareResult == [Result EXCEPT !.enveloped = FALSE, !.header = none, !.attribute = s1]

Mission(k, s) == [Result EXCEPT !.kind = "mission", !.id = k, !.header = none, !.status = s]

Pair(a, b) == (m1 :> a) @@ (m2 :> b)

\* A result and its copy; a result and another form of it under the same key; a
\* result and a mission that ends the request; a malformed message beside one
\* that only amends the request.
SomeTraffic ==
  { Pair(Result, Result),
    Pair(Result, BareResult),
    Pair(BareResult, Mission(k2, "RESOLVED")),
    Pair([Mission(k1, "EN_ROUTE") EXCEPT !.wellFormed = FALSE], Mission(k2, "UNMAPPED")) }

\* For liveness: a result and another form of it; a malformed message and a mission.
LittleTraffic ==
  { Pair(Result, BareResult),
    Pair([Mission(k1, "EN_ROUTE") EXCEPT !.wellFormed = FALSE], Mission(k2, "UNMAPPED")) }

\* Invocations are interchangeable in the safety run.
Workers == Permutations(TwoInvocations)
=============================================================================
