---------------------------- MODULE SingleFlight ----------------------------
(***************************************************************************)
(* What an idempotency key promises its callers: the work behind a key     *)
(* runs in one invocation at a time, and never again once a result is      *)
(* stored, until that result is forgotten.                                 *)
(***************************************************************************)
CONSTANTS Attempt, None

VARIABLES
  running,  \* the invocations at work
  result    \* the invocation whose answer is stored, or None

vars == <<running, result>>

Init == running = {} /\ result = None

Start(a) ==
  /\ running = {}
  /\ result = None
  /\ running' = {a}
  /\ UNCHANGED result

Finish(a) ==
  /\ running = {a}
  /\ running' = {}
  /\ result' = a

\* The work failed, was given up, or its invocation died.
Drop(a) ==
  /\ running = {a}
  /\ running' = {}
  /\ UNCHANGED result

Forget ==
  /\ running = {}
  /\ result # None
  /\ result' = None
  /\ UNCHANGED running

Next == Forget \/ \E a \in Attempt : Start(a) \/ Finish(a) \/ Drop(a)

Spec == Init /\ [][Next]_vars
=============================================================================
