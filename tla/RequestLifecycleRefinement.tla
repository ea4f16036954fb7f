--------------------- MODULE RequestLifecycleRefinement ---------------------
(***************************************************************************)
(* RequestLifecycle implements RequestHistory: the public history of a     *)
(* request is the statuses of its events up to stateVersion.               *)
(***************************************************************************)
EXTENDS RequestLifecycle

StatusHistory == [v \in 1 .. current.version |-> events[v].to]

RH == INSTANCE RequestHistory WITH history <- StatusHistory

\* Every write of the service extends the public history by one legal step or
\* leaves it alone (state_transition_service.py:17-98 and both consumers).
\* Holds when transactions are used.
ImplementsRequestHistory == RH!Spec
=============================================================================
