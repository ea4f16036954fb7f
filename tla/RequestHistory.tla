--------------------------- MODULE RequestHistory ---------------------------
(***************************************************************************)
(* What a rescue request is to everybody outside the service: a history of *)
(* statuses that starts at SUBMITTED, grows one legal step at a time, and  *)
(* stops at RESOLVED or CANCELLED.                                         *)
(***************************************************************************)
EXTENDS Integers, Sequences

VARIABLE history

\* The steps that staff, missions and prioritization results may take: a
\* mission may jump ahead to IN_PROGRESS or RESOLVED, a result may repeat the
\* status, and nothing ever goes back.
LegalStep(s, t) ==
  \/ s = "SUBMITTED" /\ t \in {"TRIAGED", "ASSIGNED", "IN_PROGRESS", "RESOLVED", "CANCELLED"}
  \/ s = "TRIAGED" /\ t \in {"TRIAGED", "ASSIGNED", "IN_PROGRESS", "RESOLVED", "CANCELLED"}
  \/ s = "ASSIGNED" /\ t \in {"ASSIGNED", "IN_PROGRESS", "RESOLVED", "CANCELLED"}
  \/ s = "IN_PROGRESS" /\ t \in {"IN_PROGRESS", "RESOLVED", "CANCELLED"}

Init == history = <<"SUBMITTED">>

Extend(t) ==
  /\ LegalStep(history[Len(history)], t)
  /\ history' = Append(history, t)

Next == \E t \in {"TRIAGED", "ASSIGNED", "IN_PROGRESS", "RESOLVED", "CANCELLED"} : Extend(t)

Spec == Init /\ [][Next]_history
=============================================================================
