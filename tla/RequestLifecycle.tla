-------------------------- MODULE RequestLifecycle --------------------------
(***************************************************************************)
(* One rescue request after its creation: the CURRENT item (the snapshot)  *)
(* and the EVENT items (the history), written by concurrent invocations    *)
(* that read the snapshot, decide, and write later:                        *)
(*   - staff commands and POST .../events (execute_transition);            *)
(*   - results of the prioritization service and progress of missions      *)
(*     (the two SQS consumers);                                            *)
(*   - the priority endpoint, and the notes that creation, citizen updates *)
(*     and patches leave of the event they published for prioritization.   *)
(* Requests share no item, so one request is modelled.  Requests that the  *)
(* code rejects write nothing and are not modelled as steps.  Timestamps,  *)
(* notes and priority levels are left out.                                 *)
(*                                                                         *)
(* get_current_state is eventually consistent.  A stale read is a read     *)
(* made earlier: any number of steps of the others come between an         *)
(* invocation's read and its write, so the model needs no copy of the      *)
(* older item.                                                             *)
(*                                                                         *)
(* Definitions whose name starts with Bug are wrong variants of the one    *)
(* that follows them; they are not part of the specification.              *)
(***************************************************************************)
EXTENDS Integers, FiniteSets

CONSTANTS
  Writer,        \* concurrent invocations
  Unit,          \* responder units and rescue teams
  Score,         \* priority scores
  Source,        \* messageIds of published created / citizen-updated events
  None,
  MaxVersion,    \* bound of the model: no append beyond this stateVersion
  KeyTypeErrors  \* may a transaction be cancelled with a key type mismatch?

Status == {"SUBMITTED", "TRIAGED", "ASSIGNED", "IN_PROGRESS", "RESOLVED", "CANCELLED"}
Terminal == {"RESOLVED", "CANCELLED"}

ASSUME ConstantsAssumption ==
  /\ None \notin Status \cup Unit \cup Score \cup Source \cup Writer
  /\ MaxVersion \in Nat \ {0}
  /\ KeyTypeErrors \in BOOLEAN

VARIABLES
  current,   \* the CURRENT item
  events,    \* the EVENT#version items
  sent,      \* source events published so far
  pc,        \* what each invocation does next
  job        \* what it has decided to write

vars == <<current, events, sent, pc, job>>

-----------------------------------------------------------------------------
(* Domain rules.                                                           *)

AllowedTransitions ==
  [s \in Status |->
     CASE s = "SUBMITTED"   -> {"TRIAGED", "ASSIGNED", "CANCELLED"}
       [] s = "TRIAGED"     -> {"ASSIGNED", "CANCELLED"}
       [] s = "ASSIGNED"    -> {"IN_PROGRESS", "CANCELLED"}
       [] s = "IN_PROGRESS" -> {"RESOLVED", "CANCELLED"}
       [] OTHER             -> {}]

BugNoRequirements(target, unit, hasReason) == TRUE

RequirementsMet(target, unit, hasReason) ==
  /\ target = "ASSIGNED" => unit # None
  /\ target = "CANCELLED" => hasReason

BugAlwaysTriaged(s) == "TRIAGED"

\* A prioritization result triages a new request and leaves others where they are.
IngestedStatus(s) == IF s = "SUBMITTED" THEN "TRIAGED" ELSE s

\* ON_SITE and NEED_BACKUP, which STATUS_MAP leaves out, are one value here.
MissionStatus == {"EN_ROUTE", "UNMAPPED", "RESOLVED"}

BugMissionUnmapped(ms, s) == ms

\* STATUS_MAP: what a mission status makes of a request in status s.
MissionTarget(ms, s) ==
  CASE ms = "EN_ROUTE" -> "IN_PROGRESS"
    [] ms = "RESOLVED" -> "RESOLVED"
    [] OTHER           -> s

-----------------------------------------------------------------------------
(* Types.                                                                  *)

Version == 1 .. MaxVersion
Kind == {"none", "staff", "evaluate", "mission", "priority", "source"}

Current == [status      : Status,
            version     : Version,
            lastEvent   : Writer \cup {None},
            unit        : Unit \cup {None},     \* assignedUnitId
            score       : Score \cup {None},    \* priorityScore
            source      : Source \cup {None},   \* latestPrioritySourceEventId
            correlation : Source \cup {None},   \* latestPriorityCorrelationId
            mission     : MissionStatus \cup {None}]

Event == [from : Status \cup {None}, to : Status, by : Writer \cup {None}]
NoEvent == [from |-> None, to |-> None, by |-> None]

Job == [kind    : Kind,
        version : Nat,                    \* stateVersion that was read
        from    : Status \cup {None},     \* status that was read
        to      : Status \cup {None},
        unit    : Unit \cup {None},
        score   : Score \cup {None},
        source  : Source \cup {None},
        mission : MissionStatus \cup {None},
        guarded : BOOLEAN]                \* is stateVersion a condition of the write?

NoJob == [kind |-> "none", version |-> 0, from |-> None, to |-> None, unit |-> None,
          score |-> None, source |-> None, mission |-> None, guarded |-> FALSE]

\* A job that changes nothing yet, decided on snapshot c.
JobOn(c, kind) ==
  [NoJob EXCEPT !.kind = kind, !.version = c.version, !.from = c.status,
                !.to = c.status, !.guarded = TRUE]

PC == {"idle", "append", "put", "update", "rollback", "write", "report"}

-----------------------------------------------------------------------------
FirstEvent == [from |-> None, to |-> "SUBMITTED", by |-> None]

FirstSnapshot ==
  [status |-> "SUBMITTED", version |-> 1, lastEvent |-> None, unit |-> None,
   score |-> None, source |-> None, correlation |-> None, mission |-> None]

Init ==
  /\ current = FirstSnapshot
  /\ events = [v \in Version |-> IF v = 1 THEN FirstEvent ELSE NoEvent]
  /\ sent = {}
  /\ pc = [w \in Writer |-> "idle"]
  /\ job = [w \in Writer |-> NoJob]

Decide(w, next, j) ==
  /\ pc[w] = "idle"
  /\ pc' = [pc EXCEPT ![w] = next]
  /\ job' = [job EXCEPT ![w] = j]

Leave(w) ==
  /\ pc' = [pc EXCEPT ![w] = "idle"]
  /\ job' = [job EXCEPT ![w] = NoJob]

-----------------------------------------------------------------------------
(* Reading the snapshot and deciding.                                      *)

\* An If-Match header (0: absent) is compared with the version that was read.
IfMatchHolds(ifMatch) == ifMatch \in {0, current.version}

\* execute_transition up to the write.
Transition(w) ==
  \E target \in Status, unit \in Unit \cup {None}, score \in Score \cup {None},
     hasReason \in BOOLEAN, ifMatch \in 0 .. MaxVersion :
    /\ IfMatchHolds(ifMatch)
    /\ target \in AllowedTransitions[current.status]
    /\ RequirementsMet(target, unit, hasReason)
    /\ Decide(w, "append",
         [JobOn(current, "staff") EXCEPT !.to = target, !.unit = unit, !.score = score])
    /\ UNCHANGED <<current, events, sent>>

\* ingest_rescue_request_evaluation: the result must answer the source event
\* recorded on the snapshot.
IngestEvaluation(w) ==
  \E m \in sent, score \in Score :
    /\ current.source = m
    /\ current.status \notin Terminal
    /\ Decide(w, "append",
         [JobOn(current, "evaluate") EXCEPT
            !.to = IngestedStatus(current.status), !.score = score, !.source = m])
    /\ UNCHANGED <<current, events, sent>>

\* ingest_mission_status_changed: an event when the mapped status differs from
\* the one read, mission metadata only otherwise.
IngestMission(w) ==
  \E ms \in MissionStatus, team \in Unit :
    LET target == MissionTarget(ms, current.status)
        j == [JobOn(current, "mission") EXCEPT !.mission = ms]
    IN
    /\ current.status \notin Terminal
    /\ \/ target # current.status /\ Decide(w, "append", [j EXCEPT !.to = target, !.unit = team])
       \/ target = current.status /\ Decide(w, "write", j)
    /\ UNCHANGED <<current, events, sent>>

\* update_rescue_request_priority: stateVersion conditions the write only when
\* the client sent If-Match.
UpdatePriority(w) ==
  \E score \in Score \cup {None}, ifMatch \in 0 .. MaxVersion :
    /\ current.status \notin Terminal
    /\ IfMatchHolds(ifMatch)
    /\ Decide(w, "write",
         [JobOn(current, "priority") EXCEPT !.score = score, !.guarded = (ifMatch # 0)])
    /\ UNCHANGED <<current, events, sent>>

\* The end of a creation, citizen update or patch: the event is published, and
\* its messageId is to be recorded on CURRENT without condition.  A citizen
\* update or patch has seen a request that was not terminal; whether it
\* publishes then or later makes no difference, as results for a terminal
\* request are ignored.
PublishSource(w) ==
  \E m \in Source \ sent :
    /\ current.status \notin Terminal
    /\ sent' = sent \cup {m}
    /\ Decide(w, "write", [NoJob EXCEPT !.kind = "source", !.source = m])
    /\ UNCHANGED <<current, events>>

-----------------------------------------------------------------------------
(* Writing.                                                                *)

EventOf(w) == [from |-> job[w].from, to |-> job[w].to, by |-> w]

OrElse(x, y) == IF x # None THEN x ELSE y

\* current_updates of the three callers of append_event_and_update_current.
Advanced(w) ==
  LET j == job[w] IN
  [current EXCEPT
     !.status = j.to,
     !.version = j.version + 1,
     !.lastEvent = w,
     !.unit = OrElse(j.unit, @),
     !.score = OrElse(j.score, @),
     !.correlation = OrElse(j.source, @),
     !.mission = OrElse(j.mission, @)]

\* The fields update_current_fields sets for its callers: a priority may be
\* cleared with null, a mission or a source event is never cleared.
Amended(w) ==
  LET j == job[w] IN
  [current EXCEPT
     !.score = IF j.kind = "priority" THEN j.score ELSE @,
     !.source = OrElse(j.source, @),
     !.mission = OrElse(j.mission, @)]

VersionHolds(w) == current.version = job[w].version

EventFree(w) == events[job[w].version + 1] = NoEvent

BugUnconditionalAppend(w) == TRUE

\* The two conditions of the transaction.
CanAppend(w) == EventFree(w) /\ VersionHolds(w)

PutEvent(w) == events' = [events EXCEPT ![job[w].version + 1] = EventOf(w)]

\* append_event_and_update_current: both items or none.  A transaction may
\* also be cancelled by a concurrent one, and, where the store rejects its key
\* types, the code goes on without a transaction.
AppendEvent(w) ==
  /\ pc[w] = "append"
  /\ job[w].version < MaxVersion
  /\ \/ /\ CanAppend(w)
        /\ PutEvent(w)
        /\ current' = Advanced(w)
        /\ pc' = [pc EXCEPT ![w] = "report"]
        /\ UNCHANGED job
     \/ /\ Leave(w)
        /\ UNCHANGED <<current, events>>
     \/ /\ KeyTypeErrors
        /\ pc' = [pc EXCEPT ![w] = "put"]
        /\ UNCHANGED <<current, events, job>>
  /\ UNCHANGED sent

\* _fallback_append_event_and_update_current, first write.  Any ClientError,
\* the failed condition included, leads to the rollback.
FallbackPut(w) ==
  /\ pc[w] = "put"
  /\ \/ /\ EventFree(w)
        /\ PutEvent(w)
        /\ pc' = [pc EXCEPT ![w] = "update"]
     \/ /\ pc' = [pc EXCEPT ![w] = "rollback"]
        /\ UNCHANGED events
  /\ UNCHANGED <<current, sent, job>>

\* Second write, on condition of the version that was read.  Its response may
\* be lost; the client library then sends it again and that one fails.
FallbackUpdate(w) ==
  /\ pc[w] = "update"
  /\ \/ /\ VersionHolds(w)
        /\ current' = Advanced(w)
        /\ pc' \in {[pc EXCEPT ![w] = "report"], [pc EXCEPT ![w] = "rollback"]}
     \/ /\ pc' = [pc EXCEPT ![w] = "rollback"]
        /\ UNCHANGED current
  /\ UNCHANGED <<events, sent, job>>

\* The rollback deletes the event's key without condition; a failure to delete
\* is only logged.
FallbackRollback(w) ==
  /\ pc[w] = "rollback"
  /\ events' \in {events, [events EXCEPT ![job[w].version + 1] = NoEvent]}
  /\ Leave(w)
  /\ UNCHANGED <<current, sent>>

\* update_current_fields; a write whose condition fails changes nothing.
BugAmendUnchecked(w) == TRUE

CanAmend(w) == job[w].guarded => VersionHolds(w)

Amend(w) ==
  /\ pc[w] = "write"
  /\ \/ CanAmend(w) /\ current' = Amended(w)
     \/ UNCHANGED current
  /\ Leave(w)
  /\ UNCHANGED <<events, sent>>

\* publish_status_changed and the answer to the caller.
Report(w) ==
  /\ pc[w] = "report"
  /\ Leave(w)
  /\ UNCHANGED <<current, events, sent>>

\* The invocation dies between two calls.
Crash(w) ==
  /\ pc[w] # "idle"
  /\ Leave(w)
  /\ UNCHANGED <<current, events, sent>>

Read(w) ==
  \/ Transition(w) \/ IngestEvaluation(w) \/ IngestMission(w)
  \/ UpdatePriority(w) \/ PublishSource(w)

Store(w) ==
  \/ AppendEvent(w) \/ FallbackPut(w) \/ FallbackUpdate(w) \/ FallbackRollback(w)
  \/ Amend(w) \/ Report(w)

Next == \E w \in Writer : Read(w) \/ Store(w) \/ Crash(w)

Spec == Init /\ [][Next]_vars

-----------------------------------------------------------------------------
(* Properties.                                                             *)

\* Every variable keeps its type (data-model.md, CURRENT_STATE and STATUS_EVENT).
TypeOK ==
  /\ current \in Current
  /\ events \in [Version -> Event \cup {NoEvent}]
  /\ sent \in SUBSET Source
  /\ pc \in [Writer -> PC]
  /\ job \in [Writer -> Job]

\* The parts of HistoryAgrees, named for the proofs.
Contiguous == \A v \in Version : events[v] # NoEvent <=> v <= current.version
Chained ==
  \A v \in Version :
    (1 < v /\ v <= current.version) => events[v].from = events[v - 1].to
SnapshotIsLast ==
  /\ events[current.version].to = current.status
  /\ events[current.version].by = current.lastEvent
TerminalIsLast ==
  \A v \in Version : v < current.version => events[v].to \notin Terminal

\* The history has no gap and no event beyond stateVersion, each event starts
\* from the status the one before it left, only the last may be terminal, and
\* the snapshot is what the last event says, with any number of writers, stale
\* reads and crashes (append_event_and_update_current,
\* rescue_request_repository.py:502-538).  Holds when transactions are used.
HistoryAgrees == Contiguous /\ Chained /\ SnapshotIsLast /\ TerminalIsLast

\* What an invocation publishes and answers is in the history, under the
\* version it names (append_status_event.py:43-88).  With EventsAppendOnly: no
\* caller is told of an event that is lost.  Holds when transactions are used.
ReportsHistory ==
  \A w \in Writer : pc[w] = "report" => events[job[w].version + 1] = EventOf(w)

\* The states in which somebody acts, or has acted, on the request.
Manned == {"ASSIGNED", "IN_PROGRESS", "RESOLVED"}

\* A request somebody has to act on names who acts, whichever of the staff and
\* mission paths brought it there (transition_rules.py:29-35,
\* ingest_mission_status_changed.py:149-152).
AssignedHasUnit == current.status \in Manned => current.unit # None

\* Once a request is terminal no writer that had read it earlier still moves
\* its status, version, unit, mission or evaluation; only the two unconditional
\* fields may change (rescue_request_repository.py:529-532 and 643-646).
TerminalFreezes ==
  [][current.status \in Terminal =>
       current' = [current EXCEPT !.score = current'.score,
                                  !.source = current'.source]]_vars

\* "Terminal requests cannot be updated." (SynchronousFunctionContract.md:608,
\* the priority endpoint): the score of a terminal request is fixed.
TerminalScoreFrozen ==
  [][current.status \in Terminal => current'.score = current.score]_vars

\* "Append-only status transition history" (data-model.md:29): an EVENT item
\* neither changes nor disappears.
EventsAppendOnly ==
  [][\A v \in Version : events[v] # NoEvent => events'[v] = events[v]]_vars

\* "This prevents stale prioritization results from overwriting newer request
\* context." (prioritization-incident-sync.md:180): a result is written only
\* while the source event it answers is the one on the snapshot.
NoStaleEvaluation ==
  [][\A w \in Writer :
       (job[w].kind = "evaluate" /\ current'.version > current.version
          /\ current'.lastEvent = w) => job[w].source = current.source]_vars
=============================================================================
