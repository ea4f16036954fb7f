---------------------------- MODULE QueueIngest ----------------------------
(***************************************************************************)
(* The two SQS consumers around one rescue request: prioritization results *)
(* and mission progress, each from a queue of its own with a visibility    *)
(* timeout, a limit of receives and a dead-letter queue                    *)
(* (handlers/internal/ingest_*.py, the two ingest use cases, template.yaml)*)
(*                                                                         *)
(* A message is parsed, validated, reserved under an idempotency key made  *)
(* of its content, applied to the snapshot of the request, and its key     *)
(* finalized; the batch then reports the records that failed, and Lambda   *)
(* deletes the others.  In between invocations die, calls raise although   *)
(* they took effect, others write the request, and time passes.            *)
(*                                                                         *)
(* check_and_reserve is one step here; Idempotency shows what its calls    *)
(* make of concurrent ones.  The history of the request is in              *)
(* RequestLifecycle; a snapshot is reduced to what the consumers decide on.*)
(* The horizon is shorter than the retention of a key (24 hours) and of a  *)
(* queued message, so neither expires.                                     *)
(*                                                                         *)
(* Definitions whose name starts with Bug are wrong variants of the one    *)
(* that follows them; they are not part of the specification.              *)
(***************************************************************************)
EXTENDS Integers, FiniteSets

CONSTANTS
  Message,      \* SQS messages
  Invocation,   \* concurrent Lambda invocations
  Key,          \* idempotency keys: evaluateId, or request, mission, status and time
  Source,       \* messageIds of published created / citizen-updated events
  None,
  Traffic,      \* what producers may send: functions from Message to Raw
  BatchSize,    \* BatchSize of the event source mapping
  MaxReceives,  \* maxReceiveCount
  Visibility,   \* VisibilityTimeout of the queue
  Patience,     \* longest time a visible message waits for a poll
  RunTime,      \* Lambda timeout
  LockTime,     \* _LOCK_TIMEOUT_MINUTES
  MaxVersion,   \* bound of the model: no write of staff from this stateVersion on
  MaxFaults     \* bound of the model: calls that raise and invocations that die

MissionStatus == {"EN_ROUTE", "UNMAPPED", "RESOLVED"}

\* A record as it arrives.  wrapped: an SNS notification; enveloped: the payload
\* has header and body; header, attribute: the correlationId there, if any;
\* wellFormed: all other fields are valid; fits: the incident is the request's.
Raw == [kind : {"evaluation", "mission"}, id : Key, wrapped : BOOLEAN,
        enveloped : BOOLEAN, header : Source \cup {None},
        attribute : Source \cup {None}, wellFormed : BOOLEAN,
        status : MissionStatus, fits : BOOLEAN]

ASSUME ConstantsAssumption ==
  /\ None \notin Source \cup Invocation \cup Message
  /\ Traffic \subseteq [Message -> Raw]
  /\ BatchSize \in Nat \ {0}
  /\ MaxReceives \in Nat \ {0}
  /\ Visibility \in Nat
  /\ Patience \in Nat
  /\ RunTime \in Nat
  /\ LockTime \in Nat
  /\ MaxVersion \in Nat
  /\ MaxFaults \in Nat

VARIABLES
  raw,        \* content of each message
  place,      \* where each message is
  receives,   \* ApproximateReceiveCount, which only matters up to MaxReceives
  hidden,     \* time until it is visible; below 0: how long it has been
  record,     \* the item of IdempotencyTable of each key
  current,    \* the CURRENT item of the request
  published,  \* source events published so far
  noted,      \* source events recorded on CURRENT so far
  pc, batch, todo, on, failed, left,  \* each invocation, its batch, its time
  job,        \* what it has decided to write
  applied,    \* history: writes made under each key
  raised,     \* history: those whose invocation then saw an error
  orphaned,   \* history: those whose invocation then died
  faults,     \* history: calls that raised and invocations that died
  skipped,    \* history: keys that found the request terminal
  abandoned   \* history: keys whose holder died or got no answer

queueVars == <<raw, place, receives, hidden>>
requestVars == <<current, published, noted>>
workerVars == <<pc, batch, todo, on, failed, left, job>>
historyVars == <<applied, raised, orphaned, faults, skipped, abandoned>>
vars == <<queueVars, record, requestVars, workerVars, historyVars>>

-----------------------------------------------------------------------------
(* Types.                                                                  *)

Place == {"unsent", "queued", "deleted", "dead"}

Stage == {"waiting", "working", "terminal"}

Current == [version : Nat, stage : Stage, source : Source \cup {None},
            mission : Message \cup {None}]

Record == [status : {"ABSENT", "IN_PROGRESS", "FAILED", "COMPLETED"},
           holder : Invocation \cup {None}, left : Nat, body : Raw \cup {None}]

NoRecord == [status |-> "ABSENT", holder |-> None, left |-> 0, body |-> None]

Job == [version : Nat, event : BOOLEAN, stage : Stage, wrote : BOOLEAN]

NoJob == [version |-> 0, event |-> FALSE, stage |-> "waiting", wrote |-> FALSE]

PC == {"idle", "next", "read", "write", "commit", "abort"}

\* The idempotency key of the message.
Id(m) == raw[m].id

Running == {i \in Invocation : pc[i] # "idle"}

\* Invocations inside the protected part of a use case.
Working == {i \in Invocation : pc[i] \in {"read", "write", "commit", "abort"}}

-----------------------------------------------------------------------------
(* Parsing and validation.                                                 *)

\* parse_prioritization_record: where the correlationId comes from.
Correlation(m) ==
  LET r == raw[m] IN
  IF r.enveloped
  THEN IF r.wrapped /\ r.header = None THEN r.attribute ELSE r.header
  ELSE r.attribute

\* _validate_message of the two use cases.  Without a correlationId no result is
\* taken; a mission needs none.
ValidEvaluation(m) == raw[m].wellFormed /\ Correlation(m) # None

ValidMission(m) == raw[m].wellFormed

Valid(m) == IF raw[m].kind = "evaluation" THEN ValidEvaluation(m) ELSE ValidMission(m)

-----------------------------------------------------------------------------
Init ==
  /\ raw \in Traffic
  /\ place = [m \in Message |-> "unsent"]
  /\ receives = [m \in Message |-> 0]
  /\ hidden = [m \in Message |-> 0]
  /\ record = [k \in Key |-> NoRecord]
  /\ current = [version |-> 1, stage |-> "waiting", source |-> None, mission |-> None]
  /\ published = {}
  /\ noted = {}
  /\ pc = [i \in Invocation |-> "idle"]
  /\ batch = [i \in Invocation |-> {}]
  /\ todo = [i \in Invocation |-> {}]
  /\ on = [i \in Invocation |-> None]
  /\ failed = [i \in Invocation |-> {}]
  /\ left = [i \in Invocation |-> 0]
  /\ job = [i \in Invocation |-> NoJob]
  /\ applied = [k \in Key |-> 0]
  /\ raised = [k \in Key |-> 0]
  /\ orphaned = [k \in Key |-> 0]
  /\ faults = 0
  /\ skipped = {}
  /\ abandoned = {}

-----------------------------------------------------------------------------
(* Producers, the rest of the service, and the queue.                      *)

\* Results answer published events; missions report whenever they like.
Send(m) ==
  /\ place[m] = "unsent"
  /\ raw[m].kind = "evaluation" => Correlation(m) \in published \cup {None}
  /\ place' = [place EXCEPT ![m] = "queued"]
  /\ UNCHANGED <<raw, receives, hidden, record, requestVars, workerVars, historyVars>>

\* A creation, citizen update or patch publishes its event first ...
PublishSource(s) ==
  /\ s \notin published
  /\ published' = published \cup {s}
  /\ UNCHANGED <<queueVars, record, current, noted, workerVars, historyVars>>

\* ... and then records its messageId on CURRENT, unless it dies before.
NoteSource(s) ==
  /\ s \in published \ noted
  /\ noted' = noted \cup {s}
  /\ current' = [current EXCEPT !.source = s]
  /\ UNCHANGED <<queueVars, record, published, workerVars, historyVars>>

\* A staff command changes the request.
StaffWrites ==
  /\ current.version < MaxVersion
  /\ current.stage # "terminal"
  /\ \E s \in Stage :
       /\ current.stage = "working" => s # "waiting"
       /\ current' = [version |-> current.version + 1, stage |-> s,
                      source |-> current.source, mission |-> current.mission]
  /\ UNCHANGED <<queueVars, record, published, noted, workerVars, historyVars>>

Visible(m) == place[m] = "queued" /\ hidden[m] <= 0

BugNoRedrive(m) == FALSE

\* The redrive policy takes the message away from the consumer.
Exhausted(m) == receives[m] >= MaxReceives

ReceivedAgain(m) == IF receives[m] < MaxReceives THEN receives[m] + 1 ELSE receives[m]

\* Lambda polls a queue and invokes its consumer with a batch.
Receive(i) ==
  \E B \in SUBSET {m \in Message : Visible(m) /\ ~Exhausted(m)} :
    /\ pc[i] = "idle"
    /\ B # {}
    /\ Cardinality(B) <= BatchSize
    /\ \A m, n \in B : raw[m].kind = raw[n].kind
    /\ pc' = [pc EXCEPT ![i] = "next"]
    /\ batch' = [batch EXCEPT ![i] = B]
    /\ todo' = [todo EXCEPT ![i] = B]
    /\ left' = [left EXCEPT ![i] = RunTime]
    /\ receives' = [m \in Message |-> IF m \in B THEN ReceivedAgain(m) ELSE receives[m]]
    /\ hidden' = [m \in Message |-> IF m \in B THEN Visibility ELSE hidden[m]]
    /\ UNCHANGED <<raw, place, record, requestVars, on, failed, job, historyVars>>

DeadLetter(m) ==
  /\ Visible(m)
  /\ Exhausted(m)
  /\ place' = [place EXCEPT ![m] = "dead"]
  /\ hidden' = [hidden EXCEPT ![m] = 0]
  /\ UNCHANGED <<raw, receives, record, requestVars, workerVars, historyVars>>

-----------------------------------------------------------------------------
(* One record of the batch.                                                *)

Expired(r) == r.status = "IN_PROGRESS" /\ r.left = 0

BugReclaimAnyLock(m) ==
  \/ record[Id(m)].status = "ABSENT"
  \/ record[Id(m)].body = raw[m] /\ record[Id(m)].status # "COMPLETED"

\* check_and_reserve lets the record in.
Claimable(m) ==
  LET r == record[Id(m)] IN
  \/ r.status = "ABSENT"
  \/ r.body = raw[m] /\ (r.status = "FAILED" \/ Expired(r))

\* check_and_reserve answers "duplicate".
Replayable(m) == record[Id(m)].status = "COMPLETED" /\ record[Id(m)].body = raw[m]

Locked(i, m) ==
  [status |-> "IN_PROGRESS", holder |-> i, left |-> LockTime, body |-> raw[m]]

\* A call to AWS raises, or an invocation dies.
Fault == faults < MaxFaults /\ faults' = faults + 1

\* parse_*_record, _validate_message and check_and_reserve.  The record fails
\* when it is invalid, when its key is locked or was used for another body, or
\* when a call raises, be it after the key was locked.
Begin(i) ==
  \E m \in todo[i] :
    /\ pc[i] = "next"
    /\ todo' = [todo EXCEPT ![i] = @ \ {m}]
    /\ \/ /\ Valid(m) /\ Replayable(m)
          /\ UNCHANGED <<record, pc, on, failed, abandoned, faults>>
       \/ /\ Valid(m) /\ Claimable(m)
          /\ record' = [record EXCEPT ![Id(m)] = Locked(i, m)]
          /\ \/ /\ pc' = [pc EXCEPT ![i] = "read"]
                /\ on' = [on EXCEPT ![i] = m]
                /\ abandoned' = abandoned \ {Id(m)}
                /\ UNCHANGED <<failed, faults>>
             \/ /\ Fault
                /\ failed' = [failed EXCEPT ![i] = @ \cup {m}]
                /\ abandoned' = abandoned \cup {Id(m)}
                /\ UNCHANGED <<pc, on>>
       \/ /\ (~(Valid(m) /\ (Replayable(m) \/ Claimable(m))) /\ UNCHANGED faults) \/ Fault
          /\ failed' = [failed EXCEPT ![i] = @ \cup {m}]
          /\ UNCHANGED <<record, pc, on, abandoned>>
    /\ UNCHANGED <<queueVars, requestVars, batch, left, job, applied, raised, orphaned, skipped>>

\* The message belongs to the request as it is now.
Fits(m) ==
  IF raw[m].kind = "evaluation" THEN current.source = Correlation(m) ELSE raw[m].fits

\* STATUS_MAP, on stages.
MissionStage(m) ==
  CASE raw[m].status = "EN_ROUTE" -> "working"
    [] raw[m].status = "RESOLVED" -> "terminal"
    [] OTHER                      -> current.stage

\* A result always appends an event; a mission does when it changes the status,
\* and else only amends the snapshot.
Decision(m) ==
  IF raw[m].kind = "evaluation"
  THEN [version |-> current.version, event |-> TRUE, stage |-> current.stage, wrote |-> FALSE]
  ELSE [version |-> current.version, event |-> MissionStage(m) # current.stage,
        stage |-> MissionStage(m), wrote |-> FALSE]

\* get_current_state and the checks on it.  It may raise.
ReadCurrent(i) ==
  LET m == on[i] IN
  /\ pc[i] = "read"
  /\ \/ /\ (~Fits(m) /\ UNCHANGED faults) \/ Fault
        /\ pc' = [pc EXCEPT ![i] = "abort"]
        /\ UNCHANGED <<job, skipped>>
     \/ /\ Fits(m)
        /\ current.stage = "terminal"
        /\ pc' = [pc EXCEPT ![i] = "commit"]
        /\ skipped' = skipped \cup {Id(m)}
        /\ UNCHANGED <<job, faults>>
     \/ /\ Fits(m)
        /\ current.stage # "terminal"
        /\ pc' = [pc EXCEPT ![i] = "write"]
        /\ job' = [job EXCEPT ![i] = Decision(m)]
        /\ UNCHANGED <<skipped, faults>>
  /\ UNCHANGED <<queueVars, record, requestVars, batch, todo, on, failed, left,
                 applied, raised, orphaned, abandoned>>

Updated(i) ==
  [version |-> IF job[i].event THEN current.version + 1 ELSE current.version,
   stage   |-> job[i].stage,
   source  |-> current.source,
   mission |-> IF raw[on[i]].kind = "mission" THEN on[i] ELSE current.mission]

Count(h, i) == [h EXCEPT ![Id(on[i])] = @ + 1]

\* append_event_and_update_current or update_current_fields, on condition of the
\* version that was read.  It may raise although it took effect.
WriteCurrent(i) ==
  /\ pc[i] = "write"
  /\ \/ /\ current.version = job[i].version
        /\ current' = Updated(i)
        /\ applied' = Count(applied, i)
        /\ \/ /\ pc' = [pc EXCEPT ![i] = "commit"]
              /\ job' = [job EXCEPT ![i].wrote = TRUE]
              /\ UNCHANGED <<raised, faults>>
           \/ /\ Fault
              /\ pc' = [pc EXCEPT ![i] = "abort"]
              /\ raised' = Count(raised, i)
              /\ UNCHANGED job
     \/ /\ (current.version # job[i].version /\ UNCHANGED faults) \/ Fault
        /\ pc' = [pc EXCEPT ![i] = "abort"]
        /\ UNCHANGED <<current, job, applied, raised>>
  /\ UNCHANGED <<queueVars, record, published, noted, batch, todo, on, failed, left,
                 orphaned, skipped, abandoned>>

\* The condition of both finalizations.
Owns(i) ==
  /\ record[Id(on[i])].status = "IN_PROGRESS"
  /\ record[Id(on[i])].holder = i

\* The lock means nothing once the record is finalized.
Finalized(i, status) ==
  [status |-> status, holder |-> None, left |-> 0, body |-> record[Id(on[i])].body]

Finalize(i, status) ==
  record' = IF Owns(i) THEN [record EXCEPT ![Id(on[i])] = Finalized(i, status)] ELSE record

\* What the finished record leaves in the invocation.
EndRecord(i) ==
  /\ pc' = [pc EXCEPT ![i] = "next"]
  /\ on' = [on EXCEPT ![i] = None]
  /\ job' = [job EXCEPT ![i] = NoJob]

\* finalize_success.  If it raises, with or without effect, the failure is
\* finalized and the record fails.
Commit(i) ==
  /\ pc[i] = "commit"
  /\ \/ /\ Finalize(i, "COMPLETED")
        /\ EndRecord(i)
        /\ UNCHANGED <<raised, faults>>
     \/ /\ Fault
        /\ Finalize(i, "COMPLETED") \/ UNCHANGED record
        /\ pc' = [pc EXCEPT ![i] = "abort"]
        /\ raised' = IF job[i].wrote THEN Count(raised, i) ELSE raised
        /\ UNCHANGED <<on, job>>
  /\ UNCHANGED <<queueVars, requestVars, batch, todo, failed, left,
                 applied, orphaned, skipped, abandoned>>

BugNoFinalizeFailure(i) == UNCHANGED <<record, abandoned, faults>>

\* finalize_failure, which may raise in turn.
RecordFailure(i) ==
  \/ /\ Finalize(i, "FAILED")
     /\ UNCHANGED <<abandoned, faults>>
  \/ /\ Fault
     /\ UNCHANGED record
     /\ abandoned' = abandoned \cup {Id(on[i])}

Abort(i) ==
  /\ pc[i] = "abort"
  /\ RecordFailure(i)
  /\ failed' = [failed EXCEPT ![i] = @ \cup {on[i]}]
  /\ EndRecord(i)
  /\ UNCHANGED <<queueVars, requestVars, batch, todo, left, applied, raised, orphaned, skipped>>

-----------------------------------------------------------------------------
(* The end of an invocation, and time.                                     *)

Leave(i) ==
  /\ pc' = [pc EXCEPT ![i] = "idle"]
  /\ batch' = [batch EXCEPT ![i] = {}]
  /\ todo' = [todo EXCEPT ![i] = {}]
  /\ on' = [on EXCEPT ![i] = None]
  /\ failed' = [failed EXCEPT ![i] = {}]
  /\ left' = [left EXCEPT ![i] = 0]
  /\ job' = [job EXCEPT ![i] = NoJob]

BugDeleteWholeBatch(i) == batch[i]

\* What is not in batchItemFailures.
Succeeded(i) == batch[i] \ failed[i]

\* The handler returns batchItemFailures and Lambda deletes the rest.
Return(i) ==
  /\ pc[i] = "next"
  /\ todo[i] = {}
  /\ place' = [m \in Message |-> IF m \in Succeeded(i) THEN "deleted" ELSE place[m]]
  /\ hidden' = [m \in Message |-> IF m \in Succeeded(i) THEN 0 ELSE hidden[m]]
  /\ Leave(i)
  /\ UNCHANGED <<raw, receives, record, requestVars, historyVars>>

\* The invocation dies or is stopped: nothing is reported, and the whole batch
\* becomes visible again.
Crash(i) ==
  /\ i \in Running
  /\ Fault
  /\ Leave(i)
  /\ orphaned' = IF pc[i] = "commit" /\ job[i].wrote THEN Count(orphaned, i) ELSE orphaned
  /\ abandoned' = IF i \in Working THEN abandoned \cup {Id(on[i])} ELSE abandoned
  /\ UNCHANGED <<queueVars, record, requestVars, applied, raised, skipped>>

OneLess(n) == IF n > 0 THEN n - 1 ELSE n

\* No invocation outlives its timeout, and no visible message waits longer than
\* Patience for the next poll.
Tick ==
  /\ \A i \in Running : left[i] > 0
  /\ \A m \in Message : place[m] = "queued" => hidden[m] > -Patience
  /\ hidden' = [m \in Message |-> IF place[m] = "queued" THEN hidden[m] - 1 ELSE hidden[m]]
  /\ left' = [i \in Invocation |-> OneLess(left[i])]
  /\ record' = [k \in Key |-> [status |-> record[k].status, holder |-> record[k].holder,
                              left |-> OneLess(record[k].left), body |-> record[k].body]]
  /\ UNCHANGED <<raw, place, receives, requestVars, pc, batch, todo, on, failed, job, historyVars>>

Step(i) ==
  Begin(i) \/ ReadCurrent(i) \/ WriteCurrent(i) \/ Commit(i) \/ Abort(i) \/ Return(i)

Next ==
  \/ \E m \in Message : Send(m) \/ DeadLetter(m)
  \/ \E s \in Source : PublishSource(s) \/ NoteSource(s)
  \/ StaffWrites
  \/ \E i \in Invocation : Receive(i) \/ Step(i) \/ Crash(i)
  \/ Tick

Spec == Init /\ [][Next]_vars

\* Queues are polled and redriven, a running invocation is scheduled and time
\* passes; nobody has to send, publish, record, or die.
FairSpec ==
  /\ Spec
  /\ \A i \in Invocation : WF_vars(Step(i))
  /\ WF_vars(\E i \in Invocation : Receive(i))
  /\ WF_vars(\E m \in Message : DeadLetter(m))
  /\ WF_vars(Tick)

-----------------------------------------------------------------------------
(* Properties.                                                             *)

\* Every variable keeps its type (template.yaml, RescuePrioritizationEvaluatedQueue
\* and MissionStatusChangedQueue; idempotency_service.py:176-192).
TypeOK ==
  /\ raw \in [Message -> Raw]
  /\ place \in [Message -> Place]
  /\ receives \in [Message -> Nat]
  /\ hidden \in [Message -> Int]
  /\ record \in [Key -> Record]
  /\ current \in Current
  /\ published \in SUBSET Source
  /\ noted \in SUBSET Source
  /\ pc \in [Invocation -> PC]
  /\ batch \in [Invocation -> SUBSET Message]
  /\ todo \in [Invocation -> SUBSET Message]
  /\ on \in [Invocation -> Message \cup {None}]
  /\ failed \in [Invocation -> SUBSET Message]
  /\ left \in [Invocation -> Nat]
  /\ job \in [Invocation -> Job]
  /\ applied \in [Key -> Nat]
  /\ raised \in [Key -> Nat]
  /\ orphaned \in [Key -> Nat]
  /\ faults \in Nat
  /\ skipped \in SUBSET Key
  /\ abandoned \in SUBSET Key

\* A result or mission update is written twice only if an invocation that wrote
\* it saw an error or died before finalize_success: redeliveries, copies of the
\* message, other records of the batch and reclaimed locks never do it
\* (ingest_rescue_request_evaluation.py:36-48, ingest_mission_status_changed.py:41-57).
\* Holds when RunTime < LockTime.
AppliedOnce == \A k \in Key : applied[k] <= 1 + raised[k] + orphaned[k]

\* With queues polled promptly, the death of an invocation alone never makes a
\* message apply twice: its receives are used up before the lock of the dead
\* one expires, and it ends in the dead-letter queue (template.yaml:167-170 and
\* _LOCK_TIMEOUT_MINUTES).  Holds when (MaxReceives - 1) * (Visibility + Patience)
\* + RunTime < LockTime, for a key that only one message carries.
CrashIsNotRepeated ==
  \A m \in Message :
    (\A n \in Message : Id(n) = Id(m) => n = m) =>
      applied[Id(m)] <= 1 + raised[Id(m)]

\* A message leaves its queue for good only with its outcome stored under its
\* key for exactly its content, and that outcome is a write to the request or a
\* request found terminal; a failing or dying neighbour in the batch changes
\* nothing about it (ingest_rescue_request_evaluations.py:47-117).
DeletedIsDone ==
  \A m \in Message :
    place[m] = "deleted" =>
      /\ record[Id(m)].status = "COMPLETED"
      /\ record[Id(m)].body = raw[m]
      /\ applied[Id(m)] > 0 \/ Id(m) \in skipped

\* A redelivery is refused as in progress only while an invocation works on the
\* key, or after one died, or got no answer, while it held it: unlike the HTTP
\* use cases the consumers finalize every failure
\* (ingest_rescue_request_evaluation.py:168-176).
LockHasReason ==
  \A k \in Key :
    record[k].status = "IN_PROGRESS" =>
      \/ k \in abandoned
      \/ \E i \in Working : Id(on[i]) = k /\ record[k].holder = i

\* Every message that is sent is at some time done or in the dead-letter queue,
\* whatever fails (template.yaml:167-170 and 228-231).
EveryMessageSettles ==
  \A m \in Message : place[m] = "queued" ~> place[m] \in {"deleted", "dead"}
=============================================================================
