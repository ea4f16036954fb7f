----------------------- MODULE RequestLifecycleProofs -----------------------
(***************************************************************************)
(* Proofs about RequestLifecycle, for any number of invocations, units,    *)
(* scores and source events.  What is said of the snapshot alone holds     *)
(* with and without transactions; what is said of the history needs them   *)
(* (KeyTypeErrors = FALSE), and the counterexample of EventsAppendOnly     *)
(* shows that it does.                                                     *)
(***************************************************************************)
EXTENDS RequestLifecycleRefinement, SequenceTheorems, TLAPS

-----------------------------------------------------------------------------
(* Type correctness.                                                       *)

\* Between a decision to append and the append, a writer holds a status to move
\* to, and a version the model may still exceed once the store was asked.
AppendJobs ==
  \A w \in Writer :
    /\ pc[w] \in {"append", "put", "update"} =>
         job[w].from \in Status /\ job[w].to \in Status /\ job[w].version \in Version
    /\ pc[w] \in {"put", "update"} => job[w].version < MaxVersion

TInv == TypeOK /\ AppendJobs

LEMMA TInvInit == Init => TInv
BY ConstantsAssumption
   DEF Init, TInv, TypeOK, AppendJobs, FirstSnapshot, FirstEvent, NoEvent, NoJob, Current,
       Event, Job, Version, Status, PC, Kind

\* The statuses a writer may decide on.
LEMMA TargetType ==
  ASSUME NEW s \in Status
  PROVE  /\ AllowedTransitions[s] \subseteq Status
         /\ IngestedStatus(s) \in Status
         /\ \A ms \in MissionStatus : MissionTarget(ms, s) \in Status
BY DEF AllowedTransitions, IngestedStatus, MissionTarget, MissionStatus, Status

\* A job decided on a well-typed snapshot is well-typed.
LEMMA JobOnType ==
  ASSUME TypeOK, NEW k \in Kind
  PROVE  JobOn(current, k) \in Job
<1>1. current.status \in Status /\ current.version \in Nat
  BY ConstantsAssumption DEF TypeOK, Current, Version
<1>2. NoJob \in Job
  BY DEF NoJob, Job, Kind
<1>3. [NoJob EXCEPT !.kind = k, !.version = current.version] \in Job
  BY <1>1, <1>2 DEF Job
<1> QED
  BY <1>1, <1>3 DEF JobOn, Job

\* Taking a decision keeps the types.
LEMMA DecideType ==
  ASSUME TInv, NEW w \in Writer, NEW next \in {"append", "write"}, NEW j \in Job,
         Decide(w, next, j), UNCHANGED <<current, events>>, sent' \in SUBSET Source,
         next = "append" => j.from \in Status /\ j.to \in Status /\ j.version \in Version
  PROVE  TInv'
<1>1. /\ pc' = [pc EXCEPT ![w] = next]
      /\ job' = [job EXCEPT ![w] = j]
  BY DEF Decide
<1>2. TypeOK'
  BY <1>1 DEF TInv, TypeOK, PC
<1>3. AppendJobs'
  BY <1>1 DEF TInv, TypeOK, AppendJobs
<1> QED
  BY <1>2, <1>3 DEF TInv

\* Every kind of decision keeps the types.
LEMMA ReadType ==
  ASSUME TInv, NEW w \in Writer, Read(w)
  PROVE  TInv'
<1> DEFINE Base(k) == JobOn(current, k)
<1>1. /\ current \in Current /\ current.status \in Status /\ current.version \in Version
      /\ sent \in SUBSET Source
  BY DEF TInv, TypeOK, Current
<1>2. \A k \in Kind : /\ Base(k) \in Job
                      /\ Base(k).from = current.status
                      /\ Base(k).to = current.status
                      /\ Base(k).version = current.version
  BY <1>1, JobOnType DEF TInv, JobOn, NoJob
<1>3. CASE Transition(w)
  <2>1. PICK target \in Status, unit \in Unit \cup {None}, score \in Score \cup {None} :
          Decide(w, "append",
            [Base("staff") EXCEPT !.to = target, !.unit = unit, !.score = score])
    BY <1>3 DEF Transition
  <2> DEFINE j == [Base("staff") EXCEPT !.to = target, !.unit = unit, !.score = score]
  <2>2. j \in Job /\ j.from \in Status /\ j.to \in Status /\ j.version \in Version
    BY <1>1, <1>2 DEF Job, Kind
  <2> QED
    BY <1>1, <1>3, <2>1, <2>2, DecideType DEF Transition
<1>4. CASE IngestEvaluation(w)
  <2>1. PICK m \in sent, score \in Score :
          Decide(w, "append",
            [Base("evaluate") EXCEPT
               !.to = IngestedStatus(current.status), !.score = score, !.source = m])
    BY <1>4 DEF IngestEvaluation
  <2> DEFINE j == [Base("evaluate") EXCEPT
                     !.to = IngestedStatus(current.status), !.score = score, !.source = m]
  <2>2. j \in Job /\ j.from \in Status /\ j.to \in Status /\ j.version \in Version
    BY <1>1, <1>2, TargetType DEF Job, Kind
  <2> QED
    BY <1>1, <1>4, <2>1, <2>2, DecideType DEF IngestEvaluation
<1>5. CASE IngestMission(w)
  <2>1. PICK ms \in MissionStatus, team \in Unit :
          \/ Decide(w, "append",
               [[Base("mission") EXCEPT !.mission = ms] EXCEPT
                  !.to = MissionTarget(ms, current.status), !.unit = team])
          \/ Decide(w, "write", [Base("mission") EXCEPT !.mission = ms])
    BY <1>5 DEF IngestMission
  <2> DEFINE j == [Base("mission") EXCEPT !.mission = ms]
             k == [j EXCEPT !.to = MissionTarget(ms, current.status), !.unit = team]
  <2>2. j \in Job /\ j.from \in Status /\ j.version \in Version
    BY <1>1, <1>2 DEF Job, Kind
  <2>3. k \in Job /\ k.from \in Status /\ k.to \in Status /\ k.version \in Version
    BY <1>1, <2>2, TargetType DEF Job
  <2> HIDE DEF j, k
  <2> QED
    BY <1>1, <1>5, <2>1, <2>2, <2>3, DecideType DEF IngestMission, j, k
<1>6. CASE UpdatePriority(w)
  <2>1. PICK score \in Score \cup {None}, g \in BOOLEAN :
          Decide(w, "write", [Base("priority") EXCEPT !.score = score, !.guarded = g])
    BY <1>6 DEF UpdatePriority
  <2>2. [Base("priority") EXCEPT !.score = score, !.guarded = g] \in Job
    BY <1>2 DEF Job, Kind
  <2> QED
    BY <1>1, <1>6, <2>1, <2>2, DecideType DEF UpdatePriority
<1>7. CASE PublishSource(w)
  <2>1. PICK m \in Source \ sent :
          /\ sent' = sent \cup {m}
          /\ Decide(w, "write", [NoJob EXCEPT !.kind = "source", !.source = m])
    BY <1>7 DEF PublishSource
  <2>2. [NoJob EXCEPT !.kind = "source", !.source = m] \in Job
    BY DEF NoJob, Job, Kind
  <2> QED
    BY <1>1, <1>7, <2>1, <2>2, DecideType DEF PublishSource
<1> QED
  BY <1>3, <1>4, <1>5, <1>6, <1>7 DEF Read

\* Fields a job sets, or leaves as they are, keep their types.
LEMMA MergedType ==
  ASSUME TypeOK, NEW w \in Writer
  PROVE  /\ OrElse(job[w].unit, current.unit) \in Unit \cup {None}
         /\ OrElse(job[w].score, current.score) \in Score \cup {None}
         /\ OrElse(job[w].source, current.source) \in Source \cup {None}
         /\ OrElse(job[w].source, current.correlation) \in Source \cup {None}
         /\ OrElse(job[w].mission, current.mission) \in MissionStatus \cup {None}
BY DEF TypeOK, OrElse, Current, Job

\* What an append writes is an event and a snapshot.
LEMMA AdvancedType ==
  ASSUME TypeOK, NEW w \in Writer, job[w].from \in Status, job[w].to \in Status,
         job[w].version \in Version, job[w].version < MaxVersion
  PROVE  /\ Advanced(w) \in Current
         /\ EventOf(w) \in Event
         /\ job[w].version + 1 \in Version
<1>1. job[w].version + 1 \in Version
  BY ConstantsAssumption DEF Version
<1>2. EventOf(w) \in Event
  BY DEF EventOf, Event
<1> QED
  BY <1>1, <1>2, MergedType DEF TypeOK, Advanced, Current

LEMMA AmendedType ==
  ASSUME TypeOK, NEW w \in Writer
  PROVE  Amended(w) \in Current
<1>1. (IF job[w].kind = "priority" THEN job[w].score ELSE current.score) \in Score \cup {None}
  BY DEF TypeOK, Current, Job
<1> QED
  BY <1>1, MergedType DEF TypeOK, Amended, Current

\* Leaving keeps the types.
LEMMA LeaveType ==
  ASSUME TInv, NEW w \in Writer, Leave(w), current' \in Current,
         events' \in [Version -> Event \cup {NoEvent}], UNCHANGED sent
  PROVE  TInv'
<1>1. TypeOK'
  BY DEF TInv, TypeOK, Leave, PC, NoJob, Job, Kind
<1>2. AppendJobs'
  BY DEF TInv, TypeOK, AppendJobs, Leave
<1> QED
  BY <1>1, <1>2 DEF TInv

\* Moving on with the same job keeps the types.
LEMMA AdvanceType ==
  ASSUME TInv, NEW w \in Writer, NEW next \in PC, pc' = [pc EXCEPT ![w] = next],
         current' \in Current, events' \in [Version -> Event \cup {NoEvent}],
         UNCHANGED <<sent, job>>,
         pc[w] \in {"append", "put", "update"}, next # "append",
         job[w].version < MaxVersion
  PROVE  TInv'
<1>1. TypeOK'
  BY DEF TInv, TypeOK
<1>2. AppendJobs'
  BY DEF TInv, TypeOK, AppendJobs
<1> QED
  BY <1>1, <1>2 DEF TInv

\* Every step keeps the types.
LEMMA TInvStep == TInv /\ [Next]_vars => TInv'
<1> SUFFICES ASSUME TInv, [Next]_vars PROVE TInv'
  OBVIOUS
<1> TypeOK /\ AppendJobs
  BY DEF TInv
<1> current \in Current /\ events \in [Version -> Event \cup {NoEvent}]
  BY DEF TypeOK
<1>1. ASSUME NEW w \in Writer, Read(w) PROVE TInv'
  BY <1>1, ReadType
<1>2. ASSUME NEW w \in Writer, AppendEvent(w) PROVE TInv'
  <2>1. /\ pc[w] = "append" /\ job[w].version < MaxVersion
        /\ Advanced(w) \in Current /\ EventOf(w) \in Event /\ job[w].version + 1 \in Version
        /\ UNCHANGED sent
    BY <1>2, AdvancedType DEF AppendEvent, AppendJobs
  <2>2. CASE PutEvent(w) /\ current' = Advanced(w) /\ pc' = [pc EXCEPT ![w] = "report"]
             /\ UNCHANGED job
    BY <2>1, <2>2, AdvanceType DEF PutEvent, PC
  <2>3. CASE Leave(w) /\ UNCHANGED <<current, events>>
    BY <2>1, <2>3, LeaveType
  <2>4. CASE pc' = [pc EXCEPT ![w] = "put"] /\ UNCHANGED <<current, events, job>>
    BY <2>1, <2>4, AdvanceType DEF PC
  <2> QED
    BY <1>2, <2>2, <2>3, <2>4 DEF AppendEvent
<1>3. ASSUME NEW w \in Writer, FallbackPut(w) PROVE TInv'
  <2>1. /\ pc[w] = "put" /\ job[w].version < MaxVersion /\ EventOf(w) \in Event
        /\ UNCHANGED <<current, sent, job>>
    BY <1>3, AdvancedType DEF FallbackPut, AppendJobs
  <2>2. events' \in [Version -> Event \cup {NoEvent}]
    BY <1>3, <2>1 DEF FallbackPut, PutEvent
  <2>3. \E next \in {"update", "rollback"} : pc' = [pc EXCEPT ![w] = next]
    BY <1>3 DEF FallbackPut
  <2> QED
    BY <2>1, <2>2, <2>3, AdvanceType DEF PC
<1>4. ASSUME NEW w \in Writer, FallbackUpdate(w) PROVE TInv'
  <2>1. /\ pc[w] = "update" /\ job[w].version < MaxVersion /\ Advanced(w) \in Current
        /\ UNCHANGED <<events, sent, job>>
    BY <1>4, AdvancedType DEF FallbackUpdate, AppendJobs
  <2>2. current' \in Current
    BY <1>4, <2>1 DEF FallbackUpdate
  <2>3. \E next \in {"report", "rollback"} : pc' = [pc EXCEPT ![w] = next]
    BY <1>4 DEF FallbackUpdate
  <2> QED
    BY <2>1, <2>2, <2>3, AdvanceType DEF PC
<1>5. ASSUME NEW w \in Writer, FallbackRollback(w) PROVE TInv'
  BY <1>5, LeaveType DEF FallbackRollback
<1>6. ASSUME NEW w \in Writer, Amend(w) PROVE TInv'
  BY <1>6, LeaveType, AmendedType DEF Amend
<1>7. ASSUME NEW w \in Writer, Report(w) \/ Crash(w) PROVE TInv'
  BY <1>7, LeaveType DEF Report, Crash
<1>8. CASE UNCHANGED vars
  BY <1>8 DEF vars, TInv, TypeOK, AppendJobs
<1> QED
  BY <1>1, <1>2, <1>3, <1>4, <1>5, <1>6, <1>7, <1>8 DEF Next, Store

\* Every variable keeps its type (rescue_request_repository.py:502-656 and the
\* five readers).
THEOREM TypeCorrect == Spec => []TypeOK
<1>1. TInv => TypeOK
  BY DEF TInv
<1> QED
  BY <1>1, TInvInit, TInvStep, PTL DEF Spec

-----------------------------------------------------------------------------
(* The snapshot, with and without transactions.                            *)

\* A write that is on condition of the version it read.
Conditional(w) ==
  pc[w] \in {"append", "put", "update"} \/ (pc[w] = "write" /\ job[w].guarded)

\* stateVersion identifies the status: a writer whose version is still current
\* read the status that is still current, and it was not terminal.
VersionIdentifies ==
  \A w \in Writer : Conditional(w) =>
    /\ job[w].version <= current.version
    /\ job[w].version = current.version => job[w].from = current.status
    /\ job[w].from \notin Terminal

\* A write without that condition carries no mission metadata.
UnconditionalIsPartial ==
  \A w \in Writer : pc[w] = "write" /\ ~job[w].guarded => job[w].mission = None

\* Who moves a request to a manned state names the unit, or found it manned.
UnitIsNamed ==
  \A w \in Writer :
    pc[w] \in {"append", "put", "update"} /\ job[w].to \in Manned =>
      job[w].unit # None \/ job[w].from \in Manned

SInv == VersionIdentifies /\ UnconditionalIsPartial /\ UnitIsNamed /\ AssignedHasUnit

LEMMA SInvInit == Init => SInv
BY DEF Init, SInv, VersionIdentifies, UnconditionalIsPartial, UnitIsNamed, AssignedHasUnit,
       Conditional, FirstSnapshot, Manned

\* A decision is sound when the job is.
LEMMA DecideSnapshot ==
  ASSUME TInv, SInv, NEW w \in Writer, NEW next \in {"append", "write"}, NEW j,
         Decide(w, next, j), UNCHANGED current,
         next = "append" \/ j.guarded =>
           j.version = current.version /\ j.from = current.status /\ j.from \notin Terminal,
         next = "write" /\ ~j.guarded => j.mission = None,
         next = "append" /\ j.to \in Manned => j.unit # None \/ j.from \in Manned
  PROVE  SInv'
<1>1. /\ pc' = [pc EXCEPT ![w] = next] /\ pc'[w] = next
      /\ job' = [job EXCEPT ![w] = j] /\ job'[w] = j
      /\ \A x \in Writer \ {w} : pc'[x] = pc[x] /\ job'[x] = job[x]
  BY DEF Decide, TInv, TypeOK
<1>2. current.version \in Nat
  BY ConstantsAssumption DEF TInv, TypeOK, Current, Version
<1>3. VersionIdentifies'
  BY <1>1, <1>2 DEF SInv, VersionIdentifies, Conditional
<1>4. UnconditionalIsPartial' /\ UnitIsNamed'
  BY <1>1 DEF SInv, UnconditionalIsPartial, UnitIsNamed
<1>5. AssignedHasUnit'
  BY DEF SInv, AssignedHasUnit
<1> QED
  BY <1>3, <1>4, <1>5 DEF SInv

\* Every kind of decision is sound.
LEMMA ReadSnapshot ==
  ASSUME TInv, SInv, NEW w \in Writer, Read(w)
  PROVE  SInv'
<1> DEFINE Base(k) == JobOn(current, k)
<1>1. \A k : /\ Base(k) = [NoJob EXCEPT !.kind = k, !.version = current.version,
                               !.from = current.status, !.to = current.status,
                               !.guarded = TRUE]
              /\ Base(k).version = current.version
              /\ Base(k).from = current.status
              /\ Base(k).to = current.status
              /\ Base(k).guarded
              /\ Base(k).mission = None
  BY DEF JobOn, NoJob
<1>2. current.status \in Status
  BY DEF TInv, TypeOK, Current
<1>3. CASE Transition(w)
  <2>1. PICK target \in AllowedTransitions[current.status], unit \in Unit \cup {None},
             score \in Score \cup {None}, hasReason \in BOOLEAN :
          /\ RequirementsMet(target, unit, hasReason)
          /\ Decide(w, "append",
               [Base("staff") EXCEPT !.to = target, !.unit = unit, !.score = score])
    BY <1>3 DEF Transition
  <2>2. current.status \notin Terminal
    BY <1>2, <2>1 DEF AllowedTransitions, Status, Terminal
  <2>3. target \in Manned => unit # None \/ current.status \in Manned
    BY <1>2, <2>1 DEF AllowedTransitions, Status, Manned, RequirementsMet
  <2> DEFINE j == [Base("staff") EXCEPT !.to = target, !.unit = unit, !.score = score]
  <2>4. /\ j.version = current.version /\ j.from = current.status
        /\ j.to = target /\ j.unit = unit
    BY DEF JobOn, NoJob
  <2> HIDE DEF j
  <2> QED
    BY <1>3, <2>1, <2>2, <2>3, <2>4, DecideSnapshot DEF Transition, j
<1>4. CASE IngestEvaluation(w)
  <2>1. PICK m \in sent, score \in Score :
          Decide(w, "append",
            [Base("evaluate") EXCEPT
               !.to = IngestedStatus(current.status), !.score = score, !.source = m])
    BY <1>4 DEF IngestEvaluation
  <2> DEFINE j == [Base("evaluate") EXCEPT
                     !.to = IngestedStatus(current.status), !.score = score, !.source = m]
  <2>2. /\ j.version = current.version /\ j.from = current.status
        /\ j.to = IngestedStatus(current.status)
    BY DEF JobOn, NoJob
  <2>3. IngestedStatus(current.status) \in Manned => current.status \in Manned
    BY DEF IngestedStatus, Manned
  <2> HIDE DEF j
  <2> QED
    BY <1>4, <2>1, <2>2, <2>3, DecideSnapshot DEF IngestEvaluation, j
<1>5. CASE IngestMission(w)
  <2>1. PICK ms \in MissionStatus, team \in Unit :
          \/ Decide(w, "append",
               [[Base("mission") EXCEPT !.mission = ms] EXCEPT
                  !.to = MissionTarget(ms, current.status), !.unit = team])
          \/ Decide(w, "write", [Base("mission") EXCEPT !.mission = ms])
    BY <1>5 DEF IngestMission
  <2> DEFINE j == [Base("mission") EXCEPT !.mission = ms]
             k == [j EXCEPT !.to = MissionTarget(ms, current.status), !.unit = team]
  <2>2. /\ j.version = current.version /\ j.from = current.status /\ j.guarded
        /\ k.version = current.version /\ k.from = current.status /\ k.unit = team
    BY DEF JobOn, NoJob
  <2>3. team # None /\ current.status \notin Terminal
    BY <1>5, ConstantsAssumption DEF IngestMission
  <2> HIDE DEF j, k
  <2> QED
    BY <1>5, <2>1, <2>2, <2>3, DecideSnapshot DEF IngestMission, j, k
<1>6. CASE UpdatePriority(w)
  <2>1. PICK score \in Score \cup {None}, g \in BOOLEAN :
          Decide(w, "write", [Base("priority") EXCEPT !.score = score, !.guarded = g])
    BY <1>6 DEF UpdatePriority
  <2> DEFINE j == [Base("priority") EXCEPT !.score = score, !.guarded = g]
  <2>2. j.version = current.version /\ j.from = current.status /\ j.mission = None
    BY DEF JobOn, NoJob
  <2> HIDE DEF j
  <2> QED
    BY <1>6, <2>1, <2>2, DecideSnapshot DEF UpdatePriority, j
<1>7. CASE PublishSource(w)
  <2>1. PICK m \in Source : Decide(w, "write", [NoJob EXCEPT !.kind = "source", !.source = m])
    BY <1>7 DEF PublishSource
  <2> DEFINE j == [NoJob EXCEPT !.kind = "source", !.source = m]
  <2>2. j.guarded = FALSE /\ j.mission = None
    BY DEF NoJob
  <2> HIDE DEF j
  <2> QED
    BY <1>7, <2>1, <2>2, DecideSnapshot DEF PublishSource, j
<1> QED
  BY <1>3, <1>4, <1>5, <1>6, <1>7 DEF Read

\* A step of w that leaves status, version and unit of the snapshot alone and
\* keeps w on the way of its append, or ends it, is sound.
LEMMA SameSnapshot ==
  ASSUME TInv, SInv, NEW w \in Writer,
         current'.status = current.status, current'.version = current.version,
         current'.unit = current.unit,
         \A x \in Writer \ {w} : pc'[x] = pc[x] /\ job'[x] = job[x],
         \/ pc'[w] \in {"idle", "rollback", "report"}
         \/ /\ pc[w] \in {"append", "put", "update"}
            /\ pc'[w] \in {"put", "update"}
            /\ job'[w] = job[w]
  PROVE  SInv'
BY DEF SInv, VersionIdentifies, UnconditionalIsPartial, UnitIsNamed, AssignedHasUnit, Conditional

\* The write of an append: the version grows, so no other writer's version is
\* current any more.
LEMMA NewSnapshot ==
  ASSUME TInv, SInv, NEW w \in Writer, pc[w] \in {"append", "put", "update"},
         VersionHolds(w), current' = Advanced(w),
         pc'[w] \in {"rollback", "report"},
         \A x \in Writer \ {w} : pc'[x] = pc[x] /\ job'[x] = job[x]
  PROVE  SInv'
<1>1. /\ current'.status = job[w].to
      /\ current'.version = job[w].version + 1
      /\ current'.unit = OrElse(job[w].unit, current.unit)
      /\ job[w].version = current.version
      /\ job[w].from = current.status
  BY DEF Advanced, TInv, TypeOK, Current, VersionHolds, SInv, VersionIdentifies, Conditional
<1>2. current.version \in Nat /\ \A x \in Writer : job[x].version \in Nat
  BY ConstantsAssumption DEF TInv, TypeOK, Current, Version, Job
<1>3. VersionIdentifies'
  BY <1>1, <1>2 DEF SInv, VersionIdentifies, Conditional
<1>4. UnconditionalIsPartial' /\ UnitIsNamed'
  BY DEF SInv, UnconditionalIsPartial, UnitIsNamed
<1>5. AssignedHasUnit'
  BY <1>1 DEF SInv, UnitIsNamed, AssignedHasUnit, OrElse
<1> QED
  BY <1>3, <1>4, <1>5 DEF SInv

\* Every step keeps the invariant of the snapshot.
LEMMA SInvStep == TInv /\ SInv /\ [Next]_vars => SInv'
<1> SUFFICES ASSUME TInv, SInv, [Next]_vars PROVE SInv'
  OBVIOUS
<1> pc \in [Writer -> PC] /\ job \in [Writer -> Job] /\ current \in Current
  BY DEF TInv, TypeOK
<1>1. ASSUME NEW w \in Writer, Read(w) PROVE SInv'
  BY <1>1, ReadSnapshot
<1>2. ASSUME NEW w \in Writer, AppendEvent(w) PROVE SInv'
  <2>1. CASE CanAppend(w) /\ current' = Advanced(w) /\ pc' = [pc EXCEPT ![w] = "report"]
             /\ UNCHANGED job
    BY <1>2, <2>1, NewSnapshot DEF AppendEvent, CanAppend
  <2>2. CASE Leave(w) /\ UNCHANGED current
    BY <2>2, SameSnapshot DEF Leave
  <2>3. CASE pc' = [pc EXCEPT ![w] = "put"] /\ UNCHANGED <<current, job>>
    BY <1>2, <2>3, SameSnapshot DEF AppendEvent
  <2> QED
    BY <1>2, <2>1, <2>2, <2>3 DEF AppendEvent
<1>3. ASSUME NEW w \in Writer, FallbackPut(w) PROVE SInv'
  <2>1. \E next \in {"update", "rollback"} : pc' = [pc EXCEPT ![w] = next]
    BY <1>3 DEF FallbackPut
  <2> QED
    BY <1>3, <2>1, SameSnapshot DEF FallbackPut
<1>4. ASSUME NEW w \in Writer, FallbackUpdate(w) PROVE SInv'
  <2>1. pc[w] = "update" /\ UNCHANGED job
    BY <1>4 DEF FallbackUpdate
  <2>2. CASE VersionHolds(w) /\ current' = Advanced(w)
             /\ \E next \in {"report", "rollback"} : pc' = [pc EXCEPT ![w] = next]
    BY <2>1, <2>2, NewSnapshot
  <2>3. CASE pc' = [pc EXCEPT ![w] = "rollback"] /\ UNCHANGED current
    BY <2>1, <2>3, SameSnapshot
  <2> QED
    BY <1>4, <2>2, <2>3 DEF FallbackUpdate
<1>5. ASSUME NEW w \in Writer, FallbackRollback(w) PROVE SInv'
  BY <1>5, SameSnapshot DEF FallbackRollback, Leave
<1>6. ASSUME NEW w \in Writer, Amend(w) PROVE SInv'
  <2>1. /\ current'.status = current.status
        /\ current'.version = current.version
        /\ current'.unit = current.unit
    BY <1>6 DEF Amend, Amended, Current
  <2> QED
    BY <1>6, <2>1, SameSnapshot DEF Amend, Leave
<1>7. ASSUME NEW w \in Writer, Report(w) \/ Crash(w) PROVE SInv'
  BY <1>7, SameSnapshot DEF Report, Crash, Leave
<1>8. CASE UNCHANGED vars
  BY <1>8 DEF vars, SInv, VersionIdentifies, UnconditionalIsPartial, UnitIsNamed,
              AssignedHasUnit, Conditional
<1> QED
  BY <1>1, <1>2, <1>3, <1>4, <1>5, <1>6, <1>7, <1>8 DEF Next, Store

LEMMA SnapshotInvariant == Spec => [](TInv /\ SInv)
<1>1. Init => TInv /\ SInv
  BY TInvInit, SInvInit
<1>2. (TInv /\ SInv) /\ [Next]_vars => (TInv /\ SInv)'
  BY TInvStep, SInvStep
<1> QED
  BY <1>1, <1>2, PTL DEF Spec

\* A request somebody has to act on names who acts
\* (transition_rules.py:29-35, ingest_mission_status_changed.py:149-152), with
\* and without transactions.
THEOREM AssignedRequestsHaveUnits == Spec => []AssignedHasUnit
<1>1. SInv => AssignedHasUnit
  BY DEF SInv
<1> QED
  BY <1>1, SnapshotInvariant, PTL

\* No step moves a terminal request.
LEMMA TerminalStep ==
  ASSUME TInv, SInv, [Next]_vars, current.status \in Terminal
  PROVE  current' = [current EXCEPT !.score = current'.score, !.source = current'.source]
<1> current \in Current
  BY DEF TInv, TypeOK
<1>1. ASSUME NEW w \in Writer, pc[w] \in {"append", "put", "update"} PROVE ~VersionHolds(w)
  BY <1>1 DEF SInv, VersionIdentifies, Conditional, VersionHolds
<1>2. ASSUME NEW w \in Writer, Amend(w), current' = Amended(w)
      PROVE  current' = [current EXCEPT !.score = current'.score, !.source = current'.source]
  <2>1. job[w].guarded => ~VersionHolds(w)
    BY <1>2 DEF Amend, SInv, VersionIdentifies, Conditional, VersionHolds
  <2>2. CASE job[w].mission = None
    BY <1>2, <2>2 DEF Amended, OrElse, Current
  <2>3. CASE job[w].mission # None
    <3>1. ~CanAmend(w)
      BY <1>2, <2>1, <2>3 DEF Amend, CanAmend, SInv, UnconditionalIsPartial
    <3> QED
      BY <1>2, <3>1 DEF Amend, Current
  <2> QED
    BY <2>2, <2>3
<1>3. ASSUME NEW w \in Writer, Read(w) \/ Report(w) \/ Crash(w) PROVE current' = current
  BY <1>3 DEF Read, Transition, IngestEvaluation, IngestMission, UpdatePriority, PublishSource,
              Report, Crash
<1>4. ASSUME NEW w \in Writer, AppendEvent(w) \/ FallbackPut(w) \/ FallbackUpdate(w) \/ FallbackRollback(w)
      PROVE  current' = current
  BY <1>1, <1>4 DEF AppendEvent, CanAppend, FallbackPut, FallbackUpdate, FallbackRollback
<1>5. ASSUME NEW w \in Writer, Amend(w) PROVE current' = current \/ current' = Amended(w)
  BY <1>5 DEF Amend
<1>6. CASE current' = current
  BY <1>6 DEF Current
<1> QED
  BY <1>2, <1>3, <1>4, <1>5, <1>6 DEF Next, Store, vars

\* Once a request is terminal, only the two unconditional fields may change
\* (rescue_request_repository.py:529-532 and 643-646), with and without
\* transactions.
THEOREM TerminalRequestsFreeze == Spec => TerminalFreezes
<1>1. TInv /\ SInv /\ [Next]_vars =>
        [current.status \in Terminal =>
           current' = [current EXCEPT !.score = current'.score,
                                      !.source = current'.source]]_vars
  BY TerminalStep
<1> QED
  BY <1>1, SnapshotInvariant, PTL DEF Spec, TerminalFreezes

-----------------------------------------------------------------------------
(* The history, where transactions are used.                               *)

NoFallback == \A w \in Writer : pc[w] \notin {"put", "update", "rollback"}

\* An append that was carried out left its event below stateVersion.
ReportedIsKept ==
  \A w \in Writer : pc[w] = "report" =>
    /\ job[w].version + 1 \in Version
    /\ job[w].version + 1 <= current.version
    /\ events[job[w].version + 1] = EventOf(w)

HInv == NoFallback /\ HistoryAgrees /\ ReportedIsKept

LEMMA HInvInit == Init => HInv
<1> SUFFICES ASSUME Init PROVE HInv
  OBVIOUS
<1>1. NoFallback /\ ReportedIsKept
  BY DEF Init, NoFallback, ReportedIsKept
<1>2. /\ current.version = 1 /\ current.status = "SUBMITTED" /\ current.lastEvent = None
      /\ 1 \in Version
      /\ events[1] = FirstEvent
      /\ \A v \in Version \ {1} : events[v] = NoEvent
  BY ConstantsAssumption DEF Init, FirstSnapshot, Version
<1>3. FirstEvent # NoEvent
  BY ConstantsAssumption DEF FirstEvent, NoEvent, Status
<1>4. Contiguous
  BY <1>2, <1>3 DEF Contiguous, Version
<1>5. Chained /\ TerminalIsLast
  BY <1>2 DEF Chained, TerminalIsLast, Version
<1>6. SnapshotIsLast
  BY <1>2 DEF SnapshotIsLast, FirstEvent
<1> QED
  BY <1>1, <1>4, <1>5, <1>6 DEF HInv, HistoryAgrees

\* What the history invariant says depends on the events, on the last event's
\* place in the snapshot and on the writers that have appended.
LEMMA SameHistory ==
  ASSUME TInv, HInv, events' = events, current'.status = current.status,
         current'.version = current.version, current'.lastEvent = current.lastEvent,
         NoFallback',
         \A w \in Writer : pc'[w] = "report" => pc[w] = "report" /\ job'[w] = job[w]
  PROVE  HInv'
<1>1. HistoryAgrees'
  BY DEF HInv, HistoryAgrees, Contiguous, Chained, SnapshotIsLast, TerminalIsLast
<1>2. ReportedIsKept'
  BY DEF HInv, ReportedIsKept, EventOf
<1> QED
  BY <1>1, <1>2 DEF HInv

\* The transaction puts the event of the next version and moves the snapshot
\* to it.
LEMMA TransactionStep ==
  ASSUME TInv, SInv, HInv, NEW w \in Writer, AppendEvent(w), CanAppend(w), PutEvent(w),
         current' = Advanced(w), pc' = [pc EXCEPT ![w] = "report"], UNCHANGED job
  PROVE  HInv'
<1> DEFINE n == current.version
<1>1. /\ n \in Version /\ n + 1 \in Version /\ n \in Nat
      /\ job[w].version = n
      /\ job[w].from = current.status /\ job[w].from \notin Terminal
      /\ events \in [Version -> Event \cup {NoEvent}]
  BY ConstantsAssumption
     DEF AppendEvent, CanAppend, VersionHolds, TInv, TypeOK, Current, Version, SInv,
         VersionIdentifies, Conditional
<1>2. /\ current'.version = n + 1
      /\ current'.status = job[w].to
      /\ current'.lastEvent = w
  BY <1>1 DEF Advanced, TInv, TypeOK, Current
<1>3. /\ events'[n + 1] = EventOf(w)
      /\ \A v \in Version \ {n + 1} : events'[v] = events[v]
  BY <1>1 DEF PutEvent
<1>4. /\ EventOf(w) # NoEvent
      /\ EventOf(w).from = current.status
      /\ EventOf(w).to = job[w].to
      /\ EventOf(w).by = w
  BY <1>1, ConstantsAssumption DEF EventOf, NoEvent
<1>5. events[n].to = current.status
  BY DEF HInv, HistoryAgrees, SnapshotIsLast
<1>6. Contiguous'
  BY <1>1, <1>2, <1>3, <1>4 DEF HInv, HistoryAgrees, Contiguous, Version
<1>7. Chained'
  <2> SUFFICES ASSUME NEW v \in Version, 1 < v, v <= n + 1
               PROVE  events'[v].from = events'[v - 1].to
    BY <1>2 DEF Chained
  <2>1. v - 1 \in Version /\ v - 1 # n + 1 /\ v \in Nat
    BY <1>1, ConstantsAssumption DEF Version
  <2>2. CASE v = n + 1
    BY <1>1, <1>3, <1>4, <1>5, <2>1, <2>2
  <2>3. CASE v # n + 1
    <3>1. v <= n
      BY <1>1, <2>1, <2>3
    <3> QED
      BY <1>3, <2>1, <2>3, <3>1 DEF HInv, HistoryAgrees, Chained
  <2> QED
    BY <2>2, <2>3
<1>8. SnapshotIsLast'
  BY <1>2, <1>3, <1>4 DEF SnapshotIsLast
<1>9. TerminalIsLast'
  <2> SUFFICES ASSUME NEW v \in Version, v < n + 1
               PROVE  events'[v].to \notin Terminal
    BY <1>2 DEF TerminalIsLast
  <2>1. v # n + 1 /\ (v < n \/ v = n)
    BY <1>1 DEF Version
  <2> QED
    BY <1>1, <1>3, <1>5, <2>1 DEF HInv, HistoryAgrees, TerminalIsLast
<1>10. NoFallback'
  BY DEF HInv, NoFallback, TInv, TypeOK
<1>11. ReportedIsKept'
  <2> SUFFICES ASSUME NEW x \in Writer, pc'[x] = "report"
               PROVE  /\ job[x].version + 1 \in Version
                      /\ job[x].version + 1 <= n + 1
                      /\ events'[job[x].version + 1] = EventOf(x)
    BY <1>2 DEF ReportedIsKept, EventOf
  <2>1. CASE x = w
    BY <1>1, <1>3, <2>1
  <2>2. CASE x # w
    <3>1. pc[x] = "report"
      BY <2>2 DEF TInv, TypeOK
    <3>2. /\ job[x].version + 1 \in Version
          /\ job[x].version + 1 <= n
          /\ events[job[x].version + 1] = EventOf(x)
      BY <3>1 DEF HInv, ReportedIsKept
    <3>3. job[x].version + 1 # n + 1 /\ job[x].version + 1 <= n + 1
      BY <1>1, <3>2 DEF Version
    <3> QED
      BY <1>3, <3>2, <3>3
  <2> QED
    BY <2>1, <2>2
<1> QED
  BY <1>6, <1>7, <1>8, <1>9, <1>10, <1>11 DEF HInv, HistoryAgrees

\* Every step keeps the invariant of the history.
LEMMA HInvStep ==
  ASSUME KeyTypeErrors = FALSE
  PROVE  TInv /\ SInv /\ HInv /\ [Next]_vars => HInv'
<1> SUFFICES ASSUME TInv, SInv, HInv, [Next]_vars PROVE HInv'
  OBVIOUS
<1> pc \in [Writer -> PC] /\ job \in [Writer -> Job] /\ current \in Current
  BY DEF TInv, TypeOK
<1>1. ASSUME NEW w \in Writer, UNCHANGED events,
             current'.status = current.status, current'.version = current.version,
             current'.lastEvent = current.lastEvent, pc'[w] \in {"idle", "append", "write"},
             \A x \in Writer \ {w} : pc'[x] = pc[x] /\ job'[x] = job[x]
      PROVE  HInv'
  <2>1. NoFallback'
    BY <1>1 DEF HInv, NoFallback
  <2> QED
    BY <1>1, <2>1, SameHistory
<1>2. ASSUME NEW w \in Writer, Read(w) PROVE HInv'
  <2>1. UNCHANGED <<current, events>>
    BY <1>2 DEF Read, Transition, IngestEvaluation, IngestMission, UpdatePriority, PublishSource
  <2>2. \E next \in {"append", "write"} : \E j : Decide(w, next, j)
    BY <1>2 DEF Read, Transition, IngestEvaluation, IngestMission, UpdatePriority, PublishSource
  <2> QED
    BY <1>1, <2>1, <2>2 DEF Decide
<1>3. ASSUME NEW w \in Writer, AppendEvent(w) PROVE HInv'
  <2>1. CASE CanAppend(w) /\ PutEvent(w) /\ current' = Advanced(w)
             /\ pc' = [pc EXCEPT ![w] = "report"] /\ UNCHANGED job
    BY <1>3, <2>1, TransactionStep
  <2>2. CASE Leave(w) /\ UNCHANGED <<current, events>>
    BY <1>1, <2>2 DEF Leave
  <2> QED
    BY <1>3, <2>1, <2>2 DEF AppendEvent
<1>4. ASSUME NEW w \in Writer PROVE ~(FallbackPut(w) \/ FallbackUpdate(w) \/ FallbackRollback(w))
  BY DEF HInv, NoFallback, FallbackPut, FallbackUpdate, FallbackRollback
<1>5. ASSUME NEW w \in Writer, Amend(w) PROVE HInv'
  <2>1. /\ current'.status = current.status
        /\ current'.version = current.version
        /\ current'.lastEvent = current.lastEvent
    BY <1>5 DEF Amend, Amended, Current
  <2> QED
    BY <1>1, <1>5, <2>1 DEF Amend, Leave
<1>6. ASSUME NEW w \in Writer, Report(w) \/ Crash(w) PROVE HInv'
  BY <1>1, <1>6 DEF Report, Crash, Leave
<1>7. CASE UNCHANGED vars
  BY <1>7, SameHistory DEF vars, HInv, NoFallback
<1> QED
  BY <1>2, <1>3, <1>4, <1>5, <1>6, <1>7 DEF Next, Store

LEMMA HistoryInvariant ==
  ASSUME KeyTypeErrors = FALSE
  PROVE  Spec => [](TInv /\ SInv /\ HInv)
<1>1. Init => TInv /\ SInv /\ HInv
  BY TInvInit, SInvInit, HInvInit
<1>2. (TInv /\ SInv /\ HInv) /\ [Next]_vars => (TInv /\ SInv /\ HInv)'
  BY TInvStep, SInvStep, HInvStep
<1> QED
  BY <1>1, <1>2, PTL DEF Spec

\* Snapshot and history agree after every step, with any number of writers and
\* crashes (rescue_request_repository.py:502-538).
THEOREM HistoryIsSound ==
  ASSUME KeyTypeErrors = FALSE
  PROVE  Spec => []HistoryAgrees
<1>1. HInv => HistoryAgrees
  BY DEF HInv
<1> QED
  BY <1>1, HistoryInvariant, PTL

\* What an invocation publishes and answers is in the history under the version
\* it names (append_status_event.py:43-88).
THEOREM ReportsAreKept ==
  ASSUME KeyTypeErrors = FALSE
  PROVE  Spec => []ReportsHistory
<1>1. HInv => ReportsHistory
  BY DEF HInv, ReportedIsKept, ReportsHistory
<1> QED
  BY <1>1, HistoryInvariant, PTL

\* No event changes or disappears (data-model.md:29).
THEOREM EventsStay ==
  ASSUME KeyTypeErrors = FALSE
  PROVE  Spec => EventsAppendOnly
<1>1. TInv /\ HInv /\ [Next]_vars =>
        [\A v \in Version : events[v] # NoEvent => events'[v] = events[v]]_vars
  <2> SUFFICES ASSUME TInv, HInv, [Next]_vars, NEW v \in Version, events[v] # NoEvent
               PROVE  events'[v] = events[v]
    OBVIOUS
  <2>1. ASSUME NEW w \in Writer, AppendEvent(w) PROVE events'[v] = events[v]
    <3>1. CASE CanAppend(w) /\ PutEvent(w)
      BY <3>1 DEF CanAppend, EventFree, PutEvent, TInv, TypeOK
    <3>2. CASE UNCHANGED events
      BY <3>2
    <3> QED
      BY <2>1, <3>1, <3>2 DEF AppendEvent
  <2>2. ASSUME NEW w \in Writer, Read(w) \/ Amend(w) \/ Report(w) \/ Crash(w)
        PROVE  events' = events
    BY <2>2 DEF Read, Transition, IngestEvaluation, IngestMission, UpdatePriority, PublishSource,
                Amend, Report, Crash
  <2>3. ASSUME NEW w \in Writer PROVE ~(FallbackPut(w) \/ FallbackUpdate(w) \/ FallbackRollback(w))
    BY DEF HInv, NoFallback, FallbackPut, FallbackUpdate, FallbackRollback
  <2> QED
    BY <2>1, <2>2, <2>3 DEF Next, Store, vars
<1> QED
  BY <1>1, HistoryInvariant, PTL DEF Spec, EventsAppendOnly

-----------------------------------------------------------------------------
(* Refinement of RequestHistory.                                           *)

\* Every status decided on is a legal next one.
LegalJobs ==
  \A w \in Writer : pc[w] = "append" =>
    job[w].to \in Status \ {"SUBMITTED"} /\ RH!LegalStep(job[w].from, job[w].to)

LEMMA LegalDecisions ==
  ASSUME NEW s \in Status \ Terminal
  PROVE  /\ \A t \in AllowedTransitions[s] : t # "SUBMITTED" /\ RH!LegalStep(s, t)
         /\ IngestedStatus(s) # "SUBMITTED" /\ RH!LegalStep(s, IngestedStatus(s))
         /\ \A ms \in MissionStatus :
              LET t == MissionTarget(ms, s) IN t # s => t # "SUBMITTED" /\ RH!LegalStep(s, t)
BY DEF AllowedTransitions, IngestedStatus, MissionTarget, MissionStatus, Status, Terminal,
       RH!LegalStep

LEMMA LegalJobsInit == Init => LegalJobs
BY DEF Init, LegalJobs

\* Every step keeps the decisions legal.
LEMMA LegalJobsStep == TInv /\ LegalJobs /\ [Next]_vars => LegalJobs'
<1> SUFFICES ASSUME TInv, LegalJobs, [Next]_vars PROVE LegalJobs'
  OBVIOUS
<1> pc \in [Writer -> PC] /\ job \in [Writer -> Job] /\ current.status \in Status
  BY DEF TInv, TypeOK, Current
<1> DEFINE Legal(j) == j.to \in Status \ {"SUBMITTED"} /\ RH!LegalStep(j.from, j.to)
<1>1. ASSUME NEW w \in Writer, NEW j, Decide(w, "append", j), Legal(j) PROVE LegalJobs'
  BY <1>1 DEF Decide, LegalJobs
<1>2. ASSUME NEW w \in Writer, pc'[w] # "append",
             \A x \in Writer \ {w} : pc'[x] = pc[x] /\ job'[x] = job[x]
      PROVE  LegalJobs'
  BY <1>2 DEF LegalJobs
<1>3. ASSUME NEW w \in Writer, NEW j, Decide(w, "write", j) PROVE LegalJobs'
  BY <1>2, <1>3 DEF Decide
<1>4. ASSUME NEW w \in Writer, Transition(w) PROVE LegalJobs'
  <2>1. PICK target \in AllowedTransitions[current.status], unit \in Unit \cup {None},
             score \in Score \cup {None} :
          Decide(w, "append",
            [JobOn(current, "staff") EXCEPT !.to = target, !.unit = unit, !.score = score])
    BY <1>4 DEF Transition
  <2> DEFINE j == [JobOn(current, "staff") EXCEPT !.to = target, !.unit = unit, !.score = score]
  <2>2. j.from = current.status /\ j.to = target
    BY DEF JobOn, NoJob
  <2>3. current.status \notin Terminal
    BY <2>1 DEF AllowedTransitions, Status, Terminal
  <2>4. Legal(j)
    BY <2>1, <2>2, <2>3, LegalDecisions, TargetType
  <2> QED
    BY <1>1, <2>1, <2>4
<1>5. ASSUME NEW w \in Writer, IngestEvaluation(w) PROVE LegalJobs'
  <2>1. PICK m \in sent, score \in Score :
          Decide(w, "append",
            [JobOn(current, "evaluate") EXCEPT
               !.to = IngestedStatus(current.status), !.score = score, !.source = m])
    BY <1>5 DEF IngestEvaluation
  <2> DEFINE j == [JobOn(current, "evaluate") EXCEPT
                     !.to = IngestedStatus(current.status), !.score = score, !.source = m]
  <2>2. j.from = current.status /\ j.to = IngestedStatus(current.status)
    BY DEF JobOn, NoJob
  <2>3. Legal(j)
    BY <1>5, <2>2, LegalDecisions, TargetType DEF IngestEvaluation
  <2> QED
    BY <1>1, <2>1, <2>3
<1>6. ASSUME NEW w \in Writer, IngestMission(w) PROVE LegalJobs'
  <2>1. PICK ms \in MissionStatus, team \in Unit :
          \/ /\ MissionTarget(ms, current.status) # current.status
             /\ Decide(w, "append",
                  [[JobOn(current, "mission") EXCEPT !.mission = ms] EXCEPT
                     !.to = MissionTarget(ms, current.status), !.unit = team])
          \/ Decide(w, "write", [JobOn(current, "mission") EXCEPT !.mission = ms])
    BY <1>6 DEF IngestMission
  <2> DEFINE j == [[JobOn(current, "mission") EXCEPT !.mission = ms] EXCEPT
                     !.to = MissionTarget(ms, current.status), !.unit = team]
  <2>2. j.from = current.status /\ j.to = MissionTarget(ms, current.status)
    BY DEF JobOn, NoJob
  <2>3. j.to # current.status => Legal(j)
    BY <1>6, <2>2, LegalDecisions, TargetType DEF IngestMission
  <2> QED
    BY <1>1, <1>3, <2>1, <2>2, <2>3
<1>7. ASSUME NEW w \in Writer, UpdatePriority(w) \/ PublishSource(w) PROVE LegalJobs'
  BY <1>3, <1>7 DEF UpdatePriority, PublishSource
<1>8. ASSUME NEW w \in Writer, Store(w) \/ Crash(w) PROVE LegalJobs'
  <2>1. /\ pc'[w] # "append"
        /\ \A x \in Writer \ {w} : pc'[x] = pc[x] /\ job'[x] = job[x]
    BY <1>8 DEF Store, Crash, AppendEvent, FallbackPut, FallbackUpdate, FallbackRollback, Amend,
                Report, Leave
  <2> QED
    BY <1>2, <2>1
<1>9. CASE UNCHANGED vars
  BY <1>9 DEF vars, LegalJobs
<1> QED
  BY <1>4, <1>5, <1>6, <1>7, <1>8, <1>9 DEF Next, Read

\* The history is a sequence of statuses of length stateVersion.
HistoryOK ==
  /\ StatusHistory \in Seq(Status)
  /\ Len(StatusHistory) = current.version
  /\ StatusHistory[current.version] = current.status

LEMMA HistoryType == TInv /\ HInv => HistoryOK
<1> SUFFICES ASSUME TInv, HInv PROVE HistoryOK
  OBVIOUS
<1>1. current.version \in Version /\ current.version \in Nat /\ current.version >= 1
  BY ConstantsAssumption DEF TInv, TypeOK, Current, Version
<1>2. \A v \in 1 .. current.version : events[v].to \in Status
  <2> SUFFICES ASSUME NEW v \in 1 .. current.version PROVE events[v].to \in Status
    OBVIOUS
  <2>1. v \in Version /\ v <= current.version
    BY <1>1, ConstantsAssumption DEF Version
  <2>2. events[v] # NoEvent
    BY <2>1 DEF HInv, HistoryAgrees, Contiguous
  <2>3. events[v] \in Event
    BY <2>1, <2>2 DEF TInv, TypeOK
  <2> QED
    BY <2>3 DEF Event
<1>3. StatusHistory \in [1 .. current.version -> Status]
  BY <1>2 DEF StatusHistory
<1>4. StatusHistory[current.version] = current.status
  BY <1>1 DEF StatusHistory, HInv, HistoryAgrees, SnapshotIsLast
<1>5. StatusHistory \in Seq(Status)
  BY <1>1, <1>3, SeqDef
<1>6. Len(StatusHistory) = current.version
  BY <1>1, <1>3, <1>5, LenProperties
<1> QED
  BY <1>4, <1>5, <1>6 DEF HistoryOK

LEMMA HistoryTypeNext == (TInv /\ HInv => HistoryOK)'
BY HistoryType, PTL

LEMMA HistoryInit == Init => RH!Init
<1> SUFFICES ASSUME Init PROVE StatusHistory = <<"SUBMITTED">>
  BY DEF RH!Init
<1>1. current.version = 1 /\ events[1].to = "SUBMITTED"
  BY ConstantsAssumption DEF Init, FirstSnapshot, FirstEvent, Version
<1> QED
  BY <1>1 DEF StatusHistory

\* Every step of the service is a step of the history or leaves it alone.
LEMMA HistoryStep ==
  ASSUME KeyTypeErrors = FALSE
  PROVE  TInv /\ SInv /\ HInv /\ LegalJobs /\ (TInv /\ HInv)' /\ [Next]_vars =>
           [RH!Next]_StatusHistory
<1> SUFFICES ASSUME TInv, SInv, HInv, LegalJobs, (TInv /\ HInv)', [Next]_vars
             PROVE  [RH!Next]_StatusHistory
  OBVIOUS
<1>1. CASE UNCHANGED events /\ current'.version = current.version
  BY <1>1 DEF StatusHistory
<1>2. ASSUME NEW w \in Writer, AppendEvent(w), CanAppend(w), PutEvent(w), current' = Advanced(w)
      PROVE  [RH!Next]_StatusHistory
  <2> DEFINE n == current.version
             t == job[w].to
  <2>1. /\ n \in Nat /\ n >= 1
        /\ job[w].version = n /\ job[w].from = current.status
        /\ t \in Status \ {"SUBMITTED"} /\ RH!LegalStep(current.status, t)
    BY <1>2, ConstantsAssumption
       DEF AppendEvent, CanAppend, VersionHolds, TInv, TypeOK, Current, Version, SInv,
           VersionIdentifies, Conditional, LegalJobs
  <2>2. current'.version = n + 1 /\ current'.status = t
    BY <1>2, <2>1 DEF Advanced, TInv, TypeOK, Current
  <2>3. /\ StatusHistory \in Seq(Status) /\ Len(StatusHistory) = n
        /\ StatusHistory[n] = current.status
    BY HistoryType DEF HistoryOK
  <2>4. /\ StatusHistory' \in Seq(Status) /\ Len(StatusHistory') = n + 1
        /\ StatusHistory'[n + 1] = t
    BY <2>2, HistoryTypeNext DEF HistoryOK
  <2>5. \A v \in 1 .. n : StatusHistory'[v] = StatusHistory[v]
    BY <1>2, <2>1, <2>2 DEF StatusHistory, PutEvent
  <2>6. StatusHistory' = Append(StatusHistory, t)
    <3>1. /\ Append(StatusHistory, t) \in Seq(Status)
          /\ Len(Append(StatusHistory, t)) = n + 1
          /\ Append(StatusHistory, t)[n + 1] = t
          /\ \A v \in 1 .. n : Append(StatusHistory, t)[v] = StatusHistory[v]
      BY <2>1, <2>3
    <3>2. \A v \in 1 .. n + 1 : v = n + 1 \/ v \in 1 .. n
      BY <2>1
    <3>3. \A v \in 1 .. n + 1 : StatusHistory'[v] = Append(StatusHistory, t)[v]
      BY <2>4, <2>5, <3>1, <3>2
    <3> QED
      BY <2>4, <3>1, <3>3, SeqEqual
  <2>7. RH!Extend(t)
    BY <2>1, <2>3, <2>6 DEF RH!Extend
  <2> QED
    BY <2>1, <2>7 DEF RH!Next, Status
<1>3. ASSUME NEW w \in Writer, Read(w) \/ Report(w) \/ Crash(w)
      PROVE  UNCHANGED <<current, events>>
  BY <1>3 DEF Read, Transition, IngestEvaluation, IngestMission, UpdatePriority, PublishSource,
              Report, Crash
<1>4. ASSUME NEW w \in Writer, Amend(w)
      PROVE  UNCHANGED events /\ current'.version = current.version
  BY <1>4 DEF Amend, Amended, TInv, TypeOK, Current
<1>5. ASSUME NEW w \in Writer PROVE ~(FallbackPut(w) \/ FallbackUpdate(w) \/ FallbackRollback(w))
  BY DEF HInv, NoFallback, FallbackPut, FallbackUpdate, FallbackRollback
<1>6. ASSUME NEW w \in Writer, AppendEvent(w)
      PROVE  \/ CanAppend(w) /\ PutEvent(w) /\ current' = Advanced(w)
             \/ UNCHANGED <<current, events>>
  BY <1>6 DEF AppendEvent
<1> QED
  BY <1>1, <1>2, <1>3, <1>4, <1>5, <1>6 DEF Next, Store, vars

\* The service implements RequestHistory (state_transition_service.py:17-98,
\* ingest_rescue_request_evaluation.py:85-134,
\* ingest_mission_status_changed.py:107-179).
THEOREM Refinement ==
  ASSUME KeyTypeErrors = FALSE
  PROVE  Spec => ImplementsRequestHistory
<1>1. Init => LegalJobs
  BY LegalJobsInit
<1>2. TInv /\ LegalJobs /\ [Next]_vars => LegalJobs'
  BY LegalJobsStep
<1> QED
  BY <1>1, <1>2, HistoryInvariant, HistoryInit, HistoryStep, PTL
     DEF Spec, ImplementsRequestHistory, RH!Spec
=============================================================================
