------------------------- MODULE QueueIngestProofs -------------------------
(***************************************************************************)
(* Proofs about QueueIngest, for any messages, keys, invocations and batch *)
(* sizes.  What holds of locks that have a reason does so for any times;   *)
(* that a message is done when it is deleted, written once, and its key    *)
(* used as SingleFlight allows needs RunTime < LockTime: a lock outlives   *)
(* whoever works under it.  That a death is not repeated needs Prompt: a   *)
(* lock outlives all receives of its message.                              *)
(***************************************************************************)
EXTENDS QueueIngestRefinement, TLAPS

-----------------------------------------------------------------------------
(* Type correctness.                                                       *)

\* Whoever works has a message of its batch in hand, and time passes within
\* the timeout.
InHand ==
  /\ \A i \in Working : on[i] \in Message
  /\ \A i \in Invocation : left[i] <= RunTime

TypeInv == TypeOK /\ InHand

LEMMA WorkingFacts ==
  ASSUME TypeInv, NEW i \in Invocation, pc[i] \in {"read", "write", "commit", "abort"}
  PROVE  /\ i \in Working
         /\ on[i] \in Message
         /\ Id(on[i]) \in Key
         /\ raw[on[i]] \in Raw
         /\ record[Id(on[i])] \in Record
BY DEF TypeInv, TypeOK, InHand, Working, Id, Raw

LEMMA IdFacts ==
  ASSUME TypeInv, NEW m \in Message
  PROVE  Id(m) \in Key /\ raw[m] \in Raw /\ record[Id(m)] \in Record
BY DEF TypeInv, TypeOK, Id, Raw

LEMMA TypeInit == Init => TypeInv
<1> SUFFICES ASSUME Init PROVE TypeInv
  OBVIOUS
<1> USE ConstantsAssumption
<1>1. NoRecord \in Record /\ NoJob \in Job
  BY DEF NoRecord, Record, NoJob, Job, Stage
<1>2. current \in Current
  BY DEF Init, Current, Stage
<1>3. InHand
  BY DEF Init, InHand, Working
<1> QED
  BY <1>1, <1>2, <1>3 DEF Init, TypeInv, TypeOK, Place, PC

LEMMA FaultType == TypeInv /\ (Fault \/ UNCHANGED faults) => faults' \in Nat
BY DEF TypeInv, TypeOK, Fault

LEMMA FinalizeType ==
  ASSUME TypeInv, NEW i \in Working, NEW s \in {"FAILED", "COMPLETED"}, Finalize(i, s)
  PROVE  record' \in [Key -> Record]
<1>1. record[Id(on[i])] \in Record /\ Id(on[i]) \in Key
  BY WorkingFacts DEF Working
<1>2. Finalized(i, s) \in Record
  BY <1>1 DEF Finalized, Record
<1> QED
  BY <1>1, <1>2 DEF Finalize, TypeInv, TypeOK

LEMMA EndRecordType ==
  ASSUME TypeInv, NEW i \in Invocation, EndRecord(i)
  PROVE  /\ pc' \in [Invocation -> PC]
         /\ on' \in [Invocation -> Message \cup {None}]
         /\ job' \in [Invocation -> Job]
         /\ \A j \in Invocation : pc'[j] \in {"read", "write", "commit", "abort"} =>
               on'[j] \in Message
<1>1. NoJob \in Job
  BY DEF NoJob, Job, Stage
<1> QED
  BY <1>1 DEF EndRecord, TypeInv, TypeOK, PC, InHand, Working

LEMMA LeaveType ==
  ASSUME TypeInv, NEW i \in Invocation, Leave(i)
  PROVE  /\ pc' \in [Invocation -> PC]
         /\ batch' \in [Invocation -> SUBSET Message]
         /\ todo' \in [Invocation -> SUBSET Message]
         /\ on' \in [Invocation -> Message \cup {None}]
         /\ failed' \in [Invocation -> SUBSET Message]
         /\ left' \in [Invocation -> Nat]
         /\ job' \in [Invocation -> Job]
         /\ InHand'
<1>1. NoJob \in Job
  BY DEF NoJob, Job, Stage
<1>2. InHand'
  BY ConstantsAssumption DEF Leave, TypeInv, TypeOK, InHand, Working
<1> QED
  BY <1>1, <1>2 DEF Leave, TypeInv, TypeOK, PC

LEMMA CountType ==
  ASSUME TypeInv, NEW i \in Working, NEW h \in [Key -> Nat]
  PROVE  Count(h, i) \in [Key -> Nat]
BY WorkingFacts DEF Count, Working

LEMMA TypeNext == TypeInv /\ [Next]_vars => TypeInv'
<1> SUFFICES ASSUME TypeInv, [Next]_vars PROVE TypeInv'
  OBVIOUS
<1> USE ConstantsAssumption
<1> USE DEF queueVars, requestVars, workerVars, historyVars
<1>1. ASSUME NEW m \in Message, Send(m) PROVE TypeInv'
  BY <1>1 DEF Send, TypeInv, TypeOK, InHand, Working, Place
<1>2. ASSUME NEW m \in Message, DeadLetter(m) PROVE TypeInv'
  BY <1>2 DEF DeadLetter, TypeInv, TypeOK, InHand, Working, Place
<1>3. ASSUME NEW s \in Source, PublishSource(s) PROVE TypeInv'
  BY <1>3 DEF PublishSource, TypeInv, TypeOK, InHand, Working
<1>4. ASSUME NEW s \in Source, NoteSource(s) PROVE TypeInv'
  <2>1. current' \in Current
    BY <1>4 DEF NoteSource, TypeInv, TypeOK, Current
  <2> QED
    BY <1>4, <2>1 DEF NoteSource, TypeInv, TypeOK, InHand, Working
<1>5. CASE StaffWrites
  <2>1. current' \in Current
    <3>1. PICK s \in Stage :
            current' = [version |-> current.version + 1, stage |-> s,
                        source |-> current.source, mission |-> current.mission]
      BY <1>5 DEF StaffWrites
    <3>2. current \in Current
      BY DEF TypeInv, TypeOK
    <3> QED
      BY <3>1, <3>2 DEF Current
  <2> QED
    BY <1>5, <2>1 DEF StaffWrites, TypeInv, TypeOK, InHand, Working
<1>6. ASSUME NEW i \in Invocation, Receive(i) PROVE TypeInv'
  <2>1. PICK B \in SUBSET {m \in Message : Visible(m) /\ ~Exhausted(m)} :
          /\ pc' = [pc EXCEPT ![i] = "next"]
          /\ batch' = [batch EXCEPT ![i] = B]
          /\ todo' = [todo EXCEPT ![i] = B]
          /\ left' = [left EXCEPT ![i] = RunTime]
          /\ receives' = [m \in Message |-> IF m \in B THEN ReceivedAgain(m) ELSE receives[m]]
          /\ hidden' = [m \in Message |-> IF m \in B THEN Visibility ELSE hidden[m]]
    BY <1>6 DEF Receive
  <2>2. UNCHANGED <<raw, place, record, requestVars, on, failed, job, historyVars>>
    BY <1>6 DEF Receive
  <2>3. receives' \in [Message -> Nat]
    BY <2>1 DEF ReceivedAgain, TypeInv, TypeOK
  <2>4. hidden' \in [Message -> Int]
    BY <2>1 DEF TypeInv, TypeOK
  <2>5. /\ pc' \in [Invocation -> PC]
        /\ batch' \in [Invocation -> SUBSET Message]
        /\ todo' \in [Invocation -> SUBSET Message]
        /\ left' \in [Invocation -> Nat]
    BY <2>1 DEF TypeInv, TypeOK, PC
  <2>6. InHand'
    BY <2>1, <2>2 DEF TypeInv, TypeOK, InHand, Working
  <2> QED
    BY <2>2, <2>3, <2>4, <2>5, <2>6 DEF TypeInv, TypeOK
<1>7. ASSUME NEW i \in Invocation, Begin(i) PROVE TypeInv'
  <2>1. PICK m \in todo[i] :
          /\ todo' = [todo EXCEPT ![i] = @ \ {m}]
          /\ \/ UNCHANGED <<record, pc, on, failed, abandoned, faults>>
             \/ /\ record' = [record EXCEPT ![Id(m)] = Locked(i, m)]
                /\ \/ /\ pc' = [pc EXCEPT ![i] = "read"]
                      /\ on' = [on EXCEPT ![i] = m]
                      /\ abandoned' = abandoned \ {Id(m)}
                      /\ UNCHANGED <<failed, faults>>
                   \/ /\ Fault
                      /\ failed' = [failed EXCEPT ![i] = @ \cup {m}]
                      /\ abandoned' = abandoned \cup {Id(m)}
                      /\ UNCHANGED <<pc, on>>
             \/ /\ UNCHANGED faults \/ Fault
                /\ failed' = [failed EXCEPT ![i] = @ \cup {m}]
                /\ UNCHANGED <<record, pc, on, abandoned>>
    BY <1>7 DEF Begin
  <2>2. UNCHANGED <<queueVars, requestVars, batch, left, job, applied, raised, orphaned, skipped>>
    BY <1>7 DEF Begin
  <2>3. m \in Message /\ Id(m) \in Key /\ raw[m] \in Raw
    BY IdFacts DEF TypeInv, TypeOK
  <2>4. Locked(i, m) \in Record
    BY <2>3 DEF Locked, Record
  <2>5. record' \in [Key -> Record]
    BY <2>1, <2>3, <2>4 DEF TypeInv, TypeOK
  <2>6. todo' \in [Invocation -> SUBSET Message]
    BY <2>1 DEF TypeInv, TypeOK
  <2>7. failed' \in [Invocation -> SUBSET Message] /\ abandoned' \in SUBSET Key
    BY <2>1, <2>3 DEF TypeInv, TypeOK
  <2>8. pc' \in [Invocation -> PC] /\ on' \in [Invocation -> Message \cup {None}]
    BY <2>1, <2>3 DEF TypeInv, TypeOK, PC
  <2>9. InHand'
    BY <2>1, <2>2, <2>3 DEF TypeInv, TypeOK, InHand, Working
  <2>10. faults' \in Nat
    BY <2>1, FaultType
  <2> QED
    BY <2>2, <2>5, <2>6, <2>7, <2>8, <2>9, <2>10 DEF TypeInv, TypeOK
<1>8. ASSUME NEW i \in Invocation, ReadCurrent(i) PROVE TypeInv'
  <2>1. /\ on[i] \in Message /\ Id(on[i]) \in Key /\ raw[on[i]] \in Raw
    BY <1>8, WorkingFacts DEF ReadCurrent
  <2>2. Decision(on[i]) \in Job
    <3>1. MissionStage(on[i]) \in Stage
      BY DEF MissionStage, Stage, TypeInv, TypeOK, Current
    <3> QED
      BY <3>1 DEF Decision, Job, TypeInv, TypeOK, Current
  <2>3. job' \in [Invocation -> Job] /\ skipped' \in SUBSET Key
    BY <1>8, <2>1, <2>2 DEF ReadCurrent, TypeInv, TypeOK
  <2>4. pc' \in [Invocation -> PC] /\ InHand'
    <3>1. PICK where \in {"abort", "commit", "write"} : pc' = [pc EXCEPT ![i] = where]
      BY <1>8 DEF ReadCurrent
    <3>2. on' = on /\ left' = left
      BY <1>8 DEF ReadCurrent
    <3> QED
      BY <2>1, <3>1, <3>2 DEF TypeInv, TypeOK, PC, InHand, Working
  <2>5. faults' \in Nat
    BY <1>8, FaultType DEF ReadCurrent
  <2> QED
    BY <1>8, <2>3, <2>4, <2>5 DEF ReadCurrent, TypeInv, TypeOK
<1>9. ASSUME NEW i \in Invocation, WriteCurrent(i) PROVE TypeInv'
  <2>1. i \in Working /\ on[i] \in Message
    BY <1>9, WorkingFacts DEF WriteCurrent
  <2>2. current' \in Current
    <3>1. Updated(i) \in Current
      BY <2>1 DEF Updated, Current, TypeInv, TypeOK, Job
    <3> QED
      BY <1>9, <3>1 DEF WriteCurrent, TypeInv, TypeOK
  <2>3. applied' \in [Key -> Nat] /\ raised' \in [Key -> Nat]
    BY <1>9, <2>1, CountType DEF WriteCurrent, TypeInv, TypeOK
  <2>4. job' \in [Invocation -> Job]
    <3>1. [job[i] EXCEPT !.wrote = TRUE] \in Job
      BY DEF TypeInv, TypeOK, Job
    <3> QED
      BY <1>9, <3>1 DEF WriteCurrent, TypeInv, TypeOK
  <2>5. pc' \in [Invocation -> PC] /\ InHand'
    <3>1. PICK where \in {"abort", "commit"} : pc' = [pc EXCEPT ![i] = where]
      BY <1>9 DEF WriteCurrent
    <3>2. on' = on /\ left' = left
      BY <1>9 DEF WriteCurrent
    <3> QED
      BY <2>1, <3>1, <3>2 DEF TypeInv, TypeOK, PC, InHand, Working
  <2>6. faults' \in Nat
    BY <1>9, FaultType DEF WriteCurrent
  <2> QED
    BY <1>9, <2>2, <2>3, <2>4, <2>5, <2>6 DEF WriteCurrent, TypeInv, TypeOK
<1>10. ASSUME NEW i \in Invocation, Commit(i) PROVE TypeInv'
  <2>1. i \in Working /\ on[i] \in Message
    BY <1>10, WorkingFacts DEF Commit
  <2>2. record' \in [Key -> Record]
    <3>1. Finalize(i, "COMPLETED") \/ UNCHANGED record
      BY <1>10 DEF Commit
    <3> QED
      BY <2>1, <3>1, FinalizeType DEF TypeInv, TypeOK
  <2>3. raised' \in [Key -> Nat]
    BY <1>10, <2>1, CountType DEF Commit, TypeInv, TypeOK
  <2>4. faults' \in Nat
    BY <1>10, FaultType DEF Commit
  <2>5. /\ pc' \in [Invocation -> PC]
        /\ on' \in [Invocation -> Message \cup {None}]
        /\ job' \in [Invocation -> Job]
        /\ InHand'
    <3>1. CASE EndRecord(i)
      BY <1>10, <3>1, EndRecordType DEF Commit, TypeInv, InHand, Working
    <3>2. CASE pc' = [pc EXCEPT ![i] = "abort"] /\ UNCHANGED <<on, job>>
      BY <1>10, <2>1, <3>2 DEF Commit, TypeInv, TypeOK, PC, InHand, Working
    <3> QED
      BY <1>10, <3>1, <3>2 DEF Commit
  <2> QED
    BY <1>10, <2>2, <2>3, <2>4, <2>5 DEF Commit, TypeInv, TypeOK
<1>11. ASSUME NEW i \in Invocation, Abort(i) PROVE TypeInv'
  <2>1. i \in Working /\ on[i] \in Message /\ Id(on[i]) \in Key
    BY <1>11, WorkingFacts DEF Abort
  <2>2. record' \in [Key -> Record]
    BY <1>11, <2>1, FinalizeType DEF Abort, RecordFailure, TypeInv, TypeOK
  <2>3. abandoned' \in SUBSET Key
    BY <1>11, <2>1 DEF Abort, RecordFailure, TypeInv, TypeOK
  <2>4. failed' \in [Invocation -> SUBSET Message]
    BY <1>11, <2>1 DEF Abort, TypeInv, TypeOK
  <2>5. faults' \in Nat
    BY <1>11, FaultType DEF Abort, RecordFailure
  <2>6. /\ pc' \in [Invocation -> PC]
        /\ on' \in [Invocation -> Message \cup {None}]
        /\ job' \in [Invocation -> Job]
        /\ InHand'
    BY <1>11, EndRecordType DEF Abort, TypeInv, InHand, Working
  <2> QED
    BY <1>11, <2>2, <2>3, <2>4, <2>5, <2>6 DEF Abort, TypeInv, TypeOK
<1>12. ASSUME NEW i \in Invocation, Return(i) PROVE TypeInv'
  <2>1. place' \in [Message -> Place] /\ hidden' \in [Message -> Int]
    BY <1>12 DEF Return, TypeInv, TypeOK, Place
  <2> QED
    BY <1>12, <2>1, LeaveType DEF Return, TypeInv, TypeOK
<1>13. ASSUME NEW i \in Invocation, Crash(i) PROVE TypeInv'
  <2>1. faults' \in Nat
    BY <1>13, FaultType DEF Crash
  <2>2. orphaned' \in [Key -> Nat]
    <3>1. pc[i] = "commit" => i \in Working
      BY DEF Working
    <3> QED
      BY <1>13, <3>1, CountType DEF Crash, TypeInv, TypeOK
  <2>3. abandoned' \in SUBSET Key
    <3>1. i \in Working => Id(on[i]) \in Key
      BY WorkingFacts DEF Working
    <3> QED
      BY <1>13, <3>1 DEF Crash, TypeInv, TypeOK
  <2> QED
    BY <1>13, <2>1, <2>2, <2>3, LeaveType DEF Crash, TypeInv, TypeOK
<1>14. CASE Tick
  <2>1. hidden' \in [Message -> Int]
    BY <1>14 DEF Tick, TypeInv, TypeOK
  <2>2. left' \in [Invocation -> Nat] /\ InHand'
    BY <1>14 DEF Tick, OneLess, TypeInv, TypeOK, InHand, Working
  <2>3. record' \in [Key -> Record]
    <3> SUFFICES ASSUME NEW k \in Key PROVE record'[k] \in Record
      BY <1>14 DEF Tick
    <3>1. record[k] \in Record
      BY DEF TypeInv, TypeOK
    <3> QED
      BY <1>14, <3>1 DEF Tick, OneLess, Record
  <2> QED
    BY <1>14, <2>1, <2>2, <2>3 DEF Tick, TypeInv, TypeOK
<1>15. CASE UNCHANGED vars
  BY <1>15 DEF vars, TypeInv, TypeOK, InHand, Working
<1> QED
  BY <1>1, <1>2, <1>3, <1>4, <1>5, <1>6, <1>7, <1>8, <1>9, <1>10, <1>11,
     <1>12, <1>13, <1>14, <1>15 DEF Next, Step

LEMMA TypeAlways == Spec => []TypeInv
BY TypeInit, TypeNext, PTL DEF Spec

\* Every variable keeps its type.
THEOREM TypeCorrect == Spec => []TypeOK
<1>1. TypeInv => TypeOK
  BY DEF TypeInv
<1> QED
  BY <1>1, TypeAlways, PTL

-----------------------------------------------------------------------------
(* Every lock has a reason.                                                *)

LEMMA ReasonInit == Init => LockHasReason
BY DEF Init, LockHasReason, NoRecord

\* A step that leaves keys, locks and what invocations have in hand alone.
LEMMA ReasonKept ==
  ASSUME LockHasReason, UNCHANGED <<raw, record, pc, on, abandoned>>
  PROVE  LockHasReason'
BY DEF LockHasReason, Working, Id

\* A step of invocation i on one key k, after which the lock of k has a
\* reason: the others stand as they did.
LEMMA ReasonElsewhere ==
  ASSUME TypeInv, LockHasReason, NEW i \in Invocation, NEW k \in Key, raw' = raw,
         \A l \in Key \ {k} : record'[l] = record[l],
         \A l \in Key \ {k} : l \in abandoned => l \in abandoned',
         \A j \in Invocation \ {i} : pc'[j] = pc[j] /\ on'[j] = on[j],
         i \in Working => Id(on[i]) = k,
         record'[k].status = "IN_PROGRESS" =>
           \/ k \in abandoned'
           \/ \E j \in Working' : Id(on[j])' = k /\ record'[k].holder = j
  PROVE  LockHasReason'
<1> SUFFICES ASSUME NEW l \in Key \ {k}, record'[l].status = "IN_PROGRESS"
             PROVE  \/ l \in abandoned'
                    \/ \E j \in Working' : Id(on[j])' = l /\ record'[l].holder = j
  BY DEF LockHasReason
<1>1. CASE l \in abandoned
  BY <1>1
<1>2. CASE l \notin abandoned
  <2>1. PICK j \in Working : Id(on[j]) = l /\ record[l].holder = j
    BY <1>2 DEF LockHasReason
  <2>2. j # i
    BY <2>1
  <2>3. j \in Working' /\ Id(on[j])' = l
    BY <2>1, <2>2 DEF Working, Id
  <2> QED
    BY <2>1, <2>3
<1> QED
  BY <1>1, <1>2

LEMMA ReasonNext == TypeInv /\ LockHasReason /\ [Next]_vars => LockHasReason'
<1> SUFFICES ASSUME TypeInv, LockHasReason, [Next]_vars PROVE LockHasReason'
  OBVIOUS
<1> USE ConstantsAssumption
<1> USE DEF queueVars, requestVars, workerVars, historyVars
<1>1. ASSUME NEW m \in Message, Send(m) \/ DeadLetter(m) PROVE LockHasReason'
  BY <1>1, ReasonKept DEF Send, DeadLetter
<1>2. ASSUME NEW s \in Source, PublishSource(s) \/ NoteSource(s) PROVE LockHasReason'
  BY <1>2, ReasonKept DEF PublishSource, NoteSource
<1>3. CASE StaffWrites
  BY <1>3, ReasonKept DEF StaffWrites
<1>4. ASSUME NEW i \in Invocation, Receive(i) PROVE LockHasReason'
  <2>1. /\ UNCHANGED <<raw, record, on, abandoned>>
        /\ pc[i] = "idle" /\ pc' = [pc EXCEPT ![i] = "next"]
    BY <1>4 DEF Receive
  <2>2. Working' = Working
    BY <2>1 DEF Working, TypeInv, TypeOK
  <2> QED
    BY <2>1, <2>2 DEF LockHasReason, Id
<1>5. ASSUME NEW i \in Invocation, Begin(i) PROVE LockHasReason'
  <2>1. raw' = raw /\ pc[i] = "next"
    BY <1>5 DEF Begin
  <2>2. PICK m \in todo[i] :
          \/ UNCHANGED <<record, pc, on, abandoned>>
          \/ /\ record' = [record EXCEPT ![Id(m)] = Locked(i, m)]
             /\ \/ /\ pc' = [pc EXCEPT ![i] = "read"]
                   /\ on' = [on EXCEPT ![i] = m]
                   /\ abandoned' = abandoned \ {Id(m)}
                \/ /\ abandoned' = abandoned \cup {Id(m)}
                   /\ UNCHANGED <<pc, on>>
    BY <1>5 DEF Begin
  <2>3. m \in Message /\ Id(m) \in Key
    BY IdFacts DEF TypeInv, TypeOK
  <2>4. i \notin Working
    BY <2>1 DEF Working
  <2>5. CASE UNCHANGED <<record, pc, on, abandoned>>
    BY <2>1, <2>5, ReasonKept
  <2>6. CASE /\ record' = [record EXCEPT ![Id(m)] = Locked(i, m)]
             /\ pc' = [pc EXCEPT ![i] = "read"]
             /\ on' = [on EXCEPT ![i] = m]
             /\ abandoned' = abandoned \ {Id(m)}
    <3>1. i \in Working' /\ Id(on[i])' = Id(m) /\ record'[Id(m)].holder = i
      BY <2>1, <2>3, <2>6 DEF Working, Id, Locked, TypeInv, TypeOK
    <3> QED
      BY <2>1, <2>3, <2>4, <2>6, <3>1, ReasonElsewhere DEF TypeInv, TypeOK
  <2>7. CASE /\ record' = [record EXCEPT ![Id(m)] = Locked(i, m)]
             /\ abandoned' = abandoned \cup {Id(m)}
             /\ UNCHANGED <<pc, on>>
    BY <2>1, <2>3, <2>4, <2>7, ReasonElsewhere DEF TypeInv, TypeOK
  <2> QED
    BY <2>2, <2>5, <2>6, <2>7
<1>6. ASSUME NEW i \in Invocation, ReadCurrent(i) \/ WriteCurrent(i) PROVE LockHasReason'
  <2>1. /\ UNCHANGED <<raw, record, on, abandoned>>
        /\ i \in Working
    BY <1>6 DEF ReadCurrent, WriteCurrent, Working
  <2>2. PICK where \in {"write", "commit", "abort"} : pc' = [pc EXCEPT ![i] = where]
    BY <1>6 DEF ReadCurrent, WriteCurrent
  <2>3. Working' = Working
    BY <2>1, <2>2 DEF Working, TypeInv, TypeOK
  <2> QED
    BY <2>1, <2>3 DEF LockHasReason, Id
<1>7. ASSUME NEW i \in Invocation, NEW s \in {"FAILED", "COMPLETED"},
             i \in Working, raw' = raw, Finalize(i, s), EndRecord(i), UNCHANGED abandoned
      PROVE  LockHasReason'
  <2>1. Id(on[i]) \in Key
    BY <1>7, WorkingFacts DEF Working
  <2>2. ASSUME record'[Id(on[i])].status = "IN_PROGRESS"
        PROVE  \/ Id(on[i]) \in abandoned'
               \/ \E j \in Working' :
                    Id(on[j])' = Id(on[i]) /\ record'[Id(on[i])].holder = j
    <3>1. ~Owns(i) /\ record' = record
      BY <1>7, <2>1, <2>2 DEF Finalize, Finalized, TypeInv, TypeOK
    <3>2. record[Id(on[i])].holder # i
      BY <2>2, <3>1 DEF Owns
    <3>3. CASE Id(on[i]) \in abandoned
      BY <1>7, <3>3
    <3>4. CASE Id(on[i]) \notin abandoned
      <4>1. PICK j \in Working : Id(on[j]) = Id(on[i]) /\ record[Id(on[i])].holder = j
        BY <2>1, <2>2, <3>1, <3>4 DEF LockHasReason
      <4>2. j # i
        BY <3>2, <4>1
      <4>3. j \in Working' /\ Id(on[j])' = Id(on[j])
        BY <1>7, <4>1, <4>2 DEF Working, Id, EndRecord, TypeInv, TypeOK
      <4> QED
        BY <3>1, <4>1, <4>3
    <3> QED
      BY <3>3, <3>4
  <2>3. \A l \in Key \ {Id(on[i])} : record'[l] = record[l]
    BY <1>7 DEF Finalize, TypeInv, TypeOK
  <2>4. \A j \in Invocation \ {i} : pc'[j] = pc[j] /\ on'[j] = on[j]
    BY <1>7 DEF EndRecord, TypeInv, TypeOK
  <2>5. PICK k \in Key : k = Id(on[i])
    BY <2>1
  <2> QED
    BY <1>7, <2>2, <2>3, <2>4, <2>5, ReasonElsewhere
<1>8. ASSUME NEW i \in Invocation, Commit(i) PROVE LockHasReason'
  <2>1. i \in Working /\ raw' = raw /\ abandoned' = abandoned /\ Id(on[i]) \in Key
    BY <1>8, WorkingFacts DEF Commit, Working
  <2>2. CASE Finalize(i, "COMPLETED") /\ EndRecord(i)
    BY <1>7, <2>1, <2>2
  <2>3. CASE /\ Finalize(i, "COMPLETED") \/ UNCHANGED record
             /\ pc' = [pc EXCEPT ![i] = "abort"]
             /\ on' = on
    <3>1. Working' = Working
      BY <2>1, <2>3 DEF Working, TypeInv, TypeOK
    <3>2. ASSUME NEW l \in Key, record'[l].status = "IN_PROGRESS"
          PROVE  record'[l] = record[l]
      BY <2>1, <2>3, <3>2 DEF Finalize, Finalized, TypeInv, TypeOK
    <3> QED
      BY <2>1, <2>3, <3>1, <3>2 DEF LockHasReason, Id
  <2> QED
    BY <1>8, <2>2, <2>3 DEF Commit
<1>9. ASSUME NEW i \in Invocation, Abort(i) PROVE LockHasReason'
  <2>1. i \in Working /\ raw' = raw /\ Id(on[i]) \in Key /\ EndRecord(i)
    BY <1>9, WorkingFacts DEF Abort, Working
  <2>2. CASE Finalize(i, "FAILED") /\ UNCHANGED abandoned
    BY <1>7, <2>1, <2>2
  <2>3. CASE UNCHANGED record /\ abandoned' = abandoned \cup {Id(on[i])}
    <3>1. \A j \in Invocation \ {i} : pc'[j] = pc[j] /\ on'[j] = on[j]
      BY <2>1 DEF EndRecord, TypeInv, TypeOK
    <3>2. PICK k \in Key : k = Id(on[i])
      BY <2>1
    <3> QED
      BY <2>1, <2>3, <3>1, <3>2, ReasonElsewhere
  <2> QED
    BY <1>9, <2>2, <2>3 DEF Abort, RecordFailure
<1>10. ASSUME NEW i \in Invocation, Return(i) PROVE LockHasReason'
  <2>1. /\ UNCHANGED <<raw, record, abandoned>> /\ pc[i] = "next"
        /\ Leave(i)
    BY <1>10 DEF Return
  <2>2. \A j \in Working : j \in Working' /\ on'[j] = on[j]
    BY <2>1 DEF Working, Leave, TypeInv, TypeOK
  <2> QED
    BY <2>1, <2>2 DEF LockHasReason, Id
<1>11. ASSUME NEW i \in Invocation, Crash(i) PROVE LockHasReason'
  <2>1. /\ UNCHANGED <<raw, record>> /\ Leave(i)
        /\ abandoned' = IF i \in Working THEN abandoned \cup {Id(on[i])} ELSE abandoned
    BY <1>11 DEF Crash
  <2>2. \A j \in Working \ {i} : j \in Working' /\ on'[j] = on[j]
    BY <2>1 DEF Working, Leave, TypeInv, TypeOK
  <2> SUFFICES ASSUME NEW k \in Key, record[k].status = "IN_PROGRESS"
               PROVE  \/ k \in abandoned'
                      \/ \E j \in Working' : Id(on[j])' = k /\ record[k].holder = j
    BY <2>1 DEF LockHasReason
  <2>3. CASE k \in abandoned
    BY <2>1, <2>3
  <2>4. ASSUME NEW j \in Working, Id(on[j]) = k, record[k].holder = j
        PROVE  \/ k \in abandoned'
               \/ \E h \in Working' : Id(on[h])' = k /\ record[k].holder = h
    BY <2>1, <2>2, <2>4 DEF Id
  <2> QED
    BY <2>3, <2>4 DEF LockHasReason
<1>12. CASE Tick
  <2>1. UNCHANGED <<raw, pc, on, abandoned>>
    BY <1>12 DEF Tick
  <2>2. \A k \in Key : /\ record'[k].status = record[k].status
                       /\ record'[k].holder = record[k].holder
    BY <1>12 DEF Tick
  <2> QED
    BY <2>1, <2>2 DEF LockHasReason, Working, Id
<1>13. CASE UNCHANGED vars
  BY <1>13, ReasonKept DEF vars
<1> QED
  BY <1>1, <1>2, <1>3, <1>4, <1>5, <1>6, <1>8, <1>9, <1>10, <1>11,
     <1>12, <1>13 DEF Next, Step

\* A redelivery is refused as in progress only while an invocation works on the
\* key, or after one died, or got no answer, while it held it.
THEOREM LocksHaveReasons == Spec => []LockHasReason
BY ReasonInit, ReasonNext, TypeAlways, PTL DEF Spec

-----------------------------------------------------------------------------
(* Whoever works holds the lock of its key, for as long as it may run.     *)

Held(i) ==
  LET r == record[Id(on[i])] IN
  /\ r.status = "IN_PROGRESS"
  /\ r.holder = i
  /\ r.body = raw[on[i]]
  /\ r.left + RunTime >= left[i] + LockTime

\* Only a finalization that was stored but raised leaves a worker without.
Covered(i) == Held(i) \/ (pc[i] = "abort" /\ record[Id(on[i])].status = "COMPLETED")

LockInv == \A i \in Working : Covered(i)

\* The key of a worker is nobody else's to claim.
LEMMA NotClaimable ==
  ASSUME RunTime < LockTime, TypeInv, NEW i \in Working, Covered(i),
         NEW m \in Message, Claimable(m)
  PROVE  Id(m) # Id(on[i])
<1> SUFFICES ASSUME Id(m) = Id(on[i]) PROVE FALSE
  OBVIOUS
<1>1. record[Id(m)] \in Record /\ left[i] \in Nat
  BY IdFacts DEF TypeInv, TypeOK, Working
<1>2. CASE Held(i)
  <2>1. record[Id(m)].status = "IN_PROGRESS" /\ record[Id(m)].left # 0
    BY <1>1, <1>2, ConstantsAssumption DEF Held, Record
  <2> QED
    BY <2>1 DEF Claimable, Expired
<1>3. CASE record[Id(m)].status = "COMPLETED"
  BY <1>3 DEF Claimable, Expired
<1> QED
  BY <1>2, <1>3 DEF Covered

\* A worker the step leaves alone.
LEMMA CoveredKept ==
  ASSUME TypeInv, NEW i \in Working, Covered(i), raw' = raw,
         pc'[i] = pc[i], on'[i] = on[i], left'[i] = left[i],
         record'[Id(on[i])] = record[Id(on[i])]
  PROVE  Covered(i)'
BY DEF Covered, Held, Id

\* A finalization leaves the key of every other worker alone.
LEMMA FinalizeElsewhere ==
  ASSUME TypeInv, NEW i \in Working, NEW j \in Working \ {i}, Covered(j),
         NEW s, Finalize(i, s)
  PROVE  record'[Id(on[j])] = record[Id(on[j])]
<1>1. CASE Id(on[i]) = Id(on[j])
  <2>1. ~Owns(i)
    BY <1>1 DEF Covered, Held, Owns
  <2> QED
    BY <2>1 DEF Finalize
<1>2. CASE Id(on[i]) # Id(on[j])
  <2>1. Id(on[i]) \in Key /\ Id(on[j]) \in Key
    BY WorkingFacts DEF Working
  <2> QED
    BY <1>2, <2>1 DEF Finalize, TypeInv, TypeOK
<1> QED
  BY <1>1, <1>2

LEMMA LockInit == Init => LockInv
BY DEF Init, LockInv, Working

LEMMA LockNext ==
  ASSUME RunTime < LockTime
  PROVE  TypeInv /\ LockInv /\ [Next]_vars => LockInv'
<1> SUFFICES ASSUME TypeInv, LockInv, [Next]_vars PROVE LockInv'
  OBVIOUS
<1> USE ConstantsAssumption
<1> USE DEF queueVars, requestVars, workerVars, historyVars
<1>0. ASSUME UNCHANGED <<raw, record, pc, on, left>> PROVE LockInv'
  BY <1>0 DEF LockInv, Working, Covered, Held, Id
<1>1. ASSUME NEW m \in Message, Send(m) \/ DeadLetter(m) PROVE LockInv'
  BY <1>0, <1>1 DEF Send, DeadLetter
<1>2. ASSUME NEW s \in Source, PublishSource(s) \/ NoteSource(s) PROVE LockInv'
  BY <1>0, <1>2 DEF PublishSource, NoteSource
<1>3. CASE StaffWrites
  BY <1>0, <1>3 DEF StaffWrites
<1>4. ASSUME NEW i \in Invocation, Receive(i) \/ Return(i) \/ Crash(i) PROVE LockInv'
  <2>1. /\ UNCHANGED <<raw, record>>
        /\ pc'[i] \notin {"read", "write", "commit", "abort"}
        /\ \A j \in Invocation \ {i} :
              pc'[j] = pc[j] /\ on'[j] = on[j] /\ left'[j] = left[j]
    BY <1>4 DEF Receive, Return, Crash, Leave, TypeInv, TypeOK
  <2> SUFFICES ASSUME NEW j \in Working' PROVE Covered(j)'
    BY DEF LockInv
  <2>2. j \in Working \ {i}
    BY <2>1 DEF Working
  <2> QED
    BY <2>1, <2>2, CoveredKept DEF LockInv, Working
<1>5. ASSUME NEW i \in Invocation, Begin(i) PROVE LockInv'
  <2>1. UNCHANGED <<raw, left>> /\ pc[i] = "next"
    BY <1>5 DEF Begin
  <2>2. PICK m \in todo[i] :
          \/ UNCHANGED <<record, pc, on>>
          \/ /\ Claimable(m)
             /\ record' = [record EXCEPT ![Id(m)] = Locked(i, m)]
             /\ \/ /\ pc' = [pc EXCEPT ![i] = "read"]
                   /\ on' = [on EXCEPT ![i] = m]
                \/ UNCHANGED <<pc, on>>
    BY <1>5 DEF Begin
  <2>3. m \in Message /\ Id(m) \in Key
    BY IdFacts DEF TypeInv, TypeOK
  <2>4. CASE UNCHANGED <<record, pc, on>>
    BY <1>0, <2>1, <2>4
  <2>5. CASE /\ Claimable(m)
             /\ record' = [record EXCEPT ![Id(m)] = Locked(i, m)]
             /\ \/ /\ pc' = [pc EXCEPT ![i] = "read"]
                   /\ on' = [on EXCEPT ![i] = m]
                \/ UNCHANGED <<pc, on>>
    <3> SUFFICES ASSUME NEW j \in Working' PROVE Covered(j)'
      BY DEF LockInv
    <3>1. CASE j = i
      <4>1. on'[i] = m
        BY <2>1, <2>5, <3>1 DEF Working, TypeInv, TypeOK
      <4>2. record'[Id(m)] = Locked(i, m)
        BY <2>3, <2>5 DEF TypeInv, TypeOK
      <4>3. left'[i] \in Nat /\ left'[i] <= RunTime
        BY <2>1 DEF TypeInv, TypeOK, InHand, Working
      <4>4. Held(i)'
        BY <2>1, <4>1, <4>2, <4>3 DEF Held, Id, Locked
      <4> QED
        BY <3>1, <4>4 DEF Covered
    <3>2. CASE j # i
      <4>1. j \in Working /\ pc'[j] = pc[j] /\ on'[j] = on[j]
        BY <2>5, <3>2 DEF Working, TypeInv, TypeOK
      <4>2. Covered(j)
        BY <4>1 DEF LockInv
      <4>3. Id(m) # Id(on[j])
        BY <2>3, <2>5, <4>1, <4>2, NotClaimable
      <4>4. record'[Id(on[j])] = record[Id(on[j])]
        BY <2>5, <4>1, <4>3, WorkingFacts DEF TypeInv, TypeOK, Working
      <4> QED
        BY <2>1, <4>1, <4>2, <4>4, CoveredKept
    <3> QED
      BY <3>1, <3>2
  <2> QED
    BY <2>2, <2>4, <2>5
<1>6. ASSUME NEW i \in Invocation, ReadCurrent(i) \/ WriteCurrent(i) PROVE LockInv'
  <2>1. UNCHANGED <<raw, record, on, left>> /\ pc[i] \in {"read", "write"}
    BY <1>6 DEF ReadCurrent, WriteCurrent
  <2>2. PICK where \in {"write", "commit", "abort"} : pc' = [pc EXCEPT ![i] = where]
    BY <1>6 DEF ReadCurrent, WriteCurrent
  <2>3. Working' = Working /\ i \in Working
    BY <2>1, <2>2 DEF Working, TypeInv, TypeOK
  <2>4. Held(i)
    BY <2>1, <2>3 DEF LockInv, Covered
  <2>5. \A j \in Working : Held(j)' <=> Held(j)
    BY <2>1 DEF Held, Id
  <2>6. \A j \in Working \ {i} : pc'[j] = pc[j]
    BY <2>2 DEF Working, TypeInv, TypeOK
  <2> QED
    BY <2>1, <2>3, <2>4, <2>5, <2>6 DEF LockInv, Covered, Id
<1>7. ASSUME NEW i \in Working, NEW s, Finalize(i, s), UNCHANGED <<raw, left>>,
             \A j \in Invocation \ {i} : pc'[j] = pc[j] /\ on'[j] = on[j],
             i \in Working' => Covered(i)'
      PROVE  LockInv'
  <2> SUFFICES ASSUME NEW j \in Working', j # i PROVE Covered(j)'
    BY <1>7 DEF LockInv
  <2>1. j \in Working
    BY <1>7 DEF Working
  <2>2. Covered(j)
    BY <2>1 DEF LockInv
  <2>3. record'[Id(on[j])] = record[Id(on[j])]
    BY <1>7, <2>1, <2>2, FinalizeElsewhere
  <2> QED
    BY <1>7, <2>1, <2>2, <2>3, CoveredKept DEF Working
<1>8. ASSUME NEW i \in Invocation, Commit(i) PROVE LockInv'
  <2>1. i \in Working /\ pc[i] = "commit" /\ UNCHANGED <<raw, left>>
    BY <1>8 DEF Commit, Working
  <2>2. Held(i) /\ Id(on[i]) \in Key
    BY <2>1, WorkingFacts DEF LockInv, Covered
  <2>3. CASE Finalize(i, "COMPLETED") /\ EndRecord(i)
    <3>1. i \notin Working'
      BY <2>1, <2>3 DEF EndRecord, Working, TypeInv, TypeOK
    <3>2. \A j \in Invocation \ {i} : pc'[j] = pc[j] /\ on'[j] = on[j]
      BY <2>3 DEF EndRecord, TypeInv, TypeOK
    <3> QED
      BY <1>7, <2>1, <2>3, <3>1, <3>2
  <2>4. CASE /\ Finalize(i, "COMPLETED")
             /\ pc' = [pc EXCEPT ![i] = "abort"]
             /\ on' = on
    <3>1. record'[Id(on[i])] = Finalized(i, "COMPLETED")
      BY <2>2, <2>4 DEF Finalize, Owns, Held, TypeInv, TypeOK
    <3>2. Covered(i)'
      BY <2>1, <2>4, <3>1 DEF Covered, Finalized, Id, TypeInv, TypeOK
    <3>3. \A j \in Invocation \ {i} : pc'[j] = pc[j] /\ on'[j] = on[j]
      BY <2>4 DEF TypeInv, TypeOK
    <3> QED
      BY <1>7, <2>1, <2>4, <3>2, <3>3
  <2>5. CASE UNCHANGED <<record, on>> /\ pc' = [pc EXCEPT ![i] = "abort"]
    <3>1. Working' = Working
      BY <2>1, <2>5 DEF Working, TypeInv, TypeOK
    <3>2. \A j \in Working : Held(j)' <=> Held(j)
      BY <2>1, <2>5 DEF Held, Id
    <3>3. \A j \in Working \ {i} : pc'[j] = pc[j]
      BY <2>5 DEF Working, TypeInv, TypeOK
    <3> QED
      BY <2>1, <2>2, <2>5, <3>1, <3>2, <3>3 DEF LockInv, Covered, Id
  <2> QED
    BY <1>8, <2>3, <2>4, <2>5 DEF Commit
<1>9. ASSUME NEW i \in Invocation, Abort(i) PROVE LockInv'
  <2>1. i \in Working /\ UNCHANGED <<raw, left>> /\ EndRecord(i)
    BY <1>9 DEF Abort, Working
  <2>2. i \notin Working' /\ \A j \in Invocation \ {i} : pc'[j] = pc[j] /\ on'[j] = on[j]
    BY <2>1 DEF EndRecord, Working, TypeInv, TypeOK
  <2>3. CASE Finalize(i, "FAILED")
    BY <1>7, <2>1, <2>2, <2>3
  <2>4. CASE UNCHANGED record
    <3> SUFFICES ASSUME NEW j \in Working' PROVE Covered(j)'
      BY DEF LockInv
    <3>1. j \in Working \ {i}
      BY <2>2 DEF Working
    <3> QED
      BY <2>1, <2>2, <2>4, <3>1, CoveredKept DEF LockInv, Working
  <2> QED
    BY <1>9, <2>3, <2>4 DEF Abort, RecordFailure
<1>10. CASE Tick
  <2> SUFFICES ASSUME NEW j \in Working' PROVE Covered(j)'
    BY DEF LockInv
  <2>1. /\ UNCHANGED <<raw, pc, on>> /\ j \in Working /\ j \in Invocation
        /\ left[j] \in Nat /\ left[j] > 0 /\ left'[j] = left[j] - 1
    BY <1>10 DEF Tick, Working, Running, OneLess, TypeInv, TypeOK
  <2>2. Id(on[j]) \in Key /\ record[Id(on[j])] \in Record
    BY <2>1, WorkingFacts DEF Working
  <2>3. PICK k \in Key : k = Id(on[j])
    BY <2>2
  <2>4. /\ record'[k].status = record[k].status
        /\ record'[k].holder = record[k].holder
        /\ record'[k].body = record[k].body
        /\ record'[k].left = OneLess(record[k].left)
        /\ record[k].left \in Nat
    BY <1>10, <2>2, <2>3 DEF Tick, Record
  <2>5. Id(on[j])' = k
    BY <2>1, <2>3 DEF Id
  <2>6. CASE Held(j)
    <3>1. record[k].left > 0
      BY <2>1, <2>3, <2>4, <2>6 DEF Held
    <3>2. Held(j)'
      BY <2>1, <2>3, <2>4, <2>5, <2>6, <3>1 DEF Held, OneLess
    <3> QED
      BY <3>2 DEF Covered
  <2>7. CASE pc[j] = "abort" /\ record[k].status = "COMPLETED"
    BY <2>1, <2>4, <2>5, <2>7 DEF Covered
  <2> QED
    BY <2>1, <2>3, <2>6, <2>7 DEF LockInv, Covered
<1>11. CASE UNCHANGED vars
  BY <1>0, <1>11 DEF vars
<1> QED
  BY <1>1, <1>2, <1>3, <1>4, <1>5, <1>6, <1>8, <1>9, <1>10, <1>11 DEF Next, Step

LEMMA LockAlways ==
  ASSUME RunTime < LockTime
  PROVE  Spec => []LockInv
BY LockInit, LockNext, TypeAlways, PTL DEF Spec

-----------------------------------------------------------------------------
(* What is deleted is done.                                                *)

\* The message changed the request, or found it terminal.
Outcome(k) == applied[k] > 0 \/ k \in skipped

\* Its outcome is stored under its key, for its content.
Settled(m) ==
  /\ record[Id(m)].status = "COMPLETED"
  /\ record[Id(m)].body = raw[m]
  /\ Outcome(Id(m))

OutcomeInv ==
  /\ \A i \in Invocation : pc[i] = "commit" => Outcome(Id(on[i]))
  /\ \A k \in Key : record[k].status = "COMPLETED" => Outcome(k)

\* Every message of a batch is still to do, in hand, reported or settled.
Accounted(i, m) ==
  \/ m \in todo[i]
  \/ m \in failed[i]
  \/ i \in Working /\ on[i] = m
  \/ Settled(m)

BatchInv == \A i \in Running : \A m \in batch[i] : Accounted(i, m)

LEMMA RawStays == [Next]_vars => raw' = raw
BY DEF Next, Step, vars, queueVars, Send, DeadLetter, PublishSource, NoteSource,
       StaffWrites, Receive, Begin, ReadCurrent, WriteCurrent, Commit, Abort,
       Return, Crash, Tick

\* Counts only grow, and nobody is taken off skipped.
LEMMA OutcomeStays ==
  ASSUME TypeInv, [Next]_vars, NEW k \in Key, Outcome(k)
  PROVE  Outcome(k)'
<1> USE DEF queueVars, requestVars, workerVars, historyVars
<1>1. CASE UNCHANGED <<applied, skipped>>
  BY <1>1 DEF Outcome
<1>2. ASSUME NEW i \in Invocation, ReadCurrent(i) PROVE Outcome(k)'
  BY <1>2 DEF ReadCurrent, Outcome
<1>3. ASSUME NEW i \in Invocation, WriteCurrent(i) PROVE Outcome(k)'
  <2>1. skipped' = skipped /\ (applied' = applied \/ applied' = Count(applied, i))
    BY <1>3 DEF WriteCurrent
  <2>2. applied'[k] = applied[k] \/ applied'[k] = applied[k] + 1
    BY <2>1 DEF Count, TypeInv, TypeOK
  <2>3. applied[k] \in Nat
    BY DEF TypeInv, TypeOK
  <2> QED
    BY <2>1, <2>2, <2>3 DEF Outcome
<1> QED
  BY <1>1, <1>2, <1>3 DEF Next, Step, vars, Send, DeadLetter, PublishSource, NoteSource,
     StaffWrites, Receive, Begin, Commit, Abort, Return, Crash, Tick

\* No finalization and no claim touches a completed key.
LEMMA CompletedStays ==
  ASSUME TypeInv, [Next]_vars, NEW k \in Key, record[k].status = "COMPLETED"
  PROVE  record'[k].status = "COMPLETED" /\ record'[k].body = record[k].body
<1> USE DEF queueVars, requestVars, workerVars, historyVars
<1>1. CASE record' = record
  BY <1>1
<1>2. ASSUME NEW i \in Invocation, NEW s, Finalize(i, s)
      PROVE  record'[k] = record[k]
  BY <1>2 DEF Finalize, Owns, TypeInv, TypeOK
<1>3. ASSUME NEW i \in Invocation, Begin(i) PROVE record'[k] = record[k]
  <2>1. PICK m \in todo[i] :
          \/ record' = record
          \/ Claimable(m) /\ record' = [record EXCEPT ![Id(m)] = Locked(i, m)]
    BY <1>3 DEF Begin
  <2>2. CASE record' = record
    BY <2>2
  <2>3. CASE Claimable(m) /\ record' = [record EXCEPT ![Id(m)] = Locked(i, m)]
    <3>1. Id(m) # k
      BY <2>3 DEF Claimable, Expired
    <3> QED
      BY <2>3, <3>1 DEF TypeInv, TypeOK
  <2> QED
    BY <2>1, <2>2, <2>3
<1>4. CASE Tick
  BY <1>4 DEF Tick
<1>5. ASSUME NEW i \in Invocation, Commit(i) \/ Abort(i)
      PROVE  \/ record' = record
             \/ \E s \in {"FAILED", "COMPLETED"} : Finalize(i, s)
  BY <1>5 DEF Commit, Abort, RecordFailure
<1> QED
  BY <1>1, <1>2, <1>3, <1>4, <1>5 DEF Next, Step, vars, Send, DeadLetter, PublishSource,
     NoteSource, StaffWrites, Receive, ReadCurrent, WriteCurrent, Return, Crash

LEMMA SettledStays ==
  ASSUME TypeInv, [Next]_vars, NEW m \in Message, Settled(m)
  PROVE  Settled(m)'
<1>1. raw' = raw /\ Id(m) \in Key /\ Id(m)' = Id(m)
  BY RawStays, IdFacts DEF Id
<1>2. PICK k \in Key : k = Id(m)
  BY <1>1
<1>3. Outcome(k)'
  BY <1>2, OutcomeStays DEF Settled
<1>4. record'[k].status = "COMPLETED" /\ record'[k].body = record[k].body
  BY <1>2, CompletedStays DEF Settled
<1> QED
  BY <1>1, <1>2, <1>3, <1>4 DEF Settled, Outcome

LEMMA DoneInit == Init => OutcomeInv /\ BatchInv /\ DeletedIsDone
BY DEF Init, OutcomeInv, BatchInv, DeletedIsDone, NoRecord, Running

LEMMA OutcomeNext == TypeInv /\ OutcomeInv /\ [Next]_vars => OutcomeInv'
<1> SUFFICES ASSUME TypeInv, OutcomeInv, [Next]_vars PROVE OutcomeInv'
  OBVIOUS
<1> USE DEF queueVars, requestVars, workerVars, historyVars
\* Nobody reaches "commit" and no key is completed by the step.
<1>0. ASSUME \A i \in Invocation : pc'[i] = "commit" => pc[i] = "commit" /\ on'[i] = on[i],
             \A k \in Key : record'[k].status = "COMPLETED" => record[k].status = "COMPLETED"
      PROVE  OutcomeInv'
  <2>1. ASSUME NEW i \in Invocation, pc'[i] = "commit" PROVE Outcome(Id(on[i]))'
    <3>1. pc[i] = "commit" /\ on'[i] = on[i] /\ Outcome(Id(on[i]))
      BY <1>0, <2>1 DEF OutcomeInv
    <3>2. Id(on[i]) \in Key /\ Id(on[i])' = Id(on[i])
      BY <3>1, WorkingFacts, RawStays DEF Id
    <3>3. PICK k \in Key : k = Id(on[i])
      BY <3>2
    <3>4. Outcome(k)'
      BY <3>1, <3>3, OutcomeStays
    <3> QED
      BY <3>2, <3>3, <3>4 DEF Outcome
  <2>2. ASSUME NEW k \in Key, record'[k].status = "COMPLETED" PROVE Outcome(k)'
    BY <1>0, <2>2, OutcomeStays DEF OutcomeInv
  <2> QED
    BY <2>1, <2>2 DEF OutcomeInv
<1>1. CASE UNCHANGED <<record, pc, on>>
  BY <1>0, <1>1
<1>2. ASSUME NEW i \in Invocation, Receive(i) \/ Return(i) \/ Crash(i) PROVE OutcomeInv'
  BY <1>0, <1>2 DEF Receive, Return, Crash, Leave, TypeInv, TypeOK
<1>3. ASSUME NEW i \in Invocation, Begin(i) PROVE OutcomeInv'
  <2>1. PICK m \in todo[i] :
          /\ record' = record \/ record' = [record EXCEPT ![Id(m)] = Locked(i, m)]
          /\ \/ UNCHANGED <<pc, on>>
             \/ pc' = [pc EXCEPT ![i] = "read"] /\ on' = [on EXCEPT ![i] = m]
    BY <1>3 DEF Begin
  <2>2. \A k \in Key : record'[k].status = "COMPLETED" => record[k].status = "COMPLETED"
    BY <2>1 DEF Locked, TypeInv, TypeOK
  <2>3. \A j \in Invocation : pc'[j] = "commit" => pc[j] = "commit" /\ on'[j] = on[j]
    BY <2>1 DEF TypeInv, TypeOK
  <2> QED
    BY <1>0, <2>2, <2>3
<1>4. ASSUME NEW i \in Invocation, on[i] \in Message, Outcome(Id(on[i]))',
             pc' = [pc EXCEPT ![i] = "commit"], UNCHANGED <<record, on>>
      PROVE  OutcomeInv'
  <2>1. \A k \in Key : record'[k].status = "COMPLETED" => Outcome(k)'
    BY <1>4, OutcomeStays DEF OutcomeInv
  <2>2. ASSUME NEW j \in Invocation \ {i}, pc'[j] = "commit" PROVE Outcome(Id(on[j]))'
    <3>1. pc[j] = "commit" /\ Outcome(Id(on[j]))
      BY <1>4, <2>2 DEF OutcomeInv, TypeInv, TypeOK
    <3>2. Id(on[j]) \in Key /\ Id(on[j])' = Id(on[j])
      BY <1>4, <3>1, WorkingFacts, RawStays DEF Id
    <3>3. PICK k \in Key : k = Id(on[j])
      BY <3>2
    <3>4. Outcome(k)'
      BY <3>1, <3>3, OutcomeStays
    <3> QED
      BY <3>2, <3>3, <3>4 DEF Outcome
  <2> QED
    BY <1>4, <2>1, <2>2 DEF OutcomeInv
<1>5. ASSUME NEW i \in Invocation, ReadCurrent(i) PROVE OutcomeInv'
  <2>1. UNCHANGED <<record, on>> /\ on[i] \in Message /\ Id(on[i])' = Id(on[i])
    BY <1>5, WorkingFacts, RawStays DEF ReadCurrent, Id
  <2>2. CASE pc' = [pc EXCEPT ![i] = "commit"] /\ skipped' = skipped \cup {Id(on[i])}
    BY <1>4, <2>1, <2>2 DEF Outcome
  <2>3. CASE \E where \in {"abort", "write"} : pc' = [pc EXCEPT ![i] = where]
    BY <1>0, <2>1, <2>3 DEF TypeInv, TypeOK
  <2> QED
    BY <1>5, <2>2, <2>3 DEF ReadCurrent
<1>6. ASSUME NEW i \in Invocation, WriteCurrent(i) PROVE OutcomeInv'
  <2>1. /\ UNCHANGED <<record, on>> /\ on[i] \in Message /\ Id(on[i])' = Id(on[i])
        /\ Id(on[i]) \in Key
    BY <1>6, WorkingFacts, RawStays DEF WriteCurrent, Id
  <2>2. CASE pc' = [pc EXCEPT ![i] = "commit"] /\ applied' = Count(applied, i)
    <3>1. applied'[Id(on[i])] > 0
      BY <2>1, <2>2 DEF Count, TypeInv, TypeOK
    <3> QED
      BY <1>4, <2>1, <2>2, <3>1 DEF Outcome
  <2>3. CASE pc' = [pc EXCEPT ![i] = "abort"]
    BY <1>0, <2>1, <2>3 DEF TypeInv, TypeOK
  <2> QED
    BY <1>6, <2>2, <2>3 DEF WriteCurrent
<1>7. ASSUME NEW i \in Invocation, Commit(i) PROVE OutcomeInv'
  <2>1. /\ pc[i] = "commit" /\ Id(on[i]) \in Key /\ Outcome(Id(on[i]))
    BY <1>7, WorkingFacts DEF Commit, OutcomeInv
  <2>2. PICK k \in Key : k = Id(on[i])
    BY <2>1
  <2>3. Outcome(k)'
    BY <2>1, <2>2, OutcomeStays
  <2>4. \A l \in Key \ {k} : record'[l] = record[l]
    BY <1>7, <2>2 DEF Commit, Finalize, TypeInv, TypeOK
  <2>5. ASSUME NEW l \in Key, record'[l].status = "COMPLETED" PROVE Outcome(l)'
    BY <2>3, <2>4, <2>5, OutcomeStays DEF OutcomeInv
  <2>6. \A j \in Invocation : pc'[j] = "commit" => pc[j] = "commit" /\ on'[j] = on[j]
    BY <1>7 DEF Commit, EndRecord, TypeInv, TypeOK
  <2>7. ASSUME NEW j \in Invocation, pc'[j] = "commit" PROVE Outcome(Id(on[j]))'
    <3>1. pc[j] = "commit" /\ on'[j] = on[j] /\ Outcome(Id(on[j]))
      BY <2>6, <2>7 DEF OutcomeInv
    <3>2. Id(on[j]) \in Key /\ Id(on[j])' = Id(on[j])
      BY <3>1, WorkingFacts, RawStays DEF Id
    <3>3. PICK l \in Key : l = Id(on[j])
      BY <3>2
    <3>4. Outcome(l)'
      BY <3>1, <3>3, OutcomeStays
    <3> QED
      BY <3>2, <3>3, <3>4 DEF Outcome
  <2> QED
    BY <2>5, <2>7 DEF OutcomeInv
<1>8. ASSUME NEW i \in Invocation, Abort(i) PROVE OutcomeInv'
  <2>1. \A j \in Invocation : pc'[j] = "commit" => pc[j] = "commit" /\ on'[j] = on[j]
    BY <1>8 DEF Abort, EndRecord, TypeInv, TypeOK
  <2>2. Id(on[i]) \in Key
    BY <1>8, WorkingFacts DEF Abort
  <2>3. \A k \in Key : record'[k].status = "COMPLETED" => record[k].status = "COMPLETED"
    BY <1>8, <2>2 DEF Abort, RecordFailure, Finalize, Finalized, TypeInv, TypeOK
  <2> QED
    BY <1>0, <2>1, <2>3
<1>9. CASE Tick
  <2>1. \A k \in Key : record'[k].status = record[k].status
    BY <1>9 DEF Tick
  <2> QED
    BY <1>0, <1>9, <2>1 DEF Tick
<1> QED
  BY <1>1, <1>2, <1>3, <1>5, <1>6, <1>7, <1>8, <1>9 DEF Next, Step, vars, Send,
     DeadLetter, PublishSource, NoteSource, StaffWrites

\* A message of an invocation that the step leaves alone.
LEMMA AccountedKept ==
  ASSUME TypeInv, [Next]_vars, NEW i \in Invocation, NEW m \in Message, Accounted(i, m),
         UNCHANGED <<todo[i], failed[i], pc[i], on[i]>>
  PROVE  Accounted(i, m)'
<1>1. Settled(m) => Settled(m)'
  BY SettledStays
<1> QED
  BY <1>1 DEF Accounted, Working

LEMMA BatchNext ==
  ASSUME RunTime < LockTime
  PROVE  TypeInv /\ LockInv /\ OutcomeInv /\ BatchInv /\ [Next]_vars => BatchInv'
<1> SUFFICES ASSUME TypeInv, LockInv, OutcomeInv, BatchInv, [Next]_vars PROVE BatchInv'
  OBVIOUS
<1> USE DEF queueVars, requestVars, workerVars, historyVars
<1>0. ASSUME UNCHANGED <<pc, batch, todo, on, failed>> PROVE BatchInv'
  <2> SUFFICES ASSUME NEW j \in Running', NEW m \in batch'[j] PROVE Accounted(j, m)'
    BY DEF BatchInv
  <2>1. j \in Running /\ j \in Invocation /\ m \in batch[j] /\ m \in Message
    BY <1>0 DEF Running, TypeInv, TypeOK
  <2> QED
    BY <1>0, <2>1, AccountedKept DEF BatchInv
\* A step of invocation i alone, which accounts for its own batch.
<1>1. ASSUME NEW i \in Invocation,
             \A j \in Invocation \ {i} :
               UNCHANGED <<pc[j], batch[j], todo[j], on[j], failed[j]>>,
             i \in Running' => \A m \in batch'[i] : Accounted(i, m)'
      PROVE  BatchInv'
  <2> SUFFICES ASSUME NEW j \in Running', j # i, NEW m \in batch'[j]
               PROVE  Accounted(j, m)'
    BY <1>1 DEF BatchInv
  <2>1. /\ j \in Running /\ j \in Invocation \ {i} /\ m \in batch[j] /\ m \in Message
    BY <1>1 DEF Running, TypeInv, TypeOK
  <2>2. UNCHANGED <<todo[j], failed[j], pc[j], on[j]>>
    BY <1>1, <2>1
  <2> QED
    BY <2>1, <2>2, AccountedKept DEF BatchInv
<1>2. ASSUME NEW i \in Invocation, Receive(i) PROVE BatchInv'
  <2>1. PICK B : batch' = [batch EXCEPT ![i] = B] /\ todo' = [todo EXCEPT ![i] = B]
    BY <1>2 DEF Receive
  <2>2. \A m \in batch'[i] : Accounted(i, m)'
    BY <2>1 DEF Accounted, TypeInv, TypeOK
  <2>3. \A j \in Invocation \ {i} : UNCHANGED <<pc[j], batch[j], todo[j], on[j], failed[j]>>
    BY <1>2 DEF Receive, TypeInv, TypeOK
  <2> QED
    BY <1>1, <2>2, <2>3
<1>3. ASSUME NEW i \in Invocation, Return(i) \/ Crash(i) PROVE BatchInv'
  <2>1. i \notin Running'
    BY <1>3 DEF Return, Crash, Leave, Running, TypeInv, TypeOK
  <2>2. \A j \in Invocation \ {i} : UNCHANGED <<pc[j], batch[j], todo[j], on[j], failed[j]>>
    BY <1>3 DEF Return, Crash, Leave, TypeInv, TypeOK
  <2> QED
    BY <1>1, <2>1, <2>2
<1>4. ASSUME NEW i \in Invocation, Begin(i) PROVE BatchInv'
  <2>1. PICK m \in todo[i] :
          /\ todo' = [todo EXCEPT ![i] = @ \ {m}]
          /\ \/ Replayable(m) /\ UNCHANGED <<record, pc, on, failed>>
             \/ /\ pc' = [pc EXCEPT ![i] = "read"]
                /\ on' = [on EXCEPT ![i] = m]
                /\ UNCHANGED failed
             \/ /\ failed' = [failed EXCEPT ![i] = @ \cup {m}]
                /\ UNCHANGED <<pc, on>>
    BY <1>4 DEF Begin
  <2>2. pc[i] = "next" /\ batch' = batch /\ m \in Message /\ Id(m) \in Key
    BY <1>4, IdFacts DEF Begin, TypeInv, TypeOK
  <2>3. Accounted(i, m)'
    <3>1. CASE Replayable(m)
      <4>1. Settled(m)
        BY <2>2, <3>1 DEF Replayable, OutcomeInv, Settled
      <4> QED
        BY <2>2, <4>1, SettledStays DEF Accounted
    <3>2. CASE pc' = [pc EXCEPT ![i] = "read"] /\ on' = [on EXCEPT ![i] = m]
      BY <3>2 DEF Accounted, Working, TypeInv, TypeOK
    <3>3. CASE failed' = [failed EXCEPT ![i] = @ \cup {m}]
      BY <3>3 DEF Accounted, TypeInv, TypeOK
    <3> QED
      BY <2>1, <3>1, <3>2, <3>3
  <2>4. ASSUME NEW n \in batch'[i], n # m PROVE Accounted(i, n)'
    <3>1. Accounted(i, n) /\ i \notin Working /\ n \in Message
      BY <2>2, <2>4 DEF BatchInv, Running, Working, TypeInv, TypeOK
    <3>2. CASE n \in todo[i]
      BY <2>1, <2>4, <3>2 DEF Accounted, TypeInv, TypeOK
    <3>3. CASE n \in failed[i]
      BY <2>1, <3>3 DEF Accounted, TypeInv, TypeOK
    <3>4. CASE Settled(n)
      BY <3>1, <3>4, SettledStays DEF Accounted
    <3> QED
      BY <3>1, <3>2, <3>3, <3>4 DEF Accounted
  <2>5. \A j \in Invocation \ {i} : UNCHANGED <<pc[j], batch[j], todo[j], on[j], failed[j]>>
    BY <1>4, <2>1 DEF Begin, TypeInv, TypeOK
  <2> QED
    BY <1>1, <2>3, <2>4, <2>5
\* The record in hand stays there.
<1>5. ASSUME NEW i \in Invocation, i \in Working, UNCHANGED <<batch, todo, on, failed>>,
             \E where \in {"write", "commit", "abort"} : pc' = [pc EXCEPT ![i] = where]
      PROVE  BatchInv'
  <2>1. ASSUME NEW n \in batch'[i] PROVE Accounted(i, n)'
    <3>1. Accounted(i, n) /\ n \in Message
      BY <1>5, <2>1 DEF BatchInv, Running, Working, TypeInv, TypeOK
    <3>2. i \in Working'
      BY <1>5 DEF Working, TypeInv, TypeOK
    <3> QED
      BY <1>5, <3>1, <3>2, SettledStays DEF Accounted
  <2>2. \A j \in Invocation \ {i} : UNCHANGED <<pc[j], batch[j], todo[j], on[j], failed[j]>>
    BY <1>5 DEF TypeInv, TypeOK
  <2> QED
    BY <1>1, <2>1, <2>2
<1>6. ASSUME NEW i \in Invocation, ReadCurrent(i) \/ WriteCurrent(i) PROVE BatchInv'
  BY <1>5, <1>6 DEF ReadCurrent, WriteCurrent, Working
<1>7. ASSUME NEW i \in Invocation, Commit(i) PROVE BatchInv'
  <2>1. i \in Working /\ pc[i] = "commit" /\ UNCHANGED <<batch, todo, failed>>
    BY <1>7 DEF Commit, Working
  <2>2. CASE Finalize(i, "COMPLETED") /\ EndRecord(i)
    <3>1. /\ Held(i) /\ on[i] \in Message /\ Id(on[i]) \in Key /\ Outcome(Id(on[i]))
      BY <2>1, WorkingFacts DEF LockInv, Covered, OutcomeInv
    <3>2. PICK m \in Message : m = on[i]
      BY <3>1
    <3>3. PICK k \in Key : k = Id(m)
      BY <3>1, <3>2
    <3>4. record'[k].status = "COMPLETED" /\ record'[k].body = raw[m]
      BY <2>2, <3>1, <3>2, <3>3 DEF Finalize, Finalized, Owns, Held, TypeInv, TypeOK
    <3>5. Outcome(k)'
      BY <3>1, <3>2, <3>3, OutcomeStays
    <3>6. raw' = raw /\ Id(m)' = k
      BY <3>3, RawStays DEF Id
    <3>7. Settled(m)'
      BY <3>4, <3>5, <3>6 DEF Settled, Outcome
    <3>8. \A n : n = m => Accounted(i, n)'
      BY <3>7 DEF Accounted
    <3>9. \A n \in batch'[i] : Accounted(i, n)'
      <4> SUFFICES ASSUME NEW n \in batch'[i], n # m PROVE Accounted(i, n)'
        BY <3>8
      <4>1. Accounted(i, n) /\ n \in Message
        BY <2>1 DEF BatchInv, Running, Working, TypeInv, TypeOK
      <4> QED
        BY <2>1, <3>2, <4>1, SettledStays DEF Accounted
    <3>10. \A j \in Invocation \ {i} :
             UNCHANGED <<pc[j], batch[j], todo[j], on[j], failed[j]>>
      BY <2>1, <2>2 DEF EndRecord, TypeInv, TypeOK
    <3> QED
      BY <1>1, <3>9, <3>10
  <2>3. CASE pc' = [pc EXCEPT ![i] = "abort"] /\ on' = on
    BY <1>5, <2>1, <2>3
  <2> QED
    BY <1>7, <2>2, <2>3 DEF Commit
<1>8. ASSUME NEW i \in Invocation, Abort(i) PROVE BatchInv'
  <2>1. /\ i \in Working /\ UNCHANGED <<batch, todo>> /\ EndRecord(i)
        /\ failed' = [failed EXCEPT ![i] = @ \cup {on[i]}]
    BY <1>8 DEF Abort, Working
  <2>2. \A n \in batch'[i] : Accounted(i, n)'
    <3> SUFFICES ASSUME NEW n \in batch'[i] PROVE Accounted(i, n)'
      OBVIOUS
    <3>1. Accounted(i, n) /\ n \in Message
      BY <2>1 DEF BatchInv, Running, Working, TypeInv, TypeOK
    <3>2. failed[i] \subseteq failed'[i] /\ on[i] \in failed'[i]
      BY <2>1 DEF TypeInv, TypeOK
    <3> QED
      BY <2>1, <3>1, <3>2, SettledStays DEF Accounted
  <2>3. \A j \in Invocation \ {i} : UNCHANGED <<pc[j], batch[j], todo[j], on[j], failed[j]>>
    BY <2>1 DEF EndRecord, TypeInv, TypeOK
  <2> QED
    BY <1>1, <2>2, <2>3
<1>9. CASE Tick
  BY <1>0, <1>9 DEF Tick
<1> QED
  BY <1>0, <1>2, <1>3, <1>4, <1>6, <1>7, <1>8, <1>9 DEF Next, Step, vars, Send,
     DeadLetter, PublishSource, NoteSource, StaffWrites

LEMMA DeletedNext ==
  ASSUME TypeInv, BatchInv, DeletedIsDone, [Next]_vars
  PROVE  DeletedIsDone'
<1> USE DEF queueVars, requestVars, workerVars, historyVars
<1> SUFFICES ASSUME NEW m \in Message, place'[m] = "deleted" PROVE Settled(m)'
  BY DEF DeletedIsDone, Settled, Outcome
<1>1. CASE place[m] = "deleted"
  BY <1>1, SettledStays DEF DeletedIsDone, Settled, Outcome
<1>2. CASE place[m] # "deleted"
  <2>1. PICK i \in Invocation : Return(i)
    <3>1. ASSUME NEW n \in Message, Send(n) \/ DeadLetter(n) PROVE FALSE
      BY <1>2, <3>1 DEF Send, DeadLetter, TypeInv, TypeOK
    <3> QED
      BY <1>2, <3>1 DEF Next, Step, vars, PublishSource, NoteSource, StaffWrites,
         Receive, Begin, ReadCurrent, WriteCurrent, Commit, Abort, Crash, Tick
  <2>2. m \in batch[i] /\ m \notin failed[i] /\ todo[i] = {} /\ pc[i] = "next"
    BY <1>2, <2>1 DEF Return, Succeeded
  <2>3. Settled(m)
    BY <2>2 DEF BatchInv, Running, Accounted, Working
  <2> QED
    BY <2>3, SettledStays
<1> QED
  BY <1>1, <1>2

\* A message leaves its queue for good only with its outcome stored under its
\* key for exactly its content.
THEOREM DeletedMeansDone ==
  ASSUME RunTime < LockTime
  PROVE  Spec => []DeletedIsDone
<1>1. TypeInv /\ LockInv /\ OutcomeInv /\ BatchInv /\ [Next]_vars => BatchInv'
  BY BatchNext
<1>2. Spec => []LockInv
  BY LockAlways
<1> QED
  BY <1>1, <1>2, DoneInit, OutcomeNext, DeletedNext, TypeAlways, PTL DEF Spec

-----------------------------------------------------------------------------
(* A message is written once.                                              *)

\* A worker has written under the key and is about to finalize.
Pending(k) == \E i \in Invocation : pc[i] = "commit" /\ job[i].wrote /\ Id(on[i]) = k

Accountable(k) == record[k].status = "COMPLETED" \/ Pending(k)

CountInv ==
  \A k \in Key :
    applied[k] <= raised[k] + orphaned[k] + (IF Accountable(k) THEN 1 ELSE 0)

\* A step that counts nothing for the key and leaves it accountable.
LEMMA CountKept ==
  ASSUME TypeInv, CountInv, NEW k \in Key, Accountable(k) => Accountable(k)',
         UNCHANGED <<applied[k], raised[k], orphaned[k]>>
  PROVE  applied'[k] <= raised'[k] + orphaned'[k] + (IF Accountable(k)' THEN 1 ELSE 0)
<1>1. applied[k] \in Nat /\ raised[k] \in Nat /\ orphaned[k] \in Nat
  BY DEF TypeInv, TypeOK
<1>2. applied[k] <= raised[k] + orphaned[k] + (IF Accountable(k) THEN 1 ELSE 0)
  BY DEF CountInv
<1> QED
  BY <1>1, <1>2

\* A write with an error or without one.
LEMMA CountUp ==
  ASSUME TypeInv, CountInv, NEW k \in Key,
         \/ /\ UNCHANGED <<applied[k], orphaned[k]>>
            /\ raised'[k] = raised[k] + 1
         \/ /\ UNCHANGED <<applied[k], raised[k]>>
            /\ orphaned'[k] = orphaned[k] + 1
         \/ /\ ~Accountable(k)
            /\ applied'[k] = applied[k] + 1
            /\ UNCHANGED orphaned[k]
            /\ \/ raised'[k] = raised[k] + 1
               \/ raised'[k] = raised[k] /\ Accountable(k)'
  PROVE  applied'[k] <= raised'[k] + orphaned'[k] + (IF Accountable(k)' THEN 1 ELSE 0)
<1>1. applied[k] \in Nat /\ raised[k] \in Nat /\ orphaned[k] \in Nat
  BY DEF TypeInv, TypeOK
<1>2. applied[k] <= raised[k] + orphaned[k] + (IF Accountable(k) THEN 1 ELSE 0)
  BY DEF CountInv
<1> QED
  BY <1>1, <1>2

LEMMA CountInit == Init => CountInv
BY DEF Init, CountInv

\* An invocation about to finalize that the step leaves alone keeps its key
\* accountable, and a completed key is.
LEMMA AccountableKept ==
  ASSUME TypeInv, [Next]_vars, NEW k \in Key, Accountable(k),
         \A i \in Invocation :
           pc[i] = "commit" /\ Id(on[i]) = k =>
             \/ UNCHANGED <<pc[i], on[i], job[i]>>
             \/ record'[k].status = "COMPLETED"
  PROVE  Accountable(k)'
<1>1. CASE record[k].status = "COMPLETED"
  BY <1>1, CompletedStays DEF Accountable
<1>2. CASE Pending(k)
  BY <1>2, RawStays DEF Pending, Accountable, Id
<1> QED
  BY <1>1, <1>2 DEF Accountable

LEMMA CountNext ==
  ASSUME RunTime < LockTime
  PROVE  TypeInv /\ LockInv /\ CountInv /\ [Next]_vars => CountInv'
<1> SUFFICES ASSUME TypeInv, LockInv, CountInv, [Next]_vars, NEW k \in Key
             PROVE  applied'[k] <= raised'[k] + orphaned'[k]
                                   + (IF Accountable(k)' THEN 1 ELSE 0)
  BY DEF CountInv
<1> USE DEF queueVars, requestVars, workerVars, historyVars
<1>0. ASSUME UNCHANGED <<applied, raised, orphaned>>,
             \A i \in Invocation :
               pc[i] = "commit" /\ Id(on[i]) = k =>
                 \/ UNCHANGED <<pc[i], on[i], job[i]>>
                 \/ record'[k].status = "COMPLETED"
      PROVE  applied'[k] <= raised'[k] + orphaned'[k] + (IF Accountable(k)' THEN 1 ELSE 0)
  BY <1>0, AccountableKept, CountKept
<1>1. CASE UNCHANGED <<pc, on, job, applied, raised, orphaned>>
  BY <1>0, <1>1
<1>2. ASSUME NEW i \in Invocation,
             Receive(i) \/ Begin(i) \/ ReadCurrent(i) \/ Abort(i) \/ Return(i)
      PROVE  applied'[k] <= raised'[k] + orphaned'[k] + (IF Accountable(k)' THEN 1 ELSE 0)
  <2>1. UNCHANGED <<applied, raised, orphaned>> /\ pc[i] # "commit"
    BY <1>2 DEF Receive, Begin, ReadCurrent, Abort, Return
  <2>2. \A j \in Invocation \ {i} : UNCHANGED <<pc[j], on[j], job[j]>>
    BY <1>2 DEF Receive, Begin, ReadCurrent, Abort, EndRecord, Return, Leave, TypeInv, TypeOK
  <2> QED
    BY <1>0, <2>1, <2>2
<1>3. ASSUME NEW i \in Invocation, WriteCurrent(i)
      PROVE  applied'[k] <= raised'[k] + orphaned'[k] + (IF Accountable(k)' THEN 1 ELSE 0)
  <2>1. /\ pc[i] = "write" /\ i \in Working /\ Id(on[i]) \in Key
        /\ on' = on /\ orphaned' = orphaned /\ Held(i)
    BY <1>3, WorkingFacts DEF WriteCurrent, LockInv, Covered
  <2>2. \A j \in Invocation \ {i} : UNCHANGED <<pc[j], on[j], job[j]>>
    BY <1>3 DEF WriteCurrent, TypeInv, TypeOK
  <2>3. CASE UNCHANGED <<applied, raised>>
    BY <1>0, <2>1, <2>2, <2>3
  <2>4. CASE applied' = Count(applied, i) /\ k # Id(on[i])
    <3>1. UNCHANGED <<applied[k], raised[k], orphaned[k]>>
      BY <1>3, <2>1, <2>4 DEF WriteCurrent, Count, TypeInv, TypeOK
    <3>2. Accountable(k) => Accountable(k)'
      BY <2>1, <2>2, AccountableKept
    <3> QED
      BY <3>1, <3>2, CountKept
  <2>5. CASE applied' = Count(applied, i) /\ k = Id(on[i])
    <3>1. ~Accountable(k)
      <4>1. ASSUME NEW j \in Invocation, pc[j] = "commit", Id(on[j]) = k PROVE FALSE
        <5>1. j \in Working /\ Held(j)
          BY <4>1 DEF LockInv, Covered, Working
        <5>2. j = i
          BY <2>1, <2>5, <4>1, <5>1 DEF Held
        <5> QED
          BY <2>1, <4>1, <5>2
      <4> QED
        BY <2>1, <2>5, <4>1 DEF Accountable, Pending, Held
    <3>2. applied'[k] = applied[k] + 1
      BY <2>1, <2>5 DEF Count, TypeInv, TypeOK
    <3>3. CASE pc' = [pc EXCEPT ![i] = "commit"] /\ job' = [job EXCEPT ![i].wrote = TRUE]
               /\ raised' = raised
      <4>1. pc'[i] = "commit" /\ job'[i].wrote /\ Id(on[i])' = k
        BY <2>1, <2>5, <3>3, RawStays DEF Id, TypeInv, TypeOK, Job
      <4>2. Accountable(k)'
        BY <4>1 DEF Accountable, Pending
      <4> QED
        BY <2>1, <3>1, <3>2, <3>3, <4>2, CountUp
    <3>4. CASE raised' = Count(raised, i)
      <4>1. raised'[k] = raised[k] + 1
        BY <2>1, <2>5, <3>4 DEF Count, TypeInv, TypeOK
      <4> QED
        BY <2>1, <3>1, <3>2, <4>1, CountUp
    <3>5. applied' # applied
      BY <3>2 DEF TypeInv, TypeOK
    <3> QED
      BY <1>3, <3>3, <3>4, <3>5 DEF WriteCurrent
  <2> QED
    BY <1>3, <2>3, <2>4, <2>5 DEF WriteCurrent
<1>4. ASSUME NEW i \in Invocation, Commit(i)
      PROVE  applied'[k] <= raised'[k] + orphaned'[k] + (IF Accountable(k)' THEN 1 ELSE 0)
  <2>1. /\ pc[i] = "commit" /\ i \in Working /\ Id(on[i]) \in Key
        /\ UNCHANGED <<applied, orphaned>> /\ Held(i)
    BY <1>4, WorkingFacts DEF Commit, LockInv, Covered
  <2>2. \A j \in Invocation \ {i} : UNCHANGED <<pc[j], on[j], job[j]>>
    BY <1>4 DEF Commit, EndRecord, TypeInv, TypeOK
  <2>3. CASE Finalize(i, "COMPLETED") /\ UNCHANGED raised
    <3>1. Id(on[i]) = k => record'[k].status = "COMPLETED"
      BY <2>1, <2>3 DEF Finalize, Finalized, Owns, Held, TypeInv, TypeOK
    <3> QED
      BY <1>0, <2>1, <2>2, <2>3, <3>1
  <2>4. CASE Id(on[i]) # k /\ (raised' = raised \/ raised' = Count(raised, i))
    <3>1. UNCHANGED <<applied[k], raised[k], orphaned[k]>>
      BY <2>1, <2>4 DEF Count, TypeInv, TypeOK
    <3>2. Accountable(k) => Accountable(k)'
      BY <2>2, <2>4, AccountableKept
    <3> QED
      BY <3>1, <3>2, CountKept
  <2>5. CASE Id(on[i]) = k /\ job[i].wrote /\ raised' = Count(raised, i)
    <3>1. raised'[k] = raised[k] + 1
      BY <2>5 DEF Count, TypeInv, TypeOK
    <3> QED
      BY <2>1, <3>1, CountUp
  <2>6. CASE Id(on[i]) = k /\ ~job[i].wrote /\ raised' = raised
    <3>1. ASSUME Accountable(k) PROVE Accountable(k)'
      <4>1. CASE record[k].status = "COMPLETED"
        BY <4>1, CompletedStays DEF Accountable
      <4>2. CASE Pending(k)
        <5>1. PICK j \in Invocation : pc[j] = "commit" /\ job[j].wrote /\ Id(on[j]) = k
          BY <4>2 DEF Pending
        <5>2. j # i
          BY <2>6, <5>1
        <5> QED
          BY <2>2, <5>1, <5>2, RawStays DEF Accountable, Pending, Id
      <4> QED
        BY <3>1, <4>1, <4>2 DEF Accountable
    <3> QED
      BY <2>1, <2>6, <3>1, CountKept
  <2> QED
    BY <1>4, <2>3, <2>4, <2>5, <2>6 DEF Commit
<1>5. ASSUME NEW i \in Invocation, Crash(i)
      PROVE  applied'[k] <= raised'[k] + orphaned'[k] + (IF Accountable(k)' THEN 1 ELSE 0)
  <2>1. UNCHANGED <<applied, raised>>
    BY <1>5 DEF Crash
  <2>2. \A j \in Invocation \ {i} : UNCHANGED <<pc[j], on[j], job[j]>>
    BY <1>5 DEF Crash, Leave, TypeInv, TypeOK
  <2>3. CASE pc[i] = "commit" /\ job[i].wrote /\ Id(on[i]) = k
    <3>1. orphaned'[k] = orphaned[k] + 1
      BY <1>5, <2>3 DEF Crash, Count, TypeInv, TypeOK
    <3> QED
      BY <2>1, <3>1, CountUp
  <2>4. CASE ~(pc[i] = "commit" /\ job[i].wrote /\ Id(on[i]) = k)
    <3>1. UNCHANGED orphaned[k]
      BY <1>5, <2>4 DEF Crash, Count, TypeInv, TypeOK
    <3>2. ASSUME Accountable(k) PROVE Accountable(k)'
      <4>1. CASE record[k].status = "COMPLETED"
        BY <4>1, CompletedStays DEF Accountable
      <4>2. CASE Pending(k)
        <5>1. PICK j \in Invocation : pc[j] = "commit" /\ job[j].wrote /\ Id(on[j]) = k
          BY <4>2 DEF Pending
        <5>2. j # i
          BY <2>4, <5>1
        <5> QED
          BY <2>2, <5>1, <5>2, RawStays DEF Accountable, Pending, Id
      <4> QED
        BY <3>2, <4>1, <4>2 DEF Accountable
    <3> QED
      BY <2>1, <3>1, <3>2, CountKept
  <2> QED
    BY <2>3, <2>4
<1> QED
  BY <1>1, <1>2, <1>3, <1>4, <1>5 DEF Next, Step, vars, Send, DeadLetter,
     PublishSource, NoteSource, StaffWrites, Tick

LEMMA CountAlways ==
  ASSUME RunTime < LockTime
  PROVE  Spec => []CountInv
<1>1. TypeInv /\ LockInv /\ CountInv /\ [Next]_vars => CountInv'
  BY CountNext
<1>2. Spec => []LockInv
  BY LockAlways
<1> QED
  BY <1>1, <1>2, CountInit, TypeAlways, PTL DEF Spec

\* A result or mission update is written twice only if an invocation that wrote
\* it saw an error or died before finalize_success.
THEOREM WrittenOnce ==
  ASSUME RunTime < LockTime
  PROVE  Spec => []AppliedOnce
<1>1. Spec => []CountInv
  BY CountAlways
<1>2. ASSUME TypeInv, CountInv PROVE AppliedOnce
  <2> SUFFICES ASSUME NEW k \in Key PROVE applied[k] <= 1 + raised[k] + orphaned[k]
    BY DEF AppliedOnce
  <2>1. applied[k] \in Nat /\ raised[k] \in Nat /\ orphaned[k] \in Nat
    BY <1>2 DEF TypeInv, TypeOK
  <2>2. applied[k] <= raised[k] + orphaned[k] + (IF Accountable(k) THEN 1 ELSE 0)
    BY <1>2 DEF CountInv
  <2> QED
    BY <2>1, <2>2
<1> QED
  BY <1>1, <1>2, TypeAlways, PTL

-----------------------------------------------------------------------------
(* The receives of a message are used up before the lock of a dead         *)
(* invocation expires.                                                     *)

\* The time between one receive and the n-th after it, at most.
Wait(n) == n * (Visibility + Patience)

\* Queues are polled promptly, compared with the lock.
Prompt == Wait(MaxReceives - 1) + RunTime < LockTime

LEMMA WaitFacts ==
  /\ \A n \in Nat : Wait(n) \in Nat /\ Wait(n + 1) = Wait(n) + Visibility + Patience
  /\ \A n \in Nat : \A d \in Nat : Wait(n) <= Wait(n + d)
<1>1. PICK w \in Nat : w = Visibility + Patience
  BY ConstantsAssumption
<1>2. \A n \in Nat : n * w \in Nat /\ (n + 1) * w = n * w + w
  OBVIOUS
<1>3. \A n \in Nat : \A d \in Nat : (n + d) * w = n * w + d * w
  OBVIOUS
<1> QED
  BY <1>1, <1>2, <1>3, ConstantsAssumption DEF Wait

LEMMA PromptIsShort ==
  ASSUME Prompt
  PROVE  RunTime < LockTime
<1>1. Wait(MaxReceives - 1) \in Nat
  BY WaitFacts, ConstantsAssumption
<1> QED
  BY <1>1, ConstantsAssumption DEF Prompt

\* The deployed times in seconds are prompt if a visible message waits less than
\* 75 seconds for a poll (template.yaml:28, 167-170 and 228-231;
\* _LOCK_TIMEOUT_MINUTES).
LEMMA DeployedIsPrompt ==
  ASSUME RunTime = 30, LockTime = 300, Visibility = 60, MaxReceives = 3, Patience < 75
  PROVE  Prompt
BY ConstantsAssumption DEF Prompt, Wait

\* What is in hand has been received; a message is hidden for Visibility at
\* most, and visible for Patience.
ReceivedInv ==
  /\ \A i \in Invocation : pc[i] = "idle" => todo[i] = {}
  /\ \A i \in Invocation : \A m \in todo[i] : receives[m] > 0 /\ place[m] # "unsent"
  /\ \A m \in Message : 0 <= hidden[m] + Patience /\ hidden[m] <= Visibility
  /\ \A m \in Message : receives[m] <= MaxReceives

LEMMA ReceivedInit == Init => ReceivedInv
BY ConstantsAssumption DEF Init, ReceivedInv

LEMMA ReceivedNext == TypeInv /\ ReceivedInv /\ [Next]_vars => ReceivedInv'
<1> SUFFICES ASSUME TypeInv, ReceivedInv, [Next]_vars PROVE ReceivedInv'
  OBVIOUS
<1> USE ConstantsAssumption
<1> USE DEF queueVars, requestVars, workerVars, historyVars
<1>0. ASSUME UNCHANGED queueVars,
             \A i \in Invocation : todo'[i] \subseteq todo[i],
             \A i \in Invocation : pc'[i] = "idle" => pc[i] = "idle" \/ todo'[i] = {}
      PROVE  ReceivedInv'
  BY <1>0 DEF ReceivedInv, TypeInv, TypeOK
<1>1. ASSUME NEW m \in Message, Send(m) \/ DeadLetter(m) PROVE ReceivedInv'
  <2>1. UNCHANGED <<receives, pc, todo>>
    BY <1>1 DEF Send, DeadLetter
  <2>2. /\ \A n \in Message : place[n] # "unsent" => place'[n] # "unsent"
        /\ \A n \in Message \ {m} : place'[n] = place[n] /\ hidden'[n] = hidden[n]
    BY <1>1 DEF Send, DeadLetter, TypeInv, TypeOK
  <2>3. 0 <= hidden'[m] + Patience /\ hidden'[m] <= Visibility
    <3>1. CASE DeadLetter(m)
      BY <3>1 DEF DeadLetter, TypeInv, TypeOK
    <3>2. CASE Send(m)
      BY <3>2 DEF Send, ReceivedInv
    <3> QED
      BY <1>1, <3>1, <3>2
  <2> QED
    BY <2>1, <2>2, <2>3 DEF ReceivedInv, TypeInv, TypeOK
<1>2. ASSUME NEW i \in Invocation, Receive(i) PROVE ReceivedInv'
  <2>1. PICK B \in SUBSET {m \in Message : Visible(m) /\ ~Exhausted(m)} :
          /\ pc' = [pc EXCEPT ![i] = "next"]
          /\ todo' = [todo EXCEPT ![i] = B]
          /\ receives' = [m \in Message |-> IF m \in B THEN ReceivedAgain(m) ELSE receives[m]]
          /\ hidden' = [m \in Message |-> IF m \in B THEN Visibility ELSE hidden[m]]
          /\ UNCHANGED place
    BY <1>2 DEF Receive
  <2>2. \A m \in B : m \in Message /\ place[m] = "queued" /\ receives'[m] = receives[m] + 1
                     /\ receives[m] < MaxReceives
    BY <2>1 DEF Visible, Exhausted, ReceivedAgain, TypeInv, TypeOK
  <2>3. ASSUME NEW m \in Message
        PROVE  receives[m] <= receives'[m] /\ receives'[m] <= MaxReceives
    <3>1. receives[m] \in Nat /\ receives[m] <= MaxReceives
      BY DEF ReceivedInv, TypeInv, TypeOK
    <3>2. m \notin B => receives'[m] = receives[m]
      BY <2>1
    <3> QED
      BY <2>2, <3>1, <3>2
  <2>4. \A m \in Message : 0 <= hidden'[m] + Patience /\ hidden'[m] <= Visibility
    BY <2>1 DEF ReceivedInv, TypeInv, TypeOK
  <2>5. \A j \in Invocation : \A m \in todo'[j] : receives'[m] > 0 /\ place'[m] # "unsent"
    <3> SUFFICES ASSUME NEW j \in Invocation, NEW m \in todo'[j]
                 PROVE  receives'[m] > 0 /\ place'[m] # "unsent"
      OBVIOUS
    <3>1. CASE j = i
      <4>1. m \in B
        BY <2>1, <3>1 DEF TypeInv, TypeOK
      <4>2. m \in Message /\ place[m] = "queued" /\ receives'[m] = receives[m] + 1
        BY <2>2, <4>1
      <4>3. receives[m] \in Nat
        BY <4>2 DEF TypeInv, TypeOK
      <4>4. place' = place
        BY <2>1
      <4> QED
        BY <4>2, <4>3, <4>4
    <3>2. CASE j # i
      <4>1. m \in todo[j] /\ m \in Message
        BY <2>1, <3>2 DEF TypeInv, TypeOK
      <4>2. receives[m] > 0 /\ place[m] # "unsent"
        BY <4>1 DEF ReceivedInv
      <4>3. receives[m] \in Nat /\ receives'[m] \in Nat
        BY <2>1, <4>1 DEF ReceivedAgain, TypeInv, TypeOK
      <4>4. receives[m] <= receives'[m]
        BY <2>3, <4>1
      <4>5. place' = place
        BY <2>1
      <4> QED
        BY <4>2, <4>3, <4>4, <4>5
    <3> QED
      BY <3>1, <3>2
  <2>6. \A j \in Invocation : pc'[j] = "idle" => todo'[j] = {}
    BY <2>1 DEF ReceivedInv, TypeInv, TypeOK
  <2> QED
    BY <2>1, <2>3, <2>4, <2>5, <2>6 DEF ReceivedInv
<1>3. ASSUME NEW i \in Invocation, Return(i) PROVE ReceivedInv'
  <2>1. /\ \A m \in Message : \/ place'[m] = place[m] /\ hidden'[m] = hidden[m]
                              \/ place'[m] = "deleted" /\ hidden'[m] = 0
        /\ \A j \in Invocation : todo'[j] \subseteq todo[j]
        /\ \A j \in Invocation : pc'[j] = "idle" => pc[j] = "idle" \/ todo'[j] = {}
        /\ receives' = receives
    BY <1>3 DEF Return, Leave, TypeInv, TypeOK
  <2> QED
    BY <2>1 DEF ReceivedInv, TypeInv, TypeOK
<1>4. ASSUME NEW i \in Invocation,
             Begin(i) \/ ReadCurrent(i) \/ WriteCurrent(i) \/ Commit(i) \/ Abort(i) \/ Crash(i)
      PROVE  ReceivedInv'
  <2>1. UNCHANGED queueVars
    BY <1>4 DEF Begin, ReadCurrent, WriteCurrent, Commit, Abort, Crash
  <2>2. \A j \in Invocation : todo'[j] \subseteq todo[j]
    BY <1>4 DEF Begin, ReadCurrent, WriteCurrent, Commit, Abort, Crash, Leave, TypeInv, TypeOK
  <2>3. CASE Crash(i)
    BY <1>0, <2>1, <2>2, <2>3 DEF Crash, Leave, TypeInv, TypeOK
  <2>4. CASE ~Crash(i)
    <3>1. \A j \in Invocation : pc'[j] = "idle" => pc[j] = "idle"
      BY <1>4, <2>4 DEF Begin, ReadCurrent, WriteCurrent, Commit, Abort, EndRecord, TypeInv, TypeOK
    <3> QED
      BY <1>0, <2>1, <2>2, <3>1
  <2> QED
    BY <2>3, <2>4
<1>5. CASE Tick
  <2>1. UNCHANGED <<place, receives, pc, todo>>
    BY <1>5 DEF Tick
  <2>2. \A m \in Message :
          /\ hidden'[m] = IF place[m] = "queued" THEN hidden[m] - 1 ELSE hidden[m]
          /\ place[m] = "queued" => hidden[m] > -Patience
    BY <1>5 DEF Tick
  <2>3. ASSUME NEW m \in Message
        PROVE  0 <= hidden'[m] + Patience /\ hidden'[m] <= Visibility
    <3>1. hidden[m] \in Int /\ 0 <= hidden[m] + Patience /\ hidden[m] <= Visibility
      BY DEF ReceivedInv, TypeInv, TypeOK
    <3> QED
      BY <2>2, <3>1
  <2> QED
    BY <2>1, <2>3 DEF ReceivedInv
<1>6. CASE UNCHANGED <<queueVars, pc, todo>>
  BY <1>0, <1>6
<1> QED
  BY <1>1, <1>2, <1>3, <1>4, <1>5, <1>6 DEF Next, Step, vars, PublishSource, NoteSource,
     StaffWrites

-----------------------------------------------------------------------------

\* No other message carries the key of m.
Alone(m) == \A n \in Message : Id(n) = Id(m) => n = m

\* The end of the last invocation that may yet receive m is this far away.
Reach(m) == hidden[m] + Patience + Wait(MaxReceives - 1 - receives[m]) + RunTime

\* A lock outlasts whoever has m before it, now or after a receive to come.
Outlasts(m) ==
  record[Id(m)].status = "IN_PROGRESS" =>
    /\ place[m] # "unsent"
    /\ \A i \in Invocation : m \in todo[i] => left[i] < record[Id(m)].left
    /\ (place[m] = "queued" /\ ~Exhausted(m)) => Reach(m) < record[Id(m)].left

OutlastsInv == \A m \in Message : Alone(m) => Outlasts(m)

LEMMA OutlastsInit == Init => OutlastsInv
BY IdFacts, TypeInit DEF Init, OutlastsInv, Outlasts, NoRecord

\* A step that hands m to nobody and leaves its queue and its lock alone, or
\* ends the lock, or takes m away.
LEMMA OutlastsKept ==
  ASSUME TypeInv, NEW m \in Message, Outlasts(m), raw' = raw,
         record'[Id(m)].status = "IN_PROGRESS" => record'[Id(m)] = record[Id(m)],
         \A i \in Invocation : m \in todo'[i] => m \in todo[i] /\ left'[i] = left[i],
         \/ UNCHANGED <<place[m], receives[m], hidden[m]>>
         \/ place'[m] \in {"deleted", "dead"}
  PROVE  Outlasts(m)'
BY DEF Outlasts, Id, Exhausted, Reach

\* Who begins with m finds a lock in force.
LEMMA NotReclaimed ==
  ASSUME TypeInv, NEW m \in Message, Outlasts(m), NEW i \in Invocation, m \in todo[i],
         record[Id(m)].status = "IN_PROGRESS"
  PROVE  ~Claimable(m) /\ ~Replayable(m)
<1>1. left[i] \in Nat /\ record[Id(m)].left \in Nat
  BY IdFacts DEF TypeInv, TypeOK, Record
<1>2. record[Id(m)].left # 0
  BY <1>1 DEF Outlasts
<1> QED
  BY <1>2 DEF Claimable, Expired, Replayable

\* A lock that is just taken outlasts everything.
LEMMA LockedOutlasts ==
  ASSUME Prompt, TypeInv, ReceivedInv, NEW m \in Message, NEW i \in Invocation, m \in todo[i]
  PROVE  /\ place[m] # "unsent"
         /\ \A j \in Invocation : left[j] < LockTime
         /\ ~Exhausted(m) => Reach(m) < LockTime
<1>1. receives[m] \in Nat /\ receives[m] > 0 /\ place[m] # "unsent"
  BY DEF ReceivedInv, TypeInv, TypeOK
<1>2. \A j \in Invocation : left[j] < LockTime
  BY PromptIsShort, ConstantsAssumption DEF TypeInv, TypeOK, InHand
<1>3. ASSUME ~Exhausted(m) PROVE Reach(m) < LockTime
  <2>1. receives[m] < MaxReceives
    BY <1>1, <1>3, ConstantsAssumption DEF Exhausted
  <2>2. PICK n \in Nat : n = MaxReceives - 1 - receives[m]
    BY <1>1, <2>1, ConstantsAssumption
  <2>3. PICK d \in Nat : d = receives[m] - 1
    BY <1>1
  <2>4. MaxReceives - 1 = (n + 1) + d
    BY <1>1, <2>2, <2>3, ConstantsAssumption
  <2>5. n + 1 \in Nat
    OBVIOUS
  <2>6. Wait(n) + Visibility + Patience <= Wait(MaxReceives - 1)
    BY <2>4, <2>5, WaitFacts
  <2>7. hidden[m] \in Int /\ hidden[m] <= Visibility
    BY DEF ReceivedInv, TypeInv, TypeOK
  <2>8. Wait(n) \in Nat /\ Wait(MaxReceives - 1) \in Nat
    BY WaitFacts, ConstantsAssumption
  <2>9. Reach(m) = hidden[m] + Patience + Wait(n) + RunTime
    BY <2>2 DEF Reach
  <2> QED
    BY <2>6, <2>7, <2>8, <2>9, ConstantsAssumption DEF Prompt
<1> QED
  BY <1>1, <1>2, <1>3

\* A receive brings the end of the last one no further.
LEMMA ReachShrinks ==
  ASSUME TypeInv, ReceivedInv, NEW m \in Message, ~Exhausted(m),
         receives'[m] = receives[m] + 1, hidden'[m] = Visibility
  PROVE  /\ RunTime <= Reach(m)
         /\ ~Exhausted(m)' => Reach(m)' <= Reach(m)
<1>1. receives[m] \in Nat /\ hidden[m] \in Int /\ 0 <= hidden[m] + Patience
  BY DEF ReceivedInv, TypeInv, TypeOK
<1>2. PICK n \in Nat : n = MaxReceives - 1 - receives[m]
  BY <1>1, ConstantsAssumption DEF Exhausted
<1>3. Wait(n) \in Nat
  BY WaitFacts
<1>4. Reach(m) = hidden[m] + Patience + Wait(n) + RunTime
  BY <1>2 DEF Reach
<1>5. RunTime <= Reach(m)
  BY <1>1, <1>3, <1>4, ConstantsAssumption
<1>6. ASSUME ~Exhausted(m)' PROVE Reach(m)' <= Reach(m)
  <2>1. PICK d \in Nat : n = d + 1
    BY <1>1, <1>2, <1>6, ConstantsAssumption DEF Exhausted
  <2>2. Wait(n) = Wait(d) + Visibility + Patience /\ Wait(d) \in Nat
    BY <2>1, WaitFacts
  <2>3. MaxReceives - 1 - receives'[m] = d
    BY <1>1, <1>2, <2>1, ConstantsAssumption
  <2>4. Reach(m)' = Visibility + Patience + Wait(d) + RunTime
    BY <2>3 DEF Reach
  <2> QED
    BY <1>1, <1>4, <2>2, <2>4, ConstantsAssumption
<1> QED
  BY <1>5, <1>6

LEMMA OutlastsNext ==
  ASSUME Prompt
  PROVE  TypeInv /\ ReceivedInv /\ OutlastsInv /\ [Next]_vars => OutlastsInv'
<1> SUFFICES ASSUME TypeInv, ReceivedInv, OutlastsInv, [Next]_vars,
                    NEW m \in Message, Alone(m)'
             PROVE  Outlasts(m)'
  BY DEF OutlastsInv
<1>r. raw' = raw /\ Alone(m) /\ Outlasts(m)
  BY RawStays DEF Alone, Id, OutlastsInv
<1>k. Id(m) \in Key
  BY IdFacts
<1> USE DEF queueVars, requestVars, workerVars, historyVars
<1>0. CASE UNCHANGED <<place, receives, hidden, record, todo, left>>
  BY <1>r, <1>0, OutlastsKept
<1>1. ASSUME NEW n \in Message, Send(n) \/ DeadLetter(n) PROVE Outlasts(m)'
  <2>1. UNCHANGED <<receives, record, todo, left>>
    BY <1>1 DEF Send, DeadLetter
  <2>2. CASE n # m
    BY <1>1, <1>r, <2>1, <2>2, OutlastsKept DEF Send, DeadLetter, TypeInv, TypeOK
  <2>3. CASE n = m /\ Send(n)
    BY <1>r, <2>1, <2>3 DEF Outlasts, Send, Id
  <2>4. CASE n = m /\ DeadLetter(n)
    BY <1>r, <2>1, <2>4, OutlastsKept DEF DeadLetter, TypeInv, TypeOK
  <2> QED
    BY <1>1, <2>2, <2>3, <2>4
<1>2. ASSUME NEW i \in Invocation, Receive(i) PROVE Outlasts(m)'
  <2>1. PICK B \in SUBSET {n \in Message : Visible(n) /\ ~Exhausted(n)} :
          /\ todo' = [todo EXCEPT ![i] = B]
          /\ left' = [left EXCEPT ![i] = RunTime]
          /\ receives' = [n \in Message |-> IF n \in B THEN ReceivedAgain(n) ELSE receives[n]]
          /\ hidden' = [n \in Message |-> IF n \in B THEN Visibility ELSE hidden[n]]
          /\ UNCHANGED <<place, record>>
    BY <1>2 DEF Receive
  <2>2. \A j \in Invocation \ {i} : todo'[j] = todo[j] /\ left'[j] = left[j]
    BY <2>1 DEF TypeInv, TypeOK
  <2>3. todo'[i] = B /\ left'[i] = RunTime
    BY <2>1 DEF TypeInv, TypeOK
  <2>4. CASE m \notin B
    <3>1. UNCHANGED <<place[m], receives[m], hidden[m]>>
      BY <2>1, <2>4
    <3>2. \A j \in Invocation : m \in todo'[j] => m \in todo[j] /\ left'[j] = left[j]
      BY <2>2, <2>3, <2>4
    <3> QED
      BY <1>r, <2>1, <3>1, <3>2, OutlastsKept
  <2>5. CASE m \in B
    <3>1. /\ place[m] = "queued" /\ ~Exhausted(m)
          /\ receives'[m] = receives[m] + 1 /\ hidden'[m] = Visibility
      BY <2>1, <2>5, ConstantsAssumption DEF Visible, Exhausted, ReceivedAgain, TypeInv, TypeOK
    <3>2. RunTime <= Reach(m) /\ (~Exhausted(m)' => Reach(m)' <= Reach(m))
      BY <3>1, ReachShrinks
    <3> SUFFICES ASSUME record[Id(m)].status = "IN_PROGRESS"
                 PROVE  /\ \A j \in Invocation : m \in todo'[j] => left'[j] < record[Id(m)].left
                        /\ ~Exhausted(m)' => Reach(m)' < record[Id(m)].left
      BY <1>r, <2>1, <3>1 DEF Outlasts, Id
    <3>3. Reach(m) < record[Id(m)].left
      BY <1>r, <3>1 DEF Outlasts
    <3>4. Reach(m) \in Int /\ (~Exhausted(m)' => Reach(m)' \in Int) /\ record[Id(m)].left \in Nat
      <4>1. record[Id(m)].left \in Nat /\ receives[m] \in Nat /\ hidden[m] \in Int
        BY IdFacts DEF TypeInv, TypeOK, Record
      <4>2. MaxReceives - 1 - receives[m] \in Nat
        BY <3>1, <4>1, ConstantsAssumption DEF Exhausted
      <4>3. ~Exhausted(m)' => MaxReceives - 1 - receives'[m] \in Nat
        BY <3>1, <4>1, ConstantsAssumption DEF Exhausted
      <4> QED
        BY <3>1, <4>1, <4>2, <4>3, WaitFacts, ConstantsAssumption DEF Reach
    <3>5. ~Exhausted(m)' => Reach(m)' < record[Id(m)].left
      BY <3>2, <3>3, <3>4
    <3>6. RunTime < record[Id(m)].left
      BY <3>2, <3>3, <3>4, ConstantsAssumption
    <3>7. \A j \in Invocation : m \in todo'[j] => left'[j] < record[Id(m)].left
      BY <1>r, <2>2, <2>3, <3>6 DEF Outlasts
    <3> QED
      BY <3>5, <3>7
  <2> QED
    BY <2>4, <2>5
<1>3. ASSUME NEW i \in Invocation, Begin(i) PROVE Outlasts(m)'
  <2>1. UNCHANGED <<place, receives, hidden, left>>
    BY <1>3 DEF Begin
  <2>2. \A j \in Invocation : todo'[j] \subseteq todo[j]
    BY <1>3 DEF Begin, TypeInv, TypeOK
  <2>3. PICK n \in todo[i] :
          \/ UNCHANGED record
          \/ record' = [record EXCEPT ![Id(n)] = Locked(i, n)]
    BY <1>3 DEF Begin
  <2>4. n \in Message /\ Id(n) \in Key
    BY IdFacts DEF TypeInv, TypeOK
  <2>5. CASE record'[Id(m)] = record[Id(m)]
    BY <1>r, <2>1, <2>2, <2>5, OutlastsKept
  <2>6. CASE n = m /\ record' = [record EXCEPT ![Id(n)] = Locked(i, n)]
    <3>1. record'[Id(m)].left = LockTime
      BY <1>k, <2>6 DEF Locked, TypeInv, TypeOK
    <3>2. /\ place[m] # "unsent"
          /\ \A j \in Invocation : left[j] < LockTime
          /\ ~Exhausted(m) => Reach(m) < LockTime
      BY <2>6, LockedOutlasts
    <3> QED
      BY <1>r, <2>1, <3>1, <3>2 DEF Outlasts, Id, Exhausted, Reach
  <2>7. CASE n # m /\ record' = [record EXCEPT ![Id(n)] = Locked(i, n)]
    <3>1. Id(n) # Id(m)
      BY <1>r, <2>4, <2>7 DEF Alone
    <3> QED
      BY <1>k, <2>4, <2>5, <2>7, <3>1 DEF TypeInv, TypeOK
  <2> QED
    BY <2>3, <2>5, <2>6, <2>7
<1>4. ASSUME NEW i \in Invocation, Commit(i) \/ Abort(i) PROVE Outlasts(m)'
  <2>1. UNCHANGED <<place, receives, hidden, todo, left>>
    BY <1>4 DEF Commit, Abort
  <2>2. i \in Working /\ on[i] \in Message /\ Id(on[i]) \in Key
    BY <1>4, WorkingFacts DEF Commit, Abort
  <2>3. \/ UNCHANGED record
        \/ \E s \in {"FAILED", "COMPLETED"} : record' = [record EXCEPT ![Id(on[i])] = Finalized(i, s)]
    BY <1>4 DEF Commit, Abort, RecordFailure, Finalize
  <2>4. record'[Id(m)].status = "IN_PROGRESS" => record'[Id(m)] = record[Id(m)]
    BY <1>k, <2>2, <2>3 DEF Finalized, TypeInv, TypeOK
  <2> QED
    BY <1>r, <2>1, <2>4, OutlastsKept
<1>5. ASSUME NEW i \in Invocation, Return(i) \/ Crash(i) PROVE Outlasts(m)'
  <2>1. /\ record' = record
        /\ \/ UNCHANGED <<place[m], receives[m], hidden[m]>>
           \/ place'[m] \in {"deleted", "dead"}
    BY <1>5 DEF Return, Crash
  <2>2. \A j \in Invocation : m \in todo'[j] => m \in todo[j] /\ left'[j] = left[j]
    BY <1>5 DEF Return, Crash, Leave, TypeInv, TypeOK
  <2> QED
    BY <1>r, <2>1, <2>2, OutlastsKept
<1>6. CASE Tick
  <2>1. UNCHANGED <<place, receives, pc, todo>>
    BY <1>6 DEF Tick
  <2>2. /\ hidden'[m] = IF place[m] = "queued" THEN hidden[m] - 1 ELSE hidden[m]
        /\ \A i \in Invocation : left'[i] = OneLess(left[i])
        /\ record'[Id(m)].status = record[Id(m)].status
        /\ record'[Id(m)].left = OneLess(record[Id(m)].left)
    BY <1>6, <1>k DEF Tick
  <2> SUFFICES ASSUME record[Id(m)].status = "IN_PROGRESS"
               PROVE  /\ \A i \in Invocation : m \in todo[i] => left'[i] < record'[Id(m)].left
                      /\ (place[m] = "queued" /\ ~Exhausted(m)) => Reach(m)' < record'[Id(m)].left
    BY <1>r, <2>1, <2>2 DEF Outlasts, Id, Exhausted
  <2>3. record[Id(m)].left \in Nat /\ receives[m] \in Nat /\ hidden[m] \in Int
    BY IdFacts DEF TypeInv, TypeOK, Record
  <2>4. ASSUME NEW i \in Invocation, m \in todo[i] PROVE left'[i] < record'[Id(m)].left
    <3>1. left[i] \in Nat /\ left[i] > 0
      BY <1>6, <2>4 DEF Tick, Running, ReceivedInv, TypeInv, TypeOK
    <3>2. left[i] < record[Id(m)].left
      BY <1>r, <2>4 DEF Outlasts
    <3> QED
      BY <2>2, <2>3, <3>1, <3>2 DEF OneLess
  <2>5. ASSUME place[m] = "queued", ~Exhausted(m) PROVE Reach(m)' < record'[Id(m)].left
    <3>1. hidden[m] > -Patience
      BY <1>6, <2>5 DEF Tick
    <3>2. PICK n \in Nat : n = MaxReceives - 1 - receives[m]
      BY <2>3, <2>5, ConstantsAssumption DEF Exhausted
    <3>3. Wait(n) \in Nat
      BY WaitFacts
    <3>4. Reach(m) = hidden[m] + Patience + Wait(n) + RunTime /\ Reach(m) < record[Id(m)].left
      BY <1>r, <2>5, <3>2 DEF Reach, Outlasts
    <3>5. Reach(m)' = hidden[m] - 1 + Patience + Wait(n) + RunTime
      BY <2>1, <2>2, <2>5, <3>2 DEF Reach
    <3> QED
      BY <2>2, <2>3, <3>1, <3>3, <3>4, <3>5, ConstantsAssumption DEF OneLess
  <2> QED
    BY <2>4, <2>5
<1> QED
  BY <1>0, <1>1, <1>2, <1>3, <1>4, <1>5, <1>6 DEF Next, Step, vars, PublishSource,
     NoteSource, StaffWrites, ReadCurrent, WriteCurrent

\* The last receives of m end before a lock on its key does: once it is sent,
\* a consumer finds the lock of m in force, whoever left it behind
\* (ingest_rescue_request_evaluation.py:36-42, template.yaml:167-170).
LEMMA OutlastsAlways ==
  ASSUME Prompt
  PROVE  Spec => []OutlastsInv
<1>1. TypeInv /\ ReceivedInv /\ OutlastsInv /\ [Next]_vars => OutlastsInv'
  BY OutlastsNext
<1> QED
  BY <1>1, OutlastsInit, ReceivedInit, ReceivedNext, TypeAlways, PTL DEF Spec

-----------------------------------------------------------------------------
(* What a dead invocation wrote stays locked for good, when no other       *)
(* message carries its key.                                                *)

Orphan(m) ==
  orphaned[Id(m)] > 0 =>
    /\ orphaned[Id(m)] = 1
    /\ record[Id(m)].status = "IN_PROGRESS"
    /\ \A i \in Working : on[i] # m

OrphanInv == \A m \in Message : Alone(m) => Orphan(m)

LEMMA OrphanInit == Init => OrphanInv
BY IdFacts, TypeInit DEF Init, OrphanInv, Orphan

\* A step that leaves an orphaned key alone and makes nobody work on it.
LEMMA OrphanKept ==
  ASSUME TypeInv, NEW m \in Message, Orphan(m), raw' = raw,
         orphaned'[Id(m)] = orphaned[Id(m)],
         orphaned[Id(m)] > 0 =>
           /\ record'[Id(m)].status = record[Id(m)].status
           /\ \A i \in Invocation :
                i \in Working' /\ on'[i] = m => i \in Working /\ on[i] = m
  PROVE  Orphan(m)'
BY DEF Orphan, Id, Working

LEMMA OrphanNext ==
  TypeInv /\ LockInv /\ OutlastsInv /\ OrphanInv /\ [Next]_vars => OrphanInv'
<1> SUFFICES ASSUME TypeInv, LockInv, OutlastsInv, OrphanInv, [Next]_vars,
                    NEW m \in Message, Alone(m)'
             PROVE  Orphan(m)'
  BY DEF OrphanInv
<1>r. raw' = raw /\ Alone(m) /\ Outlasts(m) /\ Orphan(m)
  BY RawStays DEF Alone, Id, OutlastsInv, OrphanInv
<1>k. Id(m) \in Key
  BY IdFacts
<1> USE DEF queueVars, requestVars, workerVars, historyVars
<1>0. ASSUME UNCHANGED <<orphaned, on>>, Working' \subseteq Working,
             record'[Id(m)].status = record[Id(m)].status
      PROVE  Orphan(m)'
  BY <1>r, <1>0, OrphanKept
<1>1. ASSUME NEW i \in Invocation, ReadCurrent(i) \/ WriteCurrent(i) PROVE Orphan(m)'
  <2>1. UNCHANGED <<orphaned, record, on>> /\ i \in Working
    BY <1>1 DEF ReadCurrent, WriteCurrent, Working
  <2>2. \A j \in Invocation \ {i} : pc'[j] = pc[j]
    BY <1>1 DEF ReadCurrent, WriteCurrent, TypeInv, TypeOK
  <2>3. Working' \subseteq Working
    BY <2>1, <2>2 DEF Working
  <2> QED
    BY <1>0, <2>1, <2>3
<1>2. ASSUME NEW i \in Invocation, Receive(i) \/ Return(i) PROVE Orphan(m)'
  <2>1. UNCHANGED <<orphaned, record>> /\ pc'[i] \in {"idle", "next"}
    BY <1>2 DEF Receive, Return, Leave, TypeInv, TypeOK
  <2>2. \A j \in Invocation \ {i} : pc'[j] = pc[j] /\ on'[j] = on[j]
    BY <1>2 DEF Receive, Return, Leave, TypeInv, TypeOK
  <2>3. \A j \in Invocation : j \in Working' => j # i /\ j \in Working /\ on'[j] = on[j]
    BY <2>1, <2>2 DEF Working
  <2> QED
    BY <1>r, <2>1, <2>3, OrphanKept
<1>3. ASSUME NEW i \in Invocation, Begin(i) PROVE Orphan(m)'
  <2>1. UNCHANGED orphaned
    BY <1>3 DEF Begin
  <2> SUFFICES ASSUME orphaned[Id(m)] > 0
               PROVE  /\ record'[Id(m)].status = record[Id(m)].status
                      /\ \A j \in Invocation :
                           j \in Working' /\ on'[j] = m => j \in Working /\ on[j] = m
    BY <1>r, <2>1, OrphanKept
  <2>2. record[Id(m)].status = "IN_PROGRESS"
    BY <1>r DEF Orphan
  <2>3. \A j \in Invocation \ {i} : pc'[j] = pc[j] /\ on'[j] = on[j]
    BY <1>3 DEF Begin, TypeInv, TypeOK
  <2>4. PICK n \in todo[i] :
          \/ UNCHANGED <<record, pc, on>>
          \/ /\ Claimable(n)
             /\ record' = [record EXCEPT ![Id(n)] = Locked(i, n)]
             /\ \/ on' = [on EXCEPT ![i] = n]
                \/ UNCHANGED <<pc, on>>
    BY <1>3 DEF Begin
  <2>5. n \in Message /\ Id(n) \in Key
    BY IdFacts DEF TypeInv, TypeOK
  <2>6. CASE UNCHANGED <<record, pc, on>>
    BY <2>6 DEF Working
  <2>7. CASE /\ Claimable(n)
             /\ record' = [record EXCEPT ![Id(n)] = Locked(i, n)]
             /\ \/ on' = [on EXCEPT ![i] = n]
                \/ UNCHANGED <<pc, on>>
    <3>1. n # m
      BY <1>r, <2>2, <2>7, NotReclaimed
    <3>2. Id(n) # Id(m)
      BY <1>r, <2>5, <3>1 DEF Alone
    <3>3. record'[Id(m)] = record[Id(m)]
      BY <1>k, <2>5, <2>7, <3>2 DEF TypeInv, TypeOK
    <3>4. CASE on' = [on EXCEPT ![i] = n]
      <4>1. on'[i] # m
        BY <3>1, <3>4 DEF TypeInv, TypeOK
      <4> QED
        BY <2>3, <3>3, <4>1 DEF Working
    <3>5. CASE UNCHANGED <<pc, on>>
      BY <3>3, <3>5 DEF Working
    <3> QED
      BY <2>7, <3>4, <3>5
  <2> QED
    BY <2>4, <2>6, <2>7
<1>4. ASSUME NEW i \in Invocation, Commit(i) \/ Abort(i) PROVE Orphan(m)'
  <2>1. UNCHANGED orphaned
    BY <1>4 DEF Commit, Abort
  <2>2. i \in Working /\ on[i] \in Message /\ Id(on[i]) \in Key
    BY <1>4, WorkingFacts DEF Commit, Abort
  <2> SUFFICES ASSUME orphaned[Id(m)] > 0
               PROVE  /\ record'[Id(m)].status = record[Id(m)].status
                      /\ \A j \in Invocation :
                           j \in Working' /\ on'[j] = m => j \in Working /\ on[j] = m
    BY <1>r, <2>1, OrphanKept
  <2>3. Id(on[i]) # Id(m)
    BY <1>r, <2>2 DEF Orphan, Alone
  <2>4. record'[Id(m)] = record[Id(m)]
    BY <1>4, <1>k, <2>2, <2>3 DEF Commit, Abort, RecordFailure, Finalize, TypeInv, TypeOK
  <2>5. \A j \in Invocation \ {i} : pc'[j] = pc[j] /\ on'[j] = on[j]
    BY <1>4 DEF Commit, Abort, EndRecord, TypeInv, TypeOK
  <2>6. on'[i] = on[i] \/ i \notin Working'
    BY <1>4 DEF Commit, Abort, EndRecord, Working, TypeInv, TypeOK
  <2> QED
    BY <2>2, <2>4, <2>5, <2>6 DEF Working
<1>5. ASSUME NEW i \in Invocation, Crash(i) PROVE Orphan(m)'
  <2>1. UNCHANGED record
    BY <1>5 DEF Crash
  <2>2. pc'[i] = "idle"
    BY <1>5 DEF Crash, Leave, TypeInv, TypeOK
  <2>3. \A j \in Invocation \ {i} : pc'[j] = pc[j] /\ on'[j] = on[j]
    BY <1>5 DEF Crash, Leave, TypeInv, TypeOK
  <2>4. \A j \in Invocation : j \in Working' => j # i /\ j \in Working /\ on'[j] = on[j]
    BY <2>2, <2>3 DEF Working
  <2>5. CASE pc[i] = "commit" /\ job[i].wrote /\ on[i] = m
    <3>1. i \in Working /\ Held(i)
      BY <2>5 DEF LockInv, Covered, Working
    <3>2. orphaned[Id(m)] = 0
      BY <1>k, <1>r, <2>5, <3>1 DEF Orphan, TypeInv, TypeOK
    <3>3. orphaned'[Id(m)] = 1
      BY <1>5, <1>k, <2>5, <3>2 DEF Crash, Count, TypeInv, TypeOK
    <3>4. \A j \in Working : on[j] = m => j = i
      BY <2>5, <3>1 DEF LockInv, Covered, Held
    <3>5. record[Id(m)].status = "IN_PROGRESS"
      BY <2>5, <3>1 DEF Held
    <3>6. \A j \in Working' : on'[j] # m
      BY <2>4, <3>4 DEF Working
    <3> QED
      BY <1>r, <2>1, <3>3, <3>5, <3>6 DEF Orphan, Id
  <2>6. CASE ~(pc[i] = "commit" /\ job[i].wrote /\ on[i] = m)
    <3>1. orphaned'[Id(m)] = orphaned[Id(m)]
      <4>1. CASE pc[i] = "commit" /\ job[i].wrote
        <5>1. Id(on[i]) # Id(m) /\ Id(on[i]) \in Key
          BY <1>r, <2>6, <4>1, WorkingFacts DEF Alone, Working
        <5> QED
          BY <1>5, <1>k, <4>1, <5>1 DEF Crash, Count, TypeInv, TypeOK
      <4>2. CASE ~(pc[i] = "commit" /\ job[i].wrote)
        BY <1>5, <4>2 DEF Crash
      <4> QED
        BY <4>1, <4>2
    <3> QED
      BY <1>r, <2>1, <2>4, <3>1, OrphanKept
  <2> QED
    BY <2>5, <2>6
<1>6. CASE Tick
  <2>1. UNCHANGED <<orphaned, pc, on>> /\ record'[Id(m)].status = record[Id(m)].status
    BY <1>6, <1>k DEF Tick
  <2> QED
    BY <1>0, <2>1 DEF Working
<1>7. CASE UNCHANGED <<orphaned, record, pc, on>>
  BY <1>0, <1>7 DEF Working
<1> QED
  BY <1>1, <1>2, <1>3, <1>4, <1>5, <1>6, <1>7 DEF Next, Step, vars, Send, DeadLetter,
     PublishSource, NoteSource, StaffWrites

\* With queues polled promptly, the death of an invocation alone never makes a
\* message apply twice: its receives are used up before the lock of the dead one
\* expires.
THEOREM DeathIsNotRepeated ==
  ASSUME Prompt
  PROVE  Spec => []CrashIsNotRepeated
<1>1. Spec => []CountInv
  BY PromptIsShort, CountAlways
<1>2. Spec => []LockInv
  BY PromptIsShort, LockAlways
<1>3. Spec => []OutlastsInv
  BY OutlastsAlways
<1>4. Spec => []OrphanInv
  BY <1>2, <1>3, OrphanInit, OrphanNext, TypeAlways, PTL DEF Spec
<1>5. ASSUME TypeInv, CountInv, OrphanInv PROVE CrashIsNotRepeated
  <2> SUFFICES ASSUME NEW m \in Message, Alone(m) PROVE applied[Id(m)] <= 1 + raised[Id(m)]
    BY DEF CrashIsNotRepeated, Alone
  <2>1. /\ Id(m) \in Key
        /\ applied[Id(m)] \in Nat /\ raised[Id(m)] \in Nat /\ orphaned[Id(m)] \in Nat
    BY <1>5, IdFacts DEF TypeInv, TypeOK
  <2>2. applied[Id(m)] <= raised[Id(m)] + orphaned[Id(m)] + (IF Accountable(Id(m)) THEN 1 ELSE 0)
    BY <1>5, <2>1 DEF CountInv
  <2>3. CASE orphaned[Id(m)] = 0
    BY <2>1, <2>2, <2>3
  <2>4. CASE orphaned[Id(m)] > 0
    <3>1. orphaned[Id(m)] = 1 /\ record[Id(m)].status = "IN_PROGRESS" /\ \A i \in Working : on[i] # m
      BY <1>5, <2>4 DEF OrphanInv, Orphan
    <3>2. ~Pending(Id(m))
      <4> SUFFICES ASSUME NEW i \in Invocation, pc[i] = "commit", Id(on[i]) = Id(m) PROVE FALSE
        BY DEF Pending
      <4>1. i \in Working /\ on[i] \in Message
        BY <1>5, WorkingFacts DEF Working
      <4> QED
        BY <3>1, <4>1 DEF Alone
    <3>3. ~Accountable(Id(m))
      BY <3>1, <3>2 DEF Accountable
    <3> QED
      BY <2>1, <2>2, <3>1, <3>3
  <2> QED
    BY <2>1, <2>3, <2>4
<1> QED
  BY <1>1, <1>4, <1>5, TypeAlways, PTL

-----------------------------------------------------------------------------
(* The consumers use their keys as SingleFlight allows.                    *)

\* Who holds a key is alone, and what it works on is stored there.
LEMMA HolderFacts ==
  ASSUME TypeInv, LockInv, NEW k \in Key, NEW i \in Holders(k)
  PROVE  /\ Holders(k) = {i}
         /\ Contents(k) = {raw[on[i]]}
         /\ record[k].body = raw[on[i]]
         /\ raw[on[i]] \in Raw
         /\ Stored(k) = None
<1>1. \A j \in Holders(k) : j \in Working /\ Held(j) /\ Id(on[j]) = k
  BY DEF Holders, LockInv, Covered
<1>2. \A j \in Holders(k) : j = i
  BY <1>1 DEF Held
<1>3. raw[on[i]] \in Raw
  BY <1>1, WorkingFacts DEF Working
<1>4. record[k].body = raw[on[i]] /\ record[k].status = "IN_PROGRESS"
  BY <1>1 DEF Held
<1> QED
  BY <1>2, <1>3, <1>4 DEF Contents, Stored

\* A step that changes nobody's hold on k and not what is stored there.
LEMMA KeySame ==
  ASSUME NEW k \in Key, raw' = raw, Holders(k)' = Holders(k),
         \A i \in Holders(k) : on'[i] = on[i], Stored(k)' = Stored(k)
  PROVE  UNCHANGED KeyStore(k)!vars
<1>1. Contents(k)' = Contents(k)
  BY DEF Contents
<1> QED
  BY <1>1 DEF KeyStore!vars

\* A step of one invocation that does not work on k, before or after.
LEMMA KeyElsewhere ==
  ASSUME NEW k \in Key, NEW i \in Invocation, raw' = raw,
         \A j \in Invocation \ {i} : pc'[j] = pc[j] /\ on'[j] = on[j],
         i \notin Holders(k), i \notin Holders(k)', record'[k] = record[k]
  PROVE  UNCHANGED KeyStore(k)!vars
<1>1. Holders(k)' = Holders(k)
  BY DEF Holders, Working, Id
<1>2. Stored(k)' = Stored(k)
  BY DEF Stored
<1>3. \A j \in Holders(k) : on'[j] = on[j]
  BY DEF Holders, Working
<1> QED
  BY <1>1, <1>2, <1>3, KeySame

\* The holder lets go, with or without a result.
LEMMA KeyReleased ==
  ASSUME TypeInv, LockInv, NEW k \in Key, NEW i \in Holders(k), Holders(k)' = {},
         Stored(k)' \in {None, raw[on[i]]}
  PROVE  KeyStore(k)!Next
<1>1. Contents(k) = {raw[on[i]]} /\ raw[on[i]] \in Raw /\ Stored(k) = None
  BY HolderFacts
<1>2. Contents(k)' = {}
  BY DEF Contents
<1>3. KeyStore(k)!Finish(raw[on[i]]) \/ KeyStore(k)!Drop(raw[on[i]])
  BY <1>1, <1>2 DEF KeyStore!Finish, KeyStore!Drop
<1> QED
  BY <1>1, <1>3 DEF KeyStore!Next

LEMMA KeyStep ==
  ASSUME RunTime < LockTime, TypeInv, LockInv, [Next]_vars, NEW k \in Key
  PROVE  KeyStore(k)!Next \/ UNCHANGED KeyStore(k)!vars
<1>r. raw' = raw
  BY RawStays
<1> USE DEF queueVars, requestVars, workerVars, historyVars
<1>0. ASSUME Working' = Working, on' = on,
             record'[k].status = record[k].status, record'[k].body = record[k].body
      PROVE  UNCHANGED KeyStore(k)!vars
  <2>1. Holders(k)' = Holders(k)
    BY <1>0, <1>r DEF Holders, Id
  <2>2. Stored(k)' = Stored(k)
    BY <1>0 DEF Stored
  <2> QED
    BY <1>0, <1>r, <2>1, <2>2, KeySame
<1>1. ASSUME NEW i \in Invocation, Receive(i) \/ Return(i) PROVE UNCHANGED KeyStore(k)!vars
  <2>1. record' = record /\ pc[i] \in {"idle", "next"} /\ pc'[i] \in {"idle", "next"}
    BY <1>1 DEF Receive, Return, Leave, TypeInv, TypeOK
  <2>2. \A j \in Invocation \ {i} : pc'[j] = pc[j] /\ on'[j] = on[j]
    BY <1>1 DEF Receive, Return, Leave, TypeInv, TypeOK
  <2>3. i \notin Holders(k) /\ i \notin Holders(k)'
    BY <2>1 DEF Holders, Working
  <2> QED
    BY <1>r, <2>1, <2>2, <2>3, KeyElsewhere
<1>2. ASSUME NEW i \in Invocation, ReadCurrent(i) \/ WriteCurrent(i)
      PROVE  UNCHANGED KeyStore(k)!vars
  <2>1. record' = record /\ on' = on /\ pc[i] \in {"read", "write"}
    BY <1>2 DEF ReadCurrent, WriteCurrent
  <2>2. PICK where \in {"write", "commit", "abort"} : pc' = [pc EXCEPT ![i] = where]
    BY <1>2 DEF ReadCurrent, WriteCurrent
  <2>3. Working' = Working
    BY <2>1, <2>2 DEF Working, TypeInv, TypeOK
  <2> QED
    BY <1>0, <2>1, <2>3
<1>3. ASSUME NEW i \in Invocation, Begin(i)
      PROVE  KeyStore(k)!Next \/ UNCHANGED KeyStore(k)!vars
  <2>1. PICK m \in todo[i] :
          \/ UNCHANGED <<record, pc, on>>
          \/ /\ Claimable(m)
             /\ record' = [record EXCEPT ![Id(m)] = Locked(i, m)]
             /\ \/ /\ pc' = [pc EXCEPT ![i] = "read"]
                   /\ on' = [on EXCEPT ![i] = m]
                \/ UNCHANGED <<pc, on>>
    BY <1>3 DEF Begin
  <2>2. m \in Message /\ Id(m) \in Key /\ raw[m] \in Raw
    BY IdFacts DEF TypeInv, TypeOK
  <2>3. i \notin Working /\ \A j \in Invocation \ {i} : pc'[j] = pc[j] /\ on'[j] = on[j]
    BY <1>3 DEF Begin, Working, TypeInv, TypeOK
  <2>4. CASE UNCHANGED <<record, pc, on>>
    BY <1>0, <2>4 DEF Working
  <2>5. CASE /\ Claimable(m)
             /\ record' = [record EXCEPT ![Id(m)] = Locked(i, m)]
             /\ \/ /\ pc' = [pc EXCEPT ![i] = "read"]
                   /\ on' = [on EXCEPT ![i] = m]
                \/ UNCHANGED <<pc, on>>
    <3>1. CASE Id(m) # k
      <4>1. record'[k] = record[k]
        BY <2>2, <2>5, <3>1 DEF TypeInv, TypeOK
      <4>2. i \notin Holders(k)'
        BY <1>r, <2>3, <2>5, <3>1 DEF Holders, Working, Id, TypeInv, TypeOK
      <4> QED
        BY <1>r, <2>3, <4>1, <4>2, KeyElsewhere DEF Holders
    <3>2. CASE Id(m) = k
      <4>1. \A j \in Working : Id(on[j]) # k
        BY <2>2, <2>5, <3>2, NotClaimable DEF LockInv
      <4>2. Holders(k) = {} /\ Contents(k) = {}
        BY <4>1 DEF Holders, Contents
      <4>3. record[k].status # "COMPLETED"
        BY <2>5, <3>2 DEF Claimable, Expired
      <4>4. record'[k].status = "IN_PROGRESS"
        BY <2>2, <2>5, <3>2 DEF Locked, TypeInv, TypeOK
      <4>5. Stored(k) = None /\ Stored(k)' = None
        BY <4>3, <4>4 DEF Stored
      <4>6. \A j \in Invocation \ {i} : j \notin Holders(k)'
        BY <1>r, <2>3, <4>1 DEF Holders, Working, Id
      <4>7. CASE pc' = [pc EXCEPT ![i] = "read"] /\ on' = [on EXCEPT ![i] = m]
        <5>1. pc'[i] = "read" /\ on'[i] = m
          BY <4>7 DEF TypeInv, TypeOK
        <5>2. i \in Holders(k)'
          BY <1>r, <3>2, <4>4, <5>1 DEF Holders, Working, Id
        <5>3. Holders(k)' = {i}
          BY <4>6, <5>2 DEF Holders, Working
        <5>4. Contents(k)' = {raw[m]}
          BY <1>r, <5>1, <5>3 DEF Contents
        <5>5. KeyStore(k)!Start(raw[m])
          BY <4>2, <4>5, <5>4 DEF KeyStore!Start
        <5> QED
          BY <2>2, <5>5 DEF KeyStore!Next
      <4>8. CASE UNCHANGED <<pc, on>>
        <5>1. Holders(k)' = {}
          BY <2>3, <4>6, <4>8 DEF Holders, Working
        <5> QED
          BY <1>r, <4>2, <4>5, <5>1, KeySame
      <4> QED
        BY <2>5, <4>7, <4>8
    <3> QED
      BY <3>1, <3>2
  <2> QED
    BY <2>1, <2>4, <2>5
<1>4. ASSUME NEW i \in Invocation, Commit(i)
      PROVE  KeyStore(k)!Next \/ UNCHANGED KeyStore(k)!vars
  <2>1. i \in Working /\ pc[i] = "commit" /\ Id(on[i]) \in Key
    BY <1>4, WorkingFacts DEF Commit
  <2>2. Held(i)
    BY <2>1 DEF LockInv, Covered
  <2>3. \A j \in Invocation \ {i} : pc'[j] = pc[j] /\ on'[j] = on[j]
    BY <1>4 DEF Commit, EndRecord, TypeInv, TypeOK
  <2>4. CASE Id(on[i]) # k
    <3>1. record'[k] = record[k]
      BY <1>4, <2>1, <2>4 DEF Commit, Finalize, TypeInv, TypeOK
    <3>2. i \notin Holders(k) /\ i \notin Holders(k)'
      BY <1>4, <1>r, <2>1, <2>4 DEF Commit, EndRecord, Holders, Working, Id, TypeInv, TypeOK
    <3> QED
      BY <1>r, <2>3, <3>1, <3>2, KeyElsewhere
  <2>5. CASE Id(on[i]) = k /\ record' = record
    <3>1. on' = on /\ Working' = Working
      BY <1>4, <2>1, <2>2, <2>5 DEF Commit, Finalize, Owns, Held, Finalized, Working, TypeInv, TypeOK
    <3> QED
      BY <1>0, <2>5, <3>1
  <2>6. CASE Id(on[i]) = k /\ Finalize(i, "COMPLETED")
    <3>1. record'[k] = Finalized(i, "COMPLETED")
      BY <2>1, <2>2, <2>6 DEF Finalize, Owns, Held, TypeInv, TypeOK
    <3>2. Holders(k)' = {} /\ Stored(k)' = raw[on[i]]
      BY <2>2, <2>6, <3>1 DEF Holders, Stored, Finalized, Held
    <3>3. i \in Holders(k)
      BY <2>1, <2>2, <2>6 DEF Holders, Held
    <3> QED
      BY <3>2, <3>3, KeyReleased
  <2> QED
    BY <1>4, <2>4, <2>5, <2>6 DEF Commit
<1>5. ASSUME NEW i \in Invocation, Abort(i) \/ Crash(i)
      PROVE  KeyStore(k)!Next \/ UNCHANGED KeyStore(k)!vars
  <2>1. i \notin Working'
    BY <1>5 DEF Abort, Crash, EndRecord, Leave, Working, TypeInv, TypeOK
  <2>2. \A j \in Invocation \ {i} : pc'[j] = pc[j] /\ on'[j] = on[j]
    BY <1>5 DEF Abort, Crash, EndRecord, Leave, TypeInv, TypeOK
  <2>3. \/ record' = record
        \/ /\ i \in Working /\ Owns(i)
           /\ record' = [record EXCEPT ![Id(on[i])] = Finalized(i, "FAILED")]
    BY <1>5 DEF Abort, Crash, RecordFailure, Finalize, Working
  <2>4. i \in Working => Id(on[i]) \in Key
    BY WorkingFacts DEF Working
  <2>5. CASE i \in Holders(k)
    <3>1. Id(on[i]) = k /\ Holders(k) = {i} /\ record[k].status = "IN_PROGRESS"
      BY <2>5, HolderFacts DEF Holders
    <3>2. record'[k].status \in {"IN_PROGRESS", "FAILED"}
      BY <2>3, <3>1 DEF Finalized, TypeInv, TypeOK
    <3>3. Stored(k)' = None
      BY <3>2 DEF Stored
    <3>4. \A j \in Holders(k)' : j \in Holders(k)
      BY <1>r, <2>1, <2>2, <3>1 DEF Holders, Working, Id
    <3>5. Holders(k)' = {}
      BY <2>1, <3>1, <3>4 DEF Holders
    <3> QED
      BY <2>5, <3>3, <3>5, KeyReleased
  <2>6. CASE i \notin Holders(k)
    <3>1. record'[k] = record[k]
      BY <2>3, <2>4, <2>6 DEF Holders, Owns, TypeInv, TypeOK
    <3>2. i \notin Holders(k)'
      BY <2>1 DEF Holders
    <3> QED
      BY <1>r, <2>2, <2>6, <3>1, <3>2, KeyElsewhere
  <2> QED
    BY <2>5, <2>6
<1>6. CASE Tick
  <2>1. UNCHANGED <<pc, on>> /\ record'[k].status = record[k].status /\ record'[k].body = record[k].body
    BY <1>6 DEF Tick
  <2> QED
    BY <1>0, <2>1 DEF Working
<1>7. CASE UNCHANGED <<record, pc, on>>
  BY <1>0, <1>7 DEF Working
<1> QED
  BY <1>1, <1>2, <1>3, <1>4, <1>5, <1>6, <1>7 DEF Next, Step, vars, Send, DeadLetter,
     PublishSource, NoteSource, StaffWrites

\* At most one consumer holds a key, and whatever happens to a key is a step
\* that SingleFlight knows or none (ingest_rescue_request_evaluation.py:36-48
\* and 159-176).
THEOREM KeysKept ==
  ASSUME RunTime < LockTime
  PROVE  Spec => KeysAreSingleFlight
<1>1. Spec => []LockInv
  BY LockAlways
<1>2. TypeInv /\ LockInv => \A k \in Key : \A i, j \in Holders(k) : i = j
  BY HolderFacts
<1>3. Init => \A k \in Key : KeyStore(k)!Init
  <2> SUFFICES ASSUME Init, NEW k \in Key PROVE KeyStore(k)!Init
    OBVIOUS
  <2>1. Working = {} /\ record[k] = NoRecord
    BY DEF Init, Working
  <2> QED
    BY <2>1 DEF KeyStore!Init, Contents, Holders, Stored, NoRecord
<1>4. TypeInv /\ LockInv /\ [Next]_vars =>
        [\A k \in Key : KeyStore(k)!Next \/ UNCHANGED KeyStore(k)!vars]_vars
  BY KeyStep
<1> QED
  BY <1>1, <1>2, <1>3, <1>4, TypeAlways, PTL DEF Spec, KeysAreSingleFlight
=============================================================================
