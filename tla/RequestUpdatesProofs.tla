------------------------ MODULE RequestUpdatesProofs ------------------------
(***************************************************************************)
(* Proofs about RequestUpdates, for any number of commands, keys and       *)
(* fields.  All of them hold for reads that are stale, except that a       *)
(* closed request is left alone.                                           *)
(***************************************************************************)
EXTENDS RequestUpdates, TLAPS

-----------------------------------------------------------------------------
(* Type correctness.                                                       *)

LEMMA GotoType ==
  ASSUME TypeOK, NEW c \in Command, NEW where \in PC, Goto(c, where)
  PROVE  pc' \in [Command -> PC]
BY DEF TypeOK, Goto

LEMMA FinishType ==
  ASSUME TypeOK, NEW c \in Command, NEW k \in ReplyKind, NEW d \in Command \cup {None},
         Finish(c, Answer(k, d))
  PROVE  /\ pc' \in [Command -> PC]
         /\ reply' \in [Command -> [kind : ReplyKind, command : Command \cup {None}]]
BY GotoType DEF TypeOK, Finish, Answer, PC

LEMMA KeyFacts ==
  ASSUME TypeOK, NEW c \in Command
  PROVE  /\ form[c] \in Form
         /\ Keyed(c) <=> form[c].key \in Key
BY ConstantsAssumption DEF TypeOK, Form, Keyed

LEMMA TypeInit == Init => TypeOK
<1> SUFFICES ASSUME Init PROVE TypeOK
  OBVIOUS
<1>1. form \in [Command -> Form] /\ closed \in BOOLEAN
  BY DEF Init
<1>2. pc \in [Command -> PC]
  BY DEF Init, PC
<1>3. reply \in [Command -> [kind : ReplyKind, command : Command \cup {None}]]
  BY DEF Init, ReplyKind, Answer
<1>4. /\ stored = {} /\ source = None /\ late = {} /\ wrote = {} /\ published = {}
      /\ meta \in [Field -> Command \cup {None}]
      /\ holder \in [Key -> Command \cup {None}]
      /\ result \in [Key -> Command \cup {None}]
  BY DEF Init
<1> QED
  BY <1>1, <1>2, <1>3, <1>4 DEF TypeOK

LEMMA TypeNext == TypeOK /\ [Next]_vars => TypeOK'
<1> SUFFICES ASSUME TypeOK, [Next]_vars PROVE TypeOK'
  OBVIOUS
<1> USE ConstantsAssumption
<1> USE DEF ReplyKind
<1>1. ASSUME NEW c \in Command, Arrive(c) PROVE TypeOK'
  <2>1. CASE Finish(c, Answer("refused", None)) /\ UNCHANGED holder
    BY <1>1, <2>1, FinishType DEF Arrive, TypeOK
  <2>2. CASE Goto(c, "check") /\ UNCHANGED <<holder, reply>>
    BY <1>1, <2>2, GotoType DEF Arrive, TypeOK, PC
  <2>3. CASE /\ Keyed(c) /\ holder' = [holder EXCEPT ![form[c].key] = c]
             /\ Goto(c, "check") /\ UNCHANGED reply
    BY <1>1, <2>3, GotoType, KeyFacts DEF Arrive, TypeOK, PC
  <2>4. CASE /\ Keyed(c) /\ Finish(c, Answer("replayed", result[form[c].key]))
             /\ UNCHANGED holder
    <3>1. result[form[c].key] \in Command \cup {None}
      BY <2>4, KeyFacts DEF TypeOK
    <3> QED
      BY <1>1, <2>4, <3>1, FinishType DEF Arrive, TypeOK
  <2> QED
    BY <1>1, <2>1, <2>2, <2>3, <2>4 DEF Arrive, Refuse
<1>2. ASSUME NEW c \in Command, Check(c) PROVE TypeOK'
  <2>1. CASE Refuse(c)
    BY <1>2, <2>1, FinishType DEF Check, Refuse, TypeOK
  <2>2. CASE \E where \in {"put", "meta"} : Goto(c, where) /\ UNCHANGED reply
    BY <1>2, <2>2, GotoType DEF Check, TypeOK, PC
  <2> QED
    BY <1>2, <2>1, <2>2 DEF Check
<1>3. ASSUME NEW c \in Command, PutUpdate(c) PROVE TypeOK'
  BY <1>3, GotoType DEF PutUpdate, TypeOK, PC
<1>4. ASSUME NEW c \in Command, WriteMeta(c) PROVE TypeOK'
  <2>1. meta' \in [Field -> Command \cup {None}] /\ wrote' \in SUBSET Command
    BY <1>4 DEF WriteMeta, TypeOK
  <2>2. pc' \in [Command -> PC]
    BY <1>4, GotoType DEF WriteMeta, WriteFailed, PC
  <2> QED
    BY <1>4, <2>1, <2>2 DEF WriteMeta, TypeOK
<1>5. ASSUME NEW c \in Command, Release(c) PROVE holder' \in [Key -> Command \cup {None}]
  BY <1>5 DEF Release, TypeOK
<1>6. ASSUME NEW c \in Command, Fail(c) PROVE TypeOK'
  BY <1>5, <1>6, FinishType DEF Fail, TypeOK
<1>7. ASSUME NEW c \in Command, Commit(c) PROVE TypeOK'
  <2>1. holder' \in [Key -> Command \cup {None}] /\ result' \in [Key -> Command \cup {None}]
    BY <1>5, <1>7 DEF Commit, TypeOK
  <2>2. /\ pc' \in [Command -> PC]
        /\ reply' \in [Command -> [kind : ReplyKind, command : Command \cup {None}]]
    <3>1. CASE Goto(c, "publish") /\ UNCHANGED reply
      BY <3>1, GotoType DEF TypeOK, PC
    <3>2. CASE CommitFailed(c)
      BY <3>2, FinishType DEF CommitFailed
    <3> QED
      BY <1>7, <3>1, <3>2 DEF Commit
  <2> QED
    BY <1>7, <2>1, <2>2 DEF Commit, TypeOK
<1>8. ASSUME NEW c \in Command, Publish(c) PROVE TypeOK'
  <2>1. published' \in SUBSET Command
    BY <1>8 DEF Publish, TypeOK
  <2>2. CASE Goto(c, "name") /\ UNCHANGED reply
    BY <1>8, <2>1, <2>2, GotoType DEF Publish, TypeOK, PC
  <2>3. CASE Succeed(c)
    BY <1>8, <2>1, <2>3, FinishType DEF Publish, Succeed, TypeOK
  <2> QED
    BY <1>8, <2>2, <2>3 DEF Publish
<1>9. ASSUME NEW c \in Command, NameSource(c) PROVE TypeOK'
  BY <1>9, FinishType DEF NameSource, Succeed, TypeOK
<1>10. ASSUME NEW c \in Command, Crash(c) PROVE TypeOK'
  BY <1>10, FinishType DEF Crash, TypeOK
<1>11. CASE Close
  BY <1>11 DEF Close, TypeOK
<1>12. ASSUME NEW k \in Key, LockExpires(k) PROVE TypeOK'
  BY <1>12 DEF LockExpires, TypeOK
<1>13. CASE UNCHANGED vars
  BY <1>13 DEF vars, TypeOK
<1> QED
  BY <1>1, <1>2, <1>3, <1>4, <1>6, <1>7, <1>8, <1>9, <1>10, <1>11, <1>12, <1>13 DEF Next

\* Every variable keeps its type.
THEOREM TypeCorrect == Spec => []TypeOK
BY TypeInit, TypeNext, PTL DEF Spec

-----------------------------------------------------------------------------
(* The keys.                                                               *)

LEMMA FormStays == [Next]_vars => UNCHANGED form
BY DEF Next, vars, Arrive, Check, PutUpdate, WriteMeta, Fail, Commit, Publish,
       NameSource, Crash, Close, LockExpires

StepOf(c) ==
  \/ Arrive(c) \/ Check(c) \/ PutUpdate(c) \/ WriteMeta(c) \/ Fail(c)
  \/ Commit(c) \/ Publish(c) \/ NameSource(c) \/ Crash(c)

\* A command moves alone.
LEMMA OthersIdle ==
  ASSUME TypeOK, NEW c \in Command, StepOf(c), NEW d \in Command, d # c
  PROVE  /\ pc'[d] = pc[d]
         /\ reply'[d] = reply[d]
         /\ d \in stored' <=> d \in stored
         /\ d \in wrote' <=> d \in wrote
         /\ d \in published' <=> d \in published
<1> USE DEF Goto, Finish, TypeOK
<1>1. CASE Arrive(c) \/ Check(c)
  BY <1>1 DEF Arrive, Check, Refuse
<1>2. CASE PutUpdate(c) \/ WriteMeta(c)
  BY <1>2 DEF PutUpdate, WriteMeta, WriteFailed
<1>3. CASE Fail(c) \/ Commit(c)
  BY <1>3 DEF Fail, Commit, CommitFailed
<1>4. CASE Publish(c) \/ NameSource(c) \/ Crash(c)
  BY <1>4 DEF Publish, NameSource, Succeed, Crash
<1> QED
  BY <1>1, <1>2, <1>3, <1>4 DEF StepOf

\* Between the reservation and the finalization.
Working == {"check", "put", "meta", "fail", "commit"}

\* Who works under a key holds it, a held key has no answer, and only a
\* command that carries the key holds it.
HolderInv ==
  /\ \A c \in Command : pc[c] \in Working /\ Keyed(c) => holder[form[c].key] = c
  /\ \A k \in Key : holder[k] # None => result[k] = None /\ form[holder[k]].key = k

KInv == TypeOK /\ HolderInv

LEMMA KInvInit == Init => KInv
BY TypeInit DEF Init, KInv, HolderInv, Working

\* Steps that leave the keys alone.
Inner(c) ==
  Check(c) \/ PutUpdate(c) \/ WriteMeta(c) \/ Publish(c) \/ NameSource(c) \/ Crash(c)

LEMMA InnerKeys ==
  ASSUME TypeOK, NEW c \in Command, Inner(c)
  PROVE  /\ UNCHANGED <<holder, result>>
         /\ pc'[c] \in Working => pc[c] \in Working
<1> USE DEF Goto, Finish, TypeOK, Working
<1>1. CASE Check(c) \/ PutUpdate(c) \/ WriteMeta(c)
  BY <1>1 DEF Check, Refuse, PutUpdate, WriteMeta, WriteFailed
<1>2. CASE Publish(c) \/ NameSource(c) \/ Crash(c)
  BY <1>2 DEF Publish, NameSource, Succeed, Crash
<1> QED
  BY <1>1, <1>2 DEF Inner

\* What a command that finalizes its key, or fails to, does to it.
LEMMA FinalizeKeys ==
  ASSUME TypeOK, NEW c \in Command, Fail(c) \/ Commit(c)
  PROVE  /\ pc[c] \in Working /\ pc'[c] \notin Working
         /\ \/ UNCHANGED <<holder, result>>
            \/ Release(c) /\ UNCHANGED result
            \/ /\ Release(c)
               /\ result' = [k \in Key |-> IF k = form[c].key THEN c ELSE result[k]]
BY DEF Fail, Commit, CommitFailed, Goto, Finish, TypeOK, Working

LEMMA KInvNext == KInv /\ [Next]_vars => KInv'
<1> SUFFICES ASSUME KInv, [Next]_vars PROVE HolderInv'
  BY TypeNext DEF KInv
<1> USE ConstantsAssumption
<1>1. TypeOK /\ HolderInv /\ UNCHANGED form
  BY FormStays DEF KInv
<1>2. \A c \in Command : Keyed(c) => form[c].key \in Key
  BY <1>1, KeyFacts
<1>3. \A c \in Command : Keyed(c)' = Keyed(c)
  BY <1>1 DEF Keyed
<1>4. ASSUME NEW c \in Command, Arrive(c) PROVE HolderInv'
  <2>1. \A d \in Command : d # c => pc'[d] = pc[d]
    BY <1>1, <1>4, OthersIdle DEF StepOf
  <2>2. CASE ~Keyed(c) /\ UNCHANGED <<holder, result>>
    BY <1>1, <1>2, <1>3, <2>1, <2>2 DEF HolderInv, Keyed
  <2>3. CASE pc'[c] = "done" /\ UNCHANGED <<holder, result>>
    BY <1>1, <1>2, <1>3, <2>1, <2>3 DEF HolderInv, Keyed, Working
  <2>4. CASE /\ Keyed(c) /\ Reservable(c)
             /\ holder' = [holder EXCEPT ![form[c].key] = c]
             /\ UNCHANGED result
    <3>1. ASSUME NEW d \in Command, pc'[d] \in Working, Keyed(d)
          PROVE  holder'[form[d].key] = d
      BY <1>1, <1>2, <2>1, <2>4, <3>1 DEF HolderInv, Reservable, TypeOK
    <3>2. ASSUME NEW k \in Key, holder'[k] # None
          PROVE  result'[k] = None /\ form[holder'[k]].key = k
      BY <1>1, <1>2, <2>4, <3>2 DEF HolderInv, Reservable, TypeOK
    <3> QED
      BY <1>1, <1>3, <3>1, <3>2 DEF HolderInv, Keyed
  <2>5. \A a : Finish(c, a) => pc'[c] = "done"
    BY <1>1 DEF Finish, Goto, TypeOK
  <2> QED
    BY <1>4, <2>2, <2>3, <2>4, <2>5 DEF Arrive, Refuse
<1>5. ASSUME NEW c \in Command, Inner(c) PROVE HolderInv'
  <2>1. \A d \in Command : d # c => pc'[d] = pc[d]
    BY <1>1, <1>5, OthersIdle DEF StepOf, Inner
  <2> QED
    BY <1>1, <1>3, <1>5, <2>1, InnerKeys DEF HolderInv, Keyed
<1>6. ASSUME NEW c \in Command, Fail(c) \/ Commit(c) PROVE HolderInv'
  <2>1. \A d \in Command : d # c => pc'[d] = pc[d]
    BY <1>1, <1>6, OthersIdle DEF StepOf
  <2>2. pc[c] \in Working /\ pc'[c] \notin Working
    BY <1>1, <1>6, FinalizeKeys
  <2>3. CASE UNCHANGED <<holder, result>>
    BY <1>1, <1>3, <2>1, <2>2, <2>3 DEF HolderInv, Keyed
  <2>4. CASE /\ Release(c)
             /\ \A k \in Key : k # form[c].key => result'[k] = result[k]
    <3>1. \A k \in Key : holder'[k] = IF k = form[c].key THEN None ELSE holder[k]
      BY <2>4 DEF Release
    <3>2. ASSUME NEW d \in Command, pc'[d] \in Working, Keyed(d)
          PROVE  holder'[form[d].key] = d
      <4>1. d # c /\ holder[form[d].key] = d
        BY <1>1, <2>1, <2>2, <3>2 DEF HolderInv
      <4>2. form[d].key # form[c].key
        BY <1>1, <2>2, <3>2, <4>1 DEF HolderInv, Keyed
      <4> QED
        BY <1>2, <3>1, <3>2, <4>1, <4>2
    <3> QED
      BY <1>1, <1>3, <2>4, <3>1, <3>2 DEF HolderInv, Keyed
  <2> QED
    BY <1>1, <1>6, <2>3, <2>4, FinalizeKeys
<1>7. CASE Close
  BY <1>1, <1>3, <1>7 DEF HolderInv, Close, Keyed
<1>8. ASSUME NEW k \in Key, LockExpires(k) PROVE HolderInv'
  BY <1>1, <1>2, <1>3, <1>8 DEF HolderInv, LockExpires, TypeOK, Working, Keyed
<1>9. CASE UNCHANGED vars
  BY <1>1, <1>9 DEF HolderInv, vars, Keyed
<1> QED
  BY <1>4, <1>5, <1>6, <1>7, <1>8, <1>9 DEF Next, Inner

\* What a step does to one key, in the terms of SingleFlight.
LEMMA KeyStep ==
  ASSUME KInv, [Next]_vars, NEW k \in Key
  PROVE  KeyStore(k)!Next \/ UNCHANGED KeyStore(k)!vars
<1> USE ConstantsAssumption
<1> DEFINE Same == holder'[k] = holder[k] /\ result'[k] = result[k]
<1>1. Same => UNCHANGED KeyStore(k)!vars
  BY DEF KeyStore!vars, WorkOn
<1>2. TypeOK /\ HolderInv /\ UNCHANGED form
  BY FormStays DEF KInv
<1>3. holder[k] = None => WorkOn(k) = {}
  BY DEF WorkOn
<1>4. ASSUME NEW c \in Command PROVE holder[k] = c => WorkOn(k) = {c}
  BY DEF WorkOn
<1>5. holder'[k] = None => WorkOn(k)' = {}
  BY DEF WorkOn
<1>6. ASSUME NEW c \in Command, Arrive(c) PROVE Same \/ KeyStore(k)!Start(c)
  <2>1. CASE UNCHANGED <<holder, result>>
    BY <2>1
  <2>2. CASE /\ Keyed(c) /\ Reservable(c)
             /\ holder' = [holder EXCEPT ![form[c].key] = c]
             /\ UNCHANGED result
    BY <1>2, <1>3, <2>2 DEF Reservable, TypeOK, KeyStore!Start, WorkOn
  <2> QED
    BY <1>6, <2>1, <2>2 DEF Arrive
<1>7. ASSUME NEW c \in Command, Inner(c) PROVE Same
  BY <1>2, <1>7, InnerKeys
<1>8. ASSUME NEW c \in Command, Fail(c) \/ Commit(c)
      PROVE  Same \/ KeyStore(k)!Finish(c) \/ KeyStore(k)!Drop(c)
  <2>1. CASE UNCHANGED <<holder, result>>
    BY <2>1
  <2>2. CASE k # form[c].key
    BY <1>2, <1>8, <2>2, FinalizeKeys DEF Release
  <2>3. CASE k = form[c].key /\ Release(c)
    <3>1. holder[k] = c
      BY <1>2, <1>8, <2>3, FinalizeKeys DEF HolderInv, Keyed
    <3>2. holder'[k] = None /\ (result'[k] = result[k] \/ result'[k] = c)
      BY <1>2, <1>8, <2>3, FinalizeKeys DEF Release
    <3> QED
      BY <1>4, <1>5, <3>1, <3>2 DEF KeyStore!Finish, KeyStore!Drop
  <2> QED
    BY <1>2, <1>8, <2>1, <2>2, <2>3, FinalizeKeys
<1>9. ASSUME NEW j \in Key, LockExpires(j)
      PROVE  Same \/ \E c \in Command : KeyStore(k)!Drop(c)
  <2>1. CASE j # k
    BY <1>2, <1>9, <2>1 DEF LockExpires, TypeOK
  <2>2. CASE j = k
    <3>1. PICK c \in Command : holder[k] = c
      BY <1>2, <1>9, <2>2 DEF LockExpires, TypeOK
    <3>2. holder'[k] = None /\ result'[k] = result[k]
      BY <1>2, <1>9, <2>2 DEF LockExpires, TypeOK
    <3> QED
      BY <1>4, <1>5, <3>1, <3>2 DEF KeyStore!Drop
  <2> QED
    BY <2>1, <2>2
<1>10. ASSUME Close \/ UNCHANGED vars PROVE Same
  BY <1>10 DEF Close, vars
<1> HIDE DEF Same
<1>11. CASE Same
  BY <1>1, <1>11
<1>12. CASE \E c \in Command : KeyStore(k)!Start(c) \/ KeyStore(k)!Finish(c) \/ KeyStore(k)!Drop(c)
  BY <1>12 DEF KeyStore!Next
<1>13. Same \/ \E c \in Command : KeyStore(k)!Start(c) \/ KeyStore(k)!Finish(c) \/ KeyStore(k)!Drop(c)
  BY <1>6, <1>7, <1>8, <1>9, <1>10 DEF Next, Inner
<1> QED
  BY <1>11, <1>12, <1>13

\* Whatever path a change takes, what happens to its key is a step that
\* SingleFlight knows or none (create_citizen_update.py:48-60 and 96-127).
THEOREM KeysKept == Spec => KeysAreSingleFlight
<1>1. Init => \A k \in Key : KeyStore(k)!Init
  BY DEF Init, KeyStore!Init, WorkOn
<1>2. KInv /\ [Next]_vars =>
        [\A k \in Key : KeyStore(k)!Next \/ UNCHANGED KeyStore(k)!vars]_<<holder, result>>
  BY KeyStep
<1> QED
  BY <1>1, <1>2, KInvInit, KInvNext, PTL DEF Spec, KeysAreSingleFlight

-----------------------------------------------------------------------------
(* What a command has done.                                                *)

\* The writes of d took effect.
Whole(d) == d \in wrote /\ (form[d].kind = "update" => d \in stored)

\* The key of d, if it has one, replays its answer.
Answered(d) == Keyed(d) => result[form[d].key] = d

Gave(c) == reply[c].kind \in {"failed", "crashed"}

\* What c has written so far, by where it is and how it ended.
Progress(c) ==
  /\ pc[c] \in {"idle", "check"} => c \notin stored \cup wrote \cup published
  /\ pc[c] = "meta" /\ form[c].kind = "update" => c \in stored
  /\ pc[c] \in {"commit", "publish", "name"} => Whole(c)
  /\ pc[c] \in {"publish", "name"} => Answered(c)
  /\ pc[c] = "name" => c \in published
  /\ Gave(c) => pc[c] = "done"
  /\ c \in stored \cup wrote => pc[c] \in Working \/ Answered(c) \/ Gave(c)
  /\ c \in published => Whole(c) /\ Answered(c)

Told(c) ==
  reply[c].kind \in {"changed", "replayed"} =>
    reply[c].command \in Command /\ Whole(reply[c].command)

StoreInv ==
  /\ \A k \in Key : result[k] # None => Whole(result[k]) /\ form[result[k]].key = k
  /\ source # None => source \in published
  /\ \A f \in Field : meta[f] # None => meta[f] \in wrote
  /\ \A c \in wrote : \A f \in form[c].fields : meta[f] # None

ProgressInv == \A c \in Command : Progress(c) /\ Told(c)

IInv == KInv /\ StoreInv /\ ProgressInv

LEMMA IInvInit == Init => IInv
<1> SUFFICES ASSUME Init PROVE IInv
  OBVIOUS
<1>1. StoreInv
  BY DEF Init, StoreInv
<1>2. ProgressInv
  BY DEF Init, ProgressInv, Progress, Told, Gave, Answer
<1> QED
  BY <1>1, <1>2, KInvInit DEF IInv

\* Nothing that was written, published or answered is taken back.
LEMMA Grows ==
  ASSUME KInv, [Next]_vars
  PROVE  /\ stored \subseteq stored' /\ wrote \subseteq wrote' /\ published \subseteq published'
         /\ \A k \in Key : result[k] # None => result'[k] = result[k]
<1>1. stored \subseteq stored' /\ wrote \subseteq wrote' /\ published \subseteq published'
  BY DEF Next, vars, Arrive, Check, PutUpdate, WriteMeta, Fail, Commit, Publish,
         NameSource, Crash, Close, LockExpires
<1>2. ASSUME NEW c \in Command, Commit(c), NEW k \in Key, result[k] # None
      PROVE  result'[k] = result[k]
  <2>1. k # form[c].key
    BY <1>2, ConstantsAssumption DEF KInv, HolderInv, TypeOK, Commit, Working, Keyed
  <2> QED
    BY <1>2, <2>1 DEF Commit
<1>3. ASSUME \A c \in Command : ~Commit(c) PROVE result' = result
  BY <1>3 DEF Next, vars, Arrive, Check, PutUpdate, WriteMeta, Fail, Publish,
         NameSource, Crash, Close, LockExpires
<1> QED
  BY <1>1, <1>2, <1>3

LEMMA WholeStays ==
  ASSUME KInv, [Next]_vars, NEW d \in Command
  PROVE  /\ Whole(d) => Whole(d)'
         /\ Answered(d) => Answered(d)'
<1>1. Whole(d) => Whole(d)'
  BY Grows, FormStays DEF Whole
<1>2. Answered(d) => Answered(d)'
  BY Grows, FormStays, KeyFacts, ConstantsAssumption DEF Answered, Keyed, KInv
<1> QED
  BY <1>1, <1>2

\* A command the step leaves alone.
LEMMA ProgressKept ==
  ASSUME KInv, [Next]_vars, NEW d \in Command, Progress(d), Told(d),
         pc'[d] = pc[d], reply'[d] = reply[d],
         d \in stored' <=> d \in stored,
         d \in wrote' <=> d \in wrote,
         d \in published' <=> d \in published
  PROVE  Progress(d)' /\ Told(d)'
<1>1. (Whole(d) => Whole(d)') /\ (Answered(d) => Answered(d)')
  BY WholeStays
<1>2. \A e \in Command : Whole(e) => Whole(e)'
  BY WholeStays
<1>3. Gave(d)' = Gave(d)
  BY DEF Gave
<1>4. Told(d)'
  BY <1>2 DEF Told
<1>5. Progress(d)'
  BY <1>1, <1>3, FormStays DEF Progress
<1> QED
  BY <1>4, <1>5

LEMMA IInvNext == IInv /\ [Next]_vars => IInv'
<1> SUFFICES ASSUME IInv, [Next]_vars PROVE StoreInv' /\ ProgressInv'
  BY KInvNext DEF IInv
<1> USE ConstantsAssumption
<1>1. KInv /\ TypeOK /\ UNCHANGED form
  BY FormStays DEF IInv, KInv
<1>2. \A d \in Command : (Whole(d) => Whole(d)') /\ (Answered(d) => Answered(d)')
  BY <1>1, WholeStays
<1>3. \A c \in Command : Keyed(c) <=> form[c].key \in Key
  BY <1>1, KeyFacts
\* An answer that was there.
<1>0. ASSUME NEW k \in Key, result[k] # None, result'[k] = result[k]
      PROVE  Whole(result[k])' /\ (form[result[k]].key)' = k
  <2>1. PICK d \in Command : d = result[k]
    BY <1>0, <1>1 DEF TypeOK
  <2>2. Whole(d)' /\ form[d].key = k
    BY <1>0, <1>2, <2>1 DEF IInv, StoreInv
  <2> QED
    BY <1>0, <1>1, <2>1, <2>2 DEF Whole
\* The stores, when no answer, write or source is new.
<1>4. ASSUME UNCHANGED <<result, source, meta, wrote>> PROVE StoreInv'
  BY <1>0, <1>1, <1>4, Grows DEF IInv, StoreInv
\* The step of one command.
<1>5. ASSUME NEW c \in Command, StepOf(c), Progress(c)' /\ Told(c)' PROVE ProgressInv'
  <2> SUFFICES ASSUME NEW d \in Command, d # c PROVE Progress(d)' /\ Told(d)'
    BY <1>5 DEF ProgressInv
  <2> QED
    BY <1>1, <1>5, OthersIdle, ProgressKept DEF IInv, ProgressInv
<1>6. ASSUME UNCHANGED <<pc, reply, stored, wrote, published>> PROVE ProgressInv'
  <2> SUFFICES ASSUME NEW d \in Command PROVE Progress(d)' /\ Told(d)'
    BY DEF ProgressInv
  <2> QED
    BY <1>1, <1>6, ProgressKept DEF IInv, ProgressInv
<1>7. ASSUME NEW c \in Command PROVE Progress(c) /\ Told(c)
  BY DEF IInv, ProgressInv
<1>8. ASSUME NEW c \in Command, Arrive(c) PROVE StoreInv' /\ ProgressInv'
  <2>1. UNCHANGED <<stored, meta, source, result, wrote, published>> /\ pc[c] = "idle"
    BY <1>8 DEF Arrive
  <2>2. c \notin stored \cup wrote \cup published
    BY <1>7, <2>1 DEF Progress
  <2>3. CASE Goto(c, "check") /\ UNCHANGED reply
    <3>1. pc'[c] = "check"
      BY <1>1, <2>3 DEF Goto, TypeOK
    <3>2. ~Gave(c) /\ Told(c)'
      BY <1>2, <1>7, <2>1, <2>3 DEF Progress, Told, Gave
    <3>3. Progress(c)'
      BY <2>1, <2>2, <2>3, <3>1, <3>2 DEF Progress, Gave
    <3> QED
      BY <1>4, <1>5, <1>8, <2>1, <3>2, <3>3 DEF StepOf
  <2>4. CASE Refuse(c)
    <3>1. pc'[c] = "done" /\ reply'[c].kind = "refused"
      BY <1>1, <2>4 DEF Refuse, Finish, Goto, Answer, TypeOK
    <3>2. Progress(c)' /\ Told(c)'
      BY <2>1, <2>2, <3>1 DEF Progress, Told, Gave
    <3> QED
      BY <1>4, <1>5, <1>8, <2>1, <3>2 DEF StepOf
  <2>5. CASE /\ Keyed(c) /\ result[form[c].key] # None
             /\ Finish(c, Answer("replayed", result[form[c].key]))
    <3>1. /\ pc'[c] = "done" /\ reply'[c].kind = "replayed"
          /\ reply'[c].command = result[form[c].key]
      BY <1>1, <2>5 DEF Finish, Goto, Answer, TypeOK
    <3>2. PICK d \in Command : d = result[form[c].key] /\ Whole(d)
      BY <1>1, <1>3, <2>5 DEF IInv, StoreInv, TypeOK
    <3>3. Told(c)'
      BY <1>2, <3>1, <3>2 DEF Told, Whole
    <3>4. Progress(c)'
      BY <2>1, <2>2, <3>1 DEF Progress, Gave
    <3> QED
      BY <1>4, <1>5, <1>8, <2>1, <3>3, <3>4 DEF StepOf
  <2> QED
    BY <1>8, <2>3, <2>4, <2>5 DEF Arrive
\* An end by refusal, failure or death leaves no other trace.
<1>9. ASSUME NEW c \in Command, StepOf(c), UNCHANGED <<stored, wrote, published>>,
             NEW k \in {"refused", "failed", "crashed"}, Finish(c, Answer(k, None)),
             k = "refused" => c \notin stored \cup wrote
      PROVE  ProgressInv'
  <2>1. pc'[c] = "done" /\ reply'[c].kind = k
    BY <1>1, <1>9 DEF Finish, Goto, Answer, TypeOK
  <2>2. Gave(c)' <=> k # "refused"
    BY <2>1 DEF Gave
  <2>3. Told(c)'
    BY <2>1 DEF Told
  <2>4. c \in published => Whole(c)' /\ Answered(c)'
    BY <1>2, <1>7 DEF Progress
  <2>5. Progress(c)'
    BY <1>9, <2>1, <2>2, <2>4 DEF Progress
  <2> QED
    BY <1>5, <1>9, <2>3, <2>5
\* A call that the command goes on from.
<1>10. ASSUME NEW c \in Command, StepOf(c), pc[c] # "done", UNCHANGED reply,
              pc'[c] \in PC \ {"idle", "check", "done"}, Progress(c)'
       PROVE  ProgressInv'
  <2>1. Told(c)'
    BY <1>2, <1>7, <1>10 DEF Told
  <2> QED
    BY <1>5, <1>10, <2>1
<1>11. ASSUME NEW c \in Command, Check(c) PROVE StoreInv' /\ ProgressInv'
  <2>1. /\ UNCHANGED <<stored, meta, source, result, wrote, published>> /\ pc[c] = "check"
        /\ c \notin stored \cup wrote \cup published
    BY <1>7, <1>11 DEF Check, Progress
  <2>2. CASE Refuse(c)
    BY <1>4, <1>9, <1>11, <2>1, <2>2 DEF StepOf, Refuse
  <2>3. CASE /\ Goto(c, IF form[c].kind = "update" THEN "put" ELSE "meta")
             /\ UNCHANGED reply
    <3>1. pc'[c] = IF form[c].kind = "update" THEN "put" ELSE "meta"
      BY <1>1, <2>3 DEF Goto, TypeOK
    <3>2. ~Gave(c) /\ ~Gave(c)'
      BY <1>7, <2>1, <2>3 DEF Progress, Gave
    <3>3. Progress(c)'
      BY <1>1, <2>1, <3>1, <3>2 DEF Progress
    <3> QED
      BY <1>4, <1>10, <1>11, <2>1, <2>3, <3>1, <3>3 DEF StepOf, PC
  <2> QED
    BY <1>11, <2>2, <2>3 DEF Check
<1>12. ASSUME NEW c \in Command, PutUpdate(c) PROVE StoreInv' /\ ProgressInv'
  <2>1. /\ UNCHANGED <<form, meta, source, result, reply, wrote, published>> /\ pc[c] = "put"
    BY <1>12 DEF PutUpdate
  <2>2. pc'[c] \in {"meta", "fail"} /\ (pc'[c] = "meta" => c \in stored')
    BY <1>1, <1>12 DEF PutUpdate, Goto, TypeOK
  <2>3. ~Gave(c) /\ ~Gave(c)'
    BY <1>7, <2>1 DEF Progress, Gave
  <2>4. c \in published' => Whole(c)' /\ Answered(c)'
    BY <1>2, <1>7, <2>1 DEF Progress
  <2>5. Progress(c)'
    BY <2>1, <2>2, <2>3, <2>4 DEF Progress, Working
  <2> QED
    BY <1>4, <1>10, <1>12, <2>1, <2>2, <2>5 DEF StepOf, PC
<1>13. ASSUME NEW c \in Command, WriteMeta(c) PROVE StoreInv' /\ ProgressInv'
  <2>1. UNCHANGED <<form, stored, source, result, reply, published>> /\ pc[c] = "meta"
    BY <1>13 DEF WriteMeta
  <2>2. pc'[c] \in {"commit", "fail"} /\ (pc'[c] = "commit" => Whole(c)')
    BY <1>1, <1>7, <1>13 DEF WriteMeta, WriteFailed, Goto, TypeOK, Progress, Whole
  <2>3. ~Gave(c) /\ ~Gave(c)'
    BY <1>7, <2>1 DEF Progress, Gave
  <2>4. c \in published' => Whole(c)' /\ Answered(c)'
    BY <1>2, <1>7, <2>1 DEF Progress
  <2>5. Progress(c)'
    BY <2>1, <2>2, <2>3, <2>4 DEF Progress, Working
  <2>6. StoreInv'
    <3>1. \A k \in Key : result[k] # None => (Whole(result[k]) /\ form[result[k]].key = k)'
      BY <1>0, <2>1
    <3>2. /\ \A f \in Field : meta'[f] # None => meta'[f] \in wrote'
          /\ \A d \in wrote' : \A f \in form[d].fields : meta'[f] # None
      <4>1. CASE UNCHANGED <<meta, wrote>>
        BY <4>1 DEF IInv, StoreInv
      <4>2. CASE /\ meta' = [f \in Field |-> IF f \in form[c].fields THEN c ELSE meta[f]]
                 /\ wrote' = wrote \cup {c}
        <5>1. \A d \in Command : form[d].fields \subseteq Field
          BY <1>1, KeyFacts DEF Form
        <5> QED
          BY <1>1, <4>2, <5>1 DEF IInv, StoreInv, TypeOK
      <4> QED
        BY <1>13, <4>1, <4>2 DEF WriteMeta
    <3> QED
      BY <2>1, <3>1, <3>2 DEF IInv, StoreInv
  <2> QED
    BY <1>10, <1>13, <2>1, <2>2, <2>5, <2>6 DEF StepOf, PC
<1>14. ASSUME NEW c \in Command, Fail(c) PROVE StoreInv' /\ ProgressInv'
  BY <1>4, <1>9, <1>14 DEF Fail, StepOf
<1>15. ASSUME NEW c \in Command, Commit(c) PROVE StoreInv' /\ ProgressInv'
  <2>1. /\ UNCHANGED <<form, stored, meta, source, wrote, published>> /\ pc[c] = "commit"
        /\ Whole(c)
    BY <1>7, <1>15 DEF Commit, Progress
  <2>2. StoreInv'
    <3>1. \A k \in Key : result'[k] = result[k] \/ (result'[k] = c /\ form[c].key = k)
      BY <1>15 DEF Commit
    <3>2. Whole(c)'
      BY <1>2, <2>1
    <3>3. ASSUME NEW k \in Key, result'[k] # None
          PROVE  (Whole(result[k]) /\ form[result[k]].key = k)'
      <4>1. CASE result'[k] = result[k]
        BY <1>0, <3>3, <4>1
      <4>2. CASE result'[k] = c /\ form[c].key = k
        BY <2>1, <3>2, <4>2 DEF Whole
      <4> QED
        BY <3>1, <4>1, <4>2
    <3> QED
      BY <2>1, <3>3 DEF IInv, StoreInv
  <2>3. CASE CommitFailed(c)
    BY <1>9, <1>15, <2>1, <2>2, <2>3 DEF CommitFailed, StepOf
  <2>4. CASE /\ result' = [k \in Key |-> IF k = form[c].key THEN c ELSE result[k]]
             /\ Goto(c, "publish") /\ UNCHANGED reply
    <3>1. Answered(c)' /\ Whole(c)'
      BY <1>1, <1>2, <1>3, <2>1, <2>4 DEF Answered, Keyed
    <3>2. pc'[c] = "publish"
      BY <1>1, <2>4 DEF Goto, TypeOK
    <3>3. ~Gave(c) /\ ~Gave(c)'
      BY <1>7, <2>1, <2>4 DEF Progress, Gave
    <3>4. Progress(c)'
      BY <2>1, <3>1, <3>2, <3>3 DEF Progress
    <3> QED
      BY <1>10, <1>15, <2>1, <2>2, <2>4, <3>2, <3>4 DEF StepOf, PC
  <2> QED
    BY <1>15, <2>3, <2>4 DEF Commit
\* Who tells of a change has made it.
<1>16. ASSUME NEW c \in Command, StepOf(c), Succeed(c), UNCHANGED <<stored, wrote>>,
              pc[c] \in {"publish", "name"}
       PROVE  ProgressInv'
  <2>1. pc'[c] = "done" /\ reply'[c].kind = "changed" /\ reply'[c].command = c
    BY <1>1, <1>16 DEF Succeed, Finish, Goto, Answer, TypeOK
  <2>2. Whole(c)' /\ Answered(c)'
    BY <1>2, <1>7, <1>16 DEF Progress
  <2>3. Progress(c)' /\ Told(c)'
    BY <2>1, <2>2 DEF Progress, Told, Gave
  <2> QED
    BY <1>5, <1>16, <2>3
<1>17. ASSUME NEW c \in Command, Publish(c) PROVE StoreInv' /\ ProgressInv'
  <2>1. /\ UNCHANGED <<form, stored, meta, source, result, wrote>> /\ pc[c] = "publish"
    BY <1>17 DEF Publish
  <2>2. CASE Succeed(c)
    BY <1>4, <1>16, <1>17, <2>1, <2>2 DEF StepOf
  <2>3. CASE published' = published \cup {c} /\ Goto(c, "name") /\ UNCHANGED reply
    <3>1. pc'[c] = "name" /\ c \in published'
      BY <1>1, <2>3 DEF Goto, TypeOK
    <3>2. Whole(c)' /\ Answered(c)' /\ ~Gave(c) /\ ~Gave(c)'
      BY <1>2, <1>7, <2>1, <2>3 DEF Progress, Gave
    <3>3. Progress(c)'
      BY <3>1, <3>2 DEF Progress
    <3> QED
      BY <1>4, <1>10, <1>17, <2>1, <2>3, <3>1, <3>3 DEF StepOf, PC
  <2> QED
    BY <1>17, <2>2, <2>3 DEF Publish
<1>18. ASSUME NEW c \in Command, NameSource(c) PROVE StoreInv' /\ ProgressInv'
  <2>1. /\ UNCHANGED <<form, stored, meta, result, wrote, published>> /\ pc[c] = "name"
        /\ Succeed(c) /\ c \in published
    BY <1>7, <1>18 DEF NameSource, Progress
  <2>2. \A k \in Key : result[k] # None => (Whole(result[k]) /\ form[result[k]].key = k)'
    BY <1>0, <2>1
  <2>3. StoreInv'
    BY <1>18, <2>1, <2>2 DEF NameSource, IInv, StoreInv
  <2> QED
    BY <1>16, <1>18, <2>1, <2>3 DEF StepOf
<1>19. ASSUME NEW c \in Command, Crash(c) PROVE StoreInv' /\ ProgressInv'
  BY <1>4, <1>9, <1>19 DEF Crash, StepOf
<1>20. CASE Close
  BY <1>4, <1>6, <1>20 DEF Close
<1>21. ASSUME NEW k \in Key, LockExpires(k) PROVE StoreInv' /\ ProgressInv'
  BY <1>4, <1>6, <1>21 DEF LockExpires
<1>22. CASE UNCHANGED vars
  BY <1>4, <1>6, <1>22 DEF vars
<1> QED
  BY <1>8, <1>11, <1>12, <1>13, <1>14, <1>15, <1>17, <1>18, <1>19, <1>20, <1>21, <1>22 DEF Next

LEMMA IInvAlways == Spec => []IInv
BY IInvInit, IInvNext, PTL DEF Spec

\* Whoever is told of a change is told of one all whose writes took effect
\* (create_citizen_update.py:92-127, patch_rescue_request.py:55-80).
THEOREM AnswersAreWritten == Spec => []AnsweredIsWritten
<1>1. ASSUME IInv PROVE AnsweredIsWritten
  <2> SUFFICES ASSUME NEW c \in Command, reply[c].kind \in {"changed", "replayed"}
               PROVE  LET d == reply[c].command IN
                      /\ d \in wrote
                      /\ form[d].kind = "update" => d \in stored
                      /\ \A f \in form[d].fields : meta[f] \in wrote
    BY DEF AnsweredIsWritten
  <2>1. PICK d \in Command : d = reply[c].command /\ Whole(d)
    BY <1>1 DEF IInv, ProgressInv, Told
  <2>2. form[d].fields \subseteq Field
    BY <1>1, KeyFacts DEF IInv, KInv, Form
  <2>3. \A f \in form[d].fields : meta[f] \in wrote
    BY <1>1, <2>1, <2>2 DEF IInv, StoreInv, Whole
  <2> QED
    BY <2>1, <2>3 DEF Whole
<1> QED
  BY <1>1, IInvAlways, PTL

\* A key changes the request once, except for an invocation that failed or died
\* after its write (create_citizen_update.py:92-105).
THEOREM RewritesFollowFailures == Spec => []RewrittenOnlyAfterFailure
<1>1. ASSUME IInv PROVE RewrittenOnlyAfterFailure
  <2> SUFFICES ASSUME NEW c \in Command, NEW d \in Command, c # d, SameKey(c, d),
                      {c, d} \subseteq stored \cup wrote, ~Gave(c), ~Gave(d)
               PROVE  FALSE
    BY DEF RewrittenOnlyAfterFailure, Gave
  <2>1. Keyed(c) /\ Keyed(d) /\ form[c].key = form[d].key
    BY DEF SameKey, Keyed
  <2>2. /\ pc[c] \in Working \/ result[form[c].key] = c
        /\ pc[d] \in Working \/ result[form[c].key] = d
    BY <1>1, <2>1 DEF IInv, ProgressInv, Progress, Answered
  <2>3. form[c].key \in Key
    BY <1>1, <2>1, KeyFacts DEF IInv, KInv
  <2> QED
    BY <1>1, <2>1, <2>2, <2>3, ConstantsAssumption DEF IInv, KInv, HolderInv
<1> QED
  BY <1>1, IInvAlways, PTL

\* A key publishes one event, also when its invocations die or fail
\* (create_citizen_update.py:120-150, patch_rescue_request.py:73-98).
THEOREM EventsAreSingle == Spec => []OneEventPerKey
<1>1. ASSUME IInv PROVE OneEventPerKey
  BY <1>1 DEF OneEventPerKey, SameKey, Keyed, IInv, ProgressInv, Progress, Answered
<1> QED
  BY <1>1, IInvAlways, PTL

\* The event a result must answer tells of a change that is written and, under
\* a key, can only be replayed from then on.
THEOREM SourcesAreFinal == Spec => []SourceIsFinal
<1>1. ASSUME IInv PROVE SourceIsFinal
  <2> SUFFICES ASSUME source # None
               PROVE  /\ source \in published \cap wrote
                      /\ Keyed(source) => result[form[source].key] = source
    BY DEF SourceIsFinal
  <2>1. source \in Command /\ source \in published
    BY <1>1 DEF IInv, KInv, StoreInv, TypeOK
  <2> QED
    BY <1>1, <2>1 DEF IInv, ProgressInv, Progress, Whole, Answered
<1> QED
  BY <1>1, IInvAlways, PTL

-----------------------------------------------------------------------------
(* A closed request.                                                       *)

\* Who came late has written nothing and does not get past the checks.
LateInv ==
  \A c \in late :
    /\ closed
    /\ pc[c] \in {"check", "done"}
    /\ c \notin stored \cup wrote \cup published

LEMMA LateNext ==
  ASSUME ~StaleReads
  PROVE  IInv /\ LateInv /\ [Next]_vars => LateInv'
<1> SUFFICES ASSUME IInv, LateInv, [Next]_vars PROVE LateInv'
  OBVIOUS
<1>1. TypeOK
  BY DEF IInv, KInv
\* The others stay as they are, and this one is not late or does not move on.
<1>2. ASSUME NEW c \in Command, StepOf(c), closed' = closed, late' = late,
             c \in late => pc'[c] = "done" /\ UNCHANGED <<stored, wrote, published>>
      PROVE  LateInv'
  <2> SUFFICES ASSUME NEW d \in late
               PROVE  /\ closed /\ pc'[d] \in {"check", "done"}
                      /\ d \notin stored' \cup wrote' \cup published'
    BY <1>2 DEF LateInv
  <2>1. d \in Command
    BY <1>1 DEF TypeOK
  <2>2. CASE d = c
    BY <1>2, <2>2 DEF LateInv
  <2>3. CASE d # c
    BY <1>1, <1>2, <2>1, <2>3, OthersIdle DEF LateInv
  <2> QED
    BY <2>2, <2>3
<1>3. ASSUME NEW c \in Command, Arrive(c) PROVE LateInv'
  <2>1. /\ UNCHANGED <<closed, stored, wrote, published>>
        /\ pc[c] = "idle" /\ late' = IF closed THEN late \cup {c} ELSE late
    BY <1>3 DEF Arrive
  <2>2. pc'[c] \in {"check", "done"} /\ \A d \in Command : d # c => pc'[d] = pc[d]
    BY <1>1, <1>3 DEF Arrive, Refuse, Finish, Goto, TypeOK
  <2>3. c \notin stored \cup wrote \cup published
    BY <2>1 DEF IInv, ProgressInv, Progress
  <2> QED
    BY <1>1, <2>1, <2>2, <2>3 DEF LateInv, TypeOK
<1>4. ASSUME NEW c \in Command, Check(c) PROVE LateInv'
  <2>1. c \in late => Refuse(c)
    BY <1>4 DEF LateInv, Check, Admitted
  <2>2. Refuse(c) => pc'[c] = "done"
    BY <1>1 DEF Refuse, Finish, Goto, TypeOK
  <2>3. UNCHANGED <<closed, late, stored, wrote, published>>
    BY <1>4 DEF Check
  <2> QED
    BY <1>2, <1>4, <2>1, <2>2, <2>3 DEF StepOf
<1>5. ASSUME NEW c \in Command,
             \/ PutUpdate(c) \/ WriteMeta(c) \/ Fail(c) \/ Commit(c) \/ Publish(c)
             \/ NameSource(c)
      PROVE  LateInv'
  <2>1. c \notin late
    BY <1>5 DEF LateInv, PutUpdate, WriteMeta, Fail, Commit, Publish, NameSource
  <2>2. UNCHANGED <<closed, late>>
    BY <1>5 DEF PutUpdate, WriteMeta, Fail, Commit, Publish, NameSource
  <2> QED
    BY <1>2, <1>5, <2>1, <2>2 DEF StepOf
<1>6. ASSUME NEW c \in Command, Crash(c) PROVE LateInv'
  <2>1. pc'[c] = "done" /\ UNCHANGED <<closed, late, stored, wrote, published>>
    BY <1>1, <1>6 DEF Crash, Finish, Goto, TypeOK
  <2> QED
    BY <1>2, <1>6, <2>1 DEF StepOf
<1>7. CASE Close
  BY <1>7 DEF Close, LateInv
<1>8. ASSUME NEW k \in Key, LockExpires(k) PROVE LateInv'
  BY <1>8 DEF LockExpires, LateInv
<1>9. CASE UNCHANGED vars
  BY <1>9 DEF vars, LateInv
<1> QED
  BY <1>3, <1>4, <1>5, <1>6, <1>7, <1>8, <1>9 DEF Next

\* A change asked for after the request was closed leaves no trace, if the read
\* of the request is not stale (create_citizen_update.py:72-73,
\* patch_rescue_request.py:52-53).
THEOREM ClosedStays ==
  ASSUME ~StaleReads
  PROVE  Spec => []ClosedIsLeftAlone
<1>1. Init => LateInv
  BY DEF Init, LateInv
<1>2. IInv /\ LateInv /\ [Next]_vars => LateInv'
  BY LateNext
<1>3. IInv /\ LateInv => ClosedIsLeftAlone
  BY ConstantsAssumption DEF IInv, KInv, TypeOK, StoreInv, LateInv, ClosedIsLeftAlone
<1> QED
  BY <1>1, <1>2, <1>3, IInvAlways, PTL DEF Spec
=============================================================================
