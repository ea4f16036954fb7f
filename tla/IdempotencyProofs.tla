------------------------- MODULE IdempotencyProofs -------------------------
(***************************************************************************)
(* Proofs about Idempotency, for any number of invocations, bodies and     *)
(* retries and any times.  What depends on the times is stated under       *)
(* RunTime < LockTime (an invocation dies before its lock can be           *)
(* reclaimed) and LockTime <= TTL (a lock is not swept while it holds).    *)
(***************************************************************************)
EXTENDS IdempotencyRefinement, TLAPS

-----------------------------------------------------------------------------
(* Type correctness.                                                       *)

\* The item and the tokens stay well-typed through every conditional write.
LEMMA TokenType ==
  ASSUME TypeOK, NEW a \in Attempt
  PROVE  Token(a) \in Owner
BY DEF TypeOK, Token, Owner

\* What a reservation writes is an item.
LEMMA LockedType ==
  ASSUME TypeOK, NEW a \in Attempt
  PROVE  Locked(a) \in Record
<1>1. Token(a) \in Owner
  BY TokenType
<1>2. /\ rec \in Record
      /\ payload[a] \in Payload \cup {None}
      /\ claim[a].now \in Nat
  BY DEF TypeOK, Claim
<1>3. claim[a].now + LockTime \in Nat /\ claim[a].now + TTL \in Nat
  BY <1>2, ConstantsAssumption
<1> QED
  BY <1>1, <1>2, <1>3 DEF Locked, Record, Status

\* An answer recorded by any branch is a reply.
LEMMA FinishType ==
  ASSUME TypeOK, NEW a \in Attempt, NEW k \in ReplyKind, NEW b \in Attempt \cup {None},
         Finish(a, Answer(k, b))
  PROVE  pc' \in [Attempt -> PC] /\ reply' \in [Attempt -> Reply]
BY DEF TypeOK, Finish, Answer, Reply, PC

\* Giving up or starting over keeps the retry counter within its bound.
LEMMA RetryType ==
  ASSUME TypeOK, NEW a \in Attempt, RetryReservation(a)
  PROVE  /\ pc' \in [Attempt -> PC]
         /\ reply' \in [Attempt -> Reply]
         /\ tries' \in [Attempt -> 0 .. MaxRetries]
<1>1. CASE tries[a] < MaxRetries /\ tries' = [tries EXCEPT ![a] = @ + 1]
           /\ pc' = [pc EXCEPT ![a] = "look"] /\ UNCHANGED reply
  <2>1. tries[a] + 1 \in 0 .. MaxRetries
    BY <1>1, ConstantsAssumption DEF TypeOK
  <2> QED
    BY <1>1, <2>1 DEF TypeOK, PC
<1>2. CASE Finish(a, Answer("refused", None)) /\ UNCHANGED tries
  BY <1>2, FinishType DEF TypeOK, ReplyKind
<1> QED
  BY <1>1, <1>2 DEF RetryReservation

LEMMA TypeOKInit == Init => TypeOK
BY ConstantsAssumption
   DEF Init, TypeOK, NoRecord, Record, Status, Owner, PC, Claim, NoClaim, Reply, ReplyKind, Answer

\* Every step keeps the type invariant.
LEMMA TypeOKStep == TypeOK /\ [Next]_vars => TypeOK'
<1> SUFFICES ASSUME TypeOK, [Next]_vars PROVE TypeOK'
  OBVIOUS
<1>1. ASSUME NEW a \in Attempt, NEW p \in Payload, Arrive(a, p) PROVE TypeOK'
  <2>1. clock + RunTime \in Nat
    BY ConstantsAssumption DEF TypeOK
  <2> QED
    BY <1>1, <2>1 DEF Arrive, TypeOK, PC
<1>2. ASSUME NEW a \in Attempt, Look(a) PROVE TypeOK'
  <2> PICK r \in {rec, stale} :
        \/ /\ Claimable(r, payload[a], clock)
           /\ pc' = [pc EXCEPT ![a] = "write"]
           /\ claim' = [claim EXCEPT ![a] =
                [found |-> r.status, expiry |-> r.lockExpiresAt, now |-> clock]]
           /\ UNCHANGED reply
        \/ /\ Finish(a, Answer("replayed", r.body))
           /\ UNCHANGED claim
        \/ /\ Finish(a, Answer("refused", None))
           /\ UNCHANGED claim
    BY <1>2 DEF Look
  <2>1. r \in Record
    BY DEF TypeOK
  <2>2. UNCHANGED <<clock, rec, stale, payload, deadline, tries, applied>>
    BY <1>2 DEF Look
  <2>3. CASE /\ pc' = [pc EXCEPT ![a] = "write"]
             /\ claim' = [claim EXCEPT ![a] =
                  [found |-> r.status, expiry |-> r.lockExpiresAt, now |-> clock]]
             /\ UNCHANGED reply
    <3>1. [found |-> r.status, expiry |-> r.lockExpiresAt, now |-> clock] \in Claim
      BY <2>1 DEF TypeOK, Claim, Record
    <3> QED
      BY <2>2, <2>3, <3>1 DEF TypeOK, PC
  <2>4. CASE Finish(a, Answer("replayed", r.body)) /\ UNCHANGED claim
    <3>1. r.body \in Attempt \cup {None} /\ "replayed" \in ReplyKind
      BY <2>1 DEF Record, ReplyKind
    <3> QED
      BY <2>2, <2>4, <3>1, FinishType DEF TypeOK
  <2>5. CASE Finish(a, Answer("refused", None)) /\ UNCHANGED claim
    BY <2>2, <2>5, FinishType DEF TypeOK, ReplyKind
  <2> QED
    BY <2>3, <2>4, <2>5
<1>3. ASSUME NEW a \in Attempt, Write(a) PROVE TypeOK'
  <2>1. UNCHANGED <<clock, payload, deadline, applied>>
    BY <1>3 DEF Write
  <2>2. claim' \in [Attempt -> Claim]
    BY <1>3 DEF Write, TypeOK, NoClaim, Claim, Status
  <2>3. rec' \in Record /\ stale' \in Record
    BY <1>3, LockedType DEF Write, Put, TypeOK
  <2>4. /\ pc' \in [Attempt -> PC]
        /\ reply' \in [Attempt -> Reply]
        /\ tries' \in [Attempt -> 0 .. MaxRetries]
    <3>1. CASE pc' = [pc EXCEPT ![a] = "run"] /\ UNCHANGED <<tries, reply>>
      BY <3>1 DEF TypeOK, PC
    <3>2. CASE RetryReservation(a)
      BY <3>2, RetryType
    <3> QED
      BY <1>3, <3>1, <3>2 DEF Write
  <2> QED
    BY <2>1, <2>2, <2>3, <2>4 DEF TypeOK
<1>4. ASSUME NEW a \in Attempt, Work(a) PROVE TypeOK'
  <2>1. UNCHANGED <<clock, rec, stale, payload, deadline, tries, claim>>
    BY <1>4 DEF Work
  <2>2. applied' \in SUBSET Attempt
    BY <1>4 DEF Work, TypeOK
  <2>3. pc' \in [Attempt -> PC] /\ reply' \in [Attempt -> Reply]
    <3>1. CASE pc' \in {[pc EXCEPT ![a] = "commit"], [pc EXCEPT ![a] = "abort"]}
               /\ UNCHANGED reply
      BY <3>1 DEF TypeOK, PC
    <3>2. CASE Finish(a, Answer("error", None))
      BY <3>2, FinishType DEF ReplyKind
    <3> QED
      BY <1>4, <3>1, <3>2 DEF Work
  <2> QED
    BY <2>1, <2>2, <2>3 DEF TypeOK
<1>5. ASSUME NEW a \in Attempt, Commit(a) PROVE TypeOK'
  <2>1. UNCHANGED <<clock, payload, deadline, tries, claim, applied>>
    BY <1>5 DEF Commit
  <2>2. rec' \in Record /\ stale' \in Record
    BY <1>5 DEF Commit, Put, TypeOK, Record, Status
  <2>3. CASE pc' \in {[pc EXCEPT ![a] = "answer"], [pc EXCEPT ![a] = "abort"]} /\ UNCHANGED reply
    BY <2>1, <2>2, <2>3 DEF TypeOK, PC
  <2>4. CASE Finish(a, Answer("error", None))
    BY <2>1, <2>2, <2>4, FinishType DEF TypeOK, ReplyKind
  <2> QED
    BY <1>5, <2>3, <2>4 DEF Commit
<1>11. ASSUME NEW a \in Attempt, Respond(a) PROVE TypeOK'
  <2>1. UNCHANGED <<clock, rec, stale, payload, deadline, tries, claim, applied>>
    BY <1>11 DEF Respond
  <2>2. pc' \in [Attempt -> PC] /\ reply' \in [Attempt -> Reply]
    BY <1>11, FinishType DEF Respond, ReplyKind
  <2> QED
    BY <2>1, <2>2 DEF TypeOK
<1>6. ASSUME NEW a \in Attempt, Abort(a) PROVE TypeOK'
  <2>1. UNCHANGED <<clock, payload, deadline, tries, claim, applied>>
    BY <1>6 DEF Abort
  <2>2. rec' \in Record /\ stale' \in Record
    BY <1>6 DEF Abort, Put, TypeOK, Record, Status
  <2>3. pc' \in [Attempt -> PC] /\ reply' \in [Attempt -> Reply]
    BY <1>6, FinishType DEF Abort, ReplyKind
  <2> QED
    BY <2>1, <2>2, <2>3 DEF TypeOK
<1>7. ASSUME NEW a \in Attempt, Crash(a) PROVE TypeOK'
  BY <1>7 DEF Crash, TypeOK, PC, NoClaim, Claim, Status
<1>8. CASE Tick
  BY <1>8 DEF Tick, TypeOK
<1>9. CASE Sweep
  BY <1>9, ConstantsAssumption DEF Sweep, Put, TypeOK, NoRecord, Record, Status, Owner
<1>10. CASE UNCHANGED vars
  BY <1>10 DEF vars, TypeOK
<1> QED
  BY <1>1, <1>2, <1>3, <1>4, <1>5, <1>6, <1>7, <1>8, <1>9, <1>10, <1>11 DEF Next, Step

\* Every variable keeps its type (idempotency_service.py, whole protocol).
THEOREM TypeCorrect == Spec => []TypeOK
BY TypeOKInit, TypeOKStep, PTL DEF Spec

-----------------------------------------------------------------------------
(* The inductive invariant behind OneHolder.                               *)

\* A running invocation has not reached its deadline, which is RunTime after a
\* moment that has passed.
WithinDeadline ==
  \A a \in Live : clock <= deadline[a] /\ deadline[a] <= clock + RunTime

\* Between its read and its write an invocation holds a past reading of the
\* clock, taken after it started.
ReadAfterStart ==
  \A a \in Attempt : pc[a] = "write" =>
    claim[a].now <= clock /\ deadline[a] <= claim[a].now + RunTime

\* Every invocation at work owns the lock, and the lock outlives it.
HolderOwns ==
  \A a \in Holder : Owns(a) /\ deadline[a] < rec.lockExpiresAt

\* A held item is not swept before its lock expires.
LockBeforeTTL == rec.status = "IN_PROGRESS" => rec.lockExpiresAt <= rec.expiresAt

\* A completed item names the invocation that answered.
CompletedHasBody == rec.status = "COMPLETED" => rec.body \in Attempt

IInv ==
  /\ WithinDeadline
  /\ ReadAfterStart
  /\ HolderOwns
  /\ LockBeforeTTL
  /\ CompletedHasBody

\* The lock time exceeds the run time and the record outlives the lock.
Timing == RunTime < LockTime /\ LockTime <= TTL

LEMMA IInvInit == Init => IInv
BY DEF Init, IInv, WithinDeadline, ReadAfterStart, HolderOwns, LockBeforeTTL,
       CompletedHasBody, Live, Holder, NoRecord

\* An item has one owner, so one invocation is at work.
LEMMA OneOwner ==
  ASSUME HolderOwns, NEW a \in Holder
  PROVE  Holder = {a}
BY DEF HolderOwns, Owns, Token, Holder

\* A reservation that is about to succeed finds nobody at work: an item it may
\* take over has an expired lock, and no invocation outlives its lock.
LEMMA ClaimFindsNobody ==
  ASSUME TypeOK, IInv, NEW a \in Attempt, pc[a] = "write", ClaimHolds(a)
  PROVE  Holder = {}
<1> SUFFICES ASSUME NEW b \in Holder PROVE FALSE
  OBVIOUS
<1>1. rec.status = "IN_PROGRESS" /\ deadline[b] < rec.lockExpiresAt
  BY DEF IInv, HolderOwns, Owns
<1>2. clock <= deadline[b]
  BY DEF IInv, WithinDeadline, Live, Holder
<1>3. rec.lockExpiresAt <= claim[a].now /\ claim[a].now <= clock
  BY <1>1 DEF ClaimHolds, ReserveHolds, RetryFailedHolds, ReclaimHolds, LockExpired,
              IInv, ReadAfterStart
<1>4. /\ clock \in Nat /\ deadline[b] \in Nat
      /\ rec.lockExpiresAt \in Nat /\ claim[a].now \in Nat
  BY DEF TypeOK, Record, Claim, Holder
<1> QED
  BY <1>1, <1>2, <1>3, <1>4

\* An invocation at work finds its lock in force, so it is not swept.
LEMMA HeldIsNotSwept ==
  ASSUME TypeOK, IInv, Sweep
  PROVE  Holder = {}
<1> SUFFICES ASSUME NEW b \in Holder PROVE FALSE
  OBVIOUS
<1>1. rec.status = "IN_PROGRESS" /\ deadline[b] < rec.lockExpiresAt
  BY DEF IInv, HolderOwns, Owns
<1>2. clock <= deadline[b]
  BY DEF IInv, WithinDeadline, Live, Holder
<1>3. rec.lockExpiresAt <= rec.expiresAt /\ rec.expiresAt <= clock
  BY <1>1 DEF IInv, LockBeforeTTL, Sweep
<1>4. /\ clock \in Nat /\ deadline[b] \in Nat
      /\ rec.lockExpiresAt \in Nat /\ rec.expiresAt \in Nat
  BY DEF TypeOK, Record, Holder
<1> QED
  BY <1>1, <1>2, <1>3, <1>4

\* A step that leaves the item, the clock and the deadlines alone, starts no
\* work and reads nothing keeps the invariant.
LEMMA QuietStep ==
  ASSUME IInv, Live' \subseteq Live, Holder' \subseteq Holder,
         \A a \in Attempt : pc'[a] = "write" => pc[a] = "write" /\ claim'[a] = claim[a],
         \A a \in Holder' : tries'[a] = tries[a],
         UNCHANGED <<clock, rec, deadline>>
  PROVE  IInv'
BY DEF IInv, WithinDeadline, ReadAfterStart, HolderOwns, LockBeforeTTL,
       CompletedHasBody, Owns, Token, Holder, Live

\* Every step keeps the inductive invariant.
LEMMA IInvStep ==
  ASSUME Timing
  PROVE  TypeOK /\ IInv /\ [Next]_vars => IInv'
<1> SUFFICES ASSUME TypeOK, IInv, [Next]_vars PROVE IInv'
  OBVIOUS
<1>1. ASSUME NEW a \in Attempt, NEW p \in Payload, Arrive(a, p) PROVE IInv'
  <2>1. /\ pc' = [pc EXCEPT ![a] = "look"] /\ pc[a] = "idle"
        /\ deadline' = [deadline EXCEPT ![a] = clock + RunTime]
        /\ UNCHANGED <<clock, rec, tries, claim>>
    BY <1>1 DEF Arrive
  <2>2. Holder' = Holder /\ Live' = Live \cup {a}
    BY <2>1 DEF Holder, Live, TypeOK
  <2>3. WithinDeadline'
    <3>1. clock <= clock + RunTime /\ clock + RunTime <= clock + RunTime
      BY ConstantsAssumption DEF TypeOK
    <3>2. deadline'[a] = clock + RunTime
      BY <2>1 DEF TypeOK
    <3>3. \A b \in Live : deadline'[b] = deadline[b]
      BY <2>1 DEF TypeOK, Live
    <3> QED
      BY <2>1, <2>2, <3>1, <3>2, <3>3 DEF IInv, WithinDeadline
  <2>4. ReadAfterStart'
    BY <2>1 DEF IInv, ReadAfterStart, TypeOK
  <2>5. HolderOwns'
    BY <2>1, <2>2 DEF IInv, HolderOwns, Owns, Token, Holder, TypeOK
  <2> QED
    BY <2>1, <2>3, <2>4, <2>5 DEF IInv, LockBeforeTTL, CompletedHasBody
<1>2. ASSUME NEW a \in Attempt, Look(a) PROVE IInv'
  <2>1. /\ pc[a] = "look"
        /\ UNCHANGED <<clock, rec, deadline, tries>>
    BY <1>2 DEF Look
  <2>2. CASE /\ pc' = [pc EXCEPT ![a] = "write"]
             /\ \E r \in {rec, stale} :
                  claim' = [claim EXCEPT ![a] =
                    [found |-> r.status, expiry |-> r.lockExpiresAt, now |-> clock]]
    <3>1. Holder' = Holder /\ Live' = Live
      BY <2>1, <2>2 DEF Holder, Live, TypeOK
    <3>2. ReadAfterStart'
      <4>1. claim'[a].now = clock
        BY <2>2 DEF TypeOK
      <4>2. deadline[a] <= clock + RunTime
        BY <2>1 DEF IInv, WithinDeadline, Live
      <4>3. \A b \in Attempt \ {a} : pc'[b] = pc[b] /\ claim'[b] = claim[b]
        BY <2>2 DEF TypeOK
      <4>4. clock \in Nat
        BY DEF TypeOK
      <4> QED
        BY <2>1, <4>1, <4>2, <4>3, <4>4 DEF IInv, ReadAfterStart
    <3> QED
      BY <2>1, <3>1, <3>2 DEF IInv, WithinDeadline, HolderOwns, Owns, Token, LockBeforeTTL,
                              CompletedHasBody
  <2>3. CASE pc' = [pc EXCEPT ![a] = "done"] /\ UNCHANGED claim
    <3>1. Live' \subseteq Live /\ Holder' \subseteq Holder
      BY <2>1, <2>3 DEF Holder, Live, TypeOK
    <3>2. \A b \in Attempt : pc'[b] = "write" => pc[b] = "write" /\ claim'[b] = claim[b]
      BY <2>3 DEF TypeOK
    <3> QED
      BY <2>1, <3>1, <3>2, QuietStep
  <2> QED
    BY <1>2, <2>2, <2>3 DEF Look, Finish
<1>3. ASSUME NEW a \in Attempt, Write(a) PROVE IInv'
  <2>1. /\ pc[a] = "write"
        /\ claim' = [claim EXCEPT ![a] = NoClaim]
        /\ UNCHANGED <<clock, deadline>>
    BY <1>3 DEF Write
  <2>2. ASSUME RetryReservation(a)
        PROVE  /\ pc'[a] \in {"look", "done"}
               /\ \A b \in Attempt \ {a} : pc'[b] = pc[b] /\ tries'[b] = tries[b]
    BY <2>2 DEF RetryReservation, Finish, TypeOK
  <2>3. \A b \in Attempt \ {a} : pc'[b] = pc[b] /\ tries'[b] = tries[b]
    BY <1>3, <2>2 DEF Write, TypeOK
  <2>4. pc'[a] \in {"look", "done", "run"}
    BY <1>3, <2>2 DEF Write, TypeOK
  <2>5. Live' \subseteq Live
    BY <2>1, <2>3 DEF Live
  <2>6. \A b \in Attempt : pc'[b] = "write" => pc[b] = "write" /\ claim'[b] = claim[b]
    BY <2>1, <2>3, <2>4 DEF TypeOK
  <2>7. CASE ~ClaimHolds(a) /\ RetryReservation(a) /\ UNCHANGED <<rec, stale>>
    <3>1. Holder' \subseteq Holder
      BY <2>2, <2>3, <2>7 DEF Holder
    <3>2. \A b \in Holder' : tries'[b] = tries[b]
      BY <2>2, <2>3, <2>7 DEF Holder
    <3> QED
      BY <2>1, <2>5, <2>6, <2>7, <3>1, <3>2, QuietStep
  <2>8. CASE /\ ClaimHolds(a)
             /\ Put(Locked(a))
             /\ \/ pc' = [pc EXCEPT ![a] = "run"] /\ UNCHANGED <<tries, reply>>
                \/ RetryReservation(a)
    <3>1. Holder = {}
      BY <2>1, <2>8, ClaimFindsNobody
    <3>2. \A b \in Holder' : b = a /\ tries' = tries
      BY <2>2, <2>3, <2>8, <3>1 DEF Holder
    <3>3. /\ rec'.status = "IN_PROGRESS"
          /\ rec'.owner = Token(a)
          /\ rec'.lockExpiresAt = claim[a].now + LockTime
          /\ rec'.expiresAt = claim[a].now + TTL
      BY <2>8 DEF Put, Locked, TypeOK, Record
    <3>4. claim[a].now \in Nat /\ deadline[a] \in Nat /\ clock \in Nat
      BY DEF TypeOK, Claim
    <3>5. deadline[a] < claim[a].now + LockTime
      BY <2>1, <3>4, ConstantsAssumption DEF IInv, ReadAfterStart, Timing
    <3>6. HolderOwns'
      BY <2>1, <3>2, <3>3, <3>5 DEF HolderOwns, Owns, Token
    <3>7. LockBeforeTTL'
      BY <3>3, <3>4, ConstantsAssumption DEF LockBeforeTTL, Timing
    <3>8. WithinDeadline'
      BY <2>1, <2>5 DEF IInv, WithinDeadline
    <3>9. ReadAfterStart'
      BY <2>1, <2>6 DEF IInv, ReadAfterStart
    <3> QED
      BY <3>3, <3>6, <3>7, <3>8, <3>9 DEF IInv, CompletedHasBody
  <2> QED
    BY <1>3, <2>7, <2>8 DEF Write
<1>4. ASSUME NEW a \in Attempt, Work(a) PROVE IInv'
  <2>1. pc[a] = "run" /\ UNCHANGED <<clock, rec, deadline, tries, claim>>
    BY <1>4 DEF Work
  <2>2. \E s \in {"commit", "abort", "done"} : pc' = [pc EXCEPT ![a] = s]
    BY <1>4 DEF Work, Finish
  <2>3. Live' \subseteq Live /\ Holder' \subseteq Holder
    BY <2>1, <2>2 DEF Live, Holder, TypeOK
  <2>4. \A b \in Attempt : pc'[b] = "write" => pc[b] = "write" /\ claim'[b] = claim[b]
    BY <2>1, <2>2 DEF TypeOK
  <2> QED
    BY <2>1, <2>3, <2>4, QuietStep
<1>10. ASSUME NEW a \in Attempt, Commit(a) \/ Respond(a), rec' = rec PROVE IInv'
  <2>1. /\ a \in Live
        /\ \E s \in {"answer", "done"} : pc' = [pc EXCEPT ![a] = s]
             \/ (a \in Holder /\ pc' = [pc EXCEPT ![a] = "abort"])
        /\ UNCHANGED <<clock, deadline, tries, claim>>
    BY <1>10 DEF Commit, Respond, Finish, Live, Holder
  <2>2. Live' \subseteq Live /\ Holder' \subseteq Holder
    BY <2>1 DEF Live, Holder, TypeOK
  <2>3. \A b \in Attempt : pc'[b] = "write" => pc[b] = "write" /\ claim'[b] = claim[b]
    BY <2>1 DEF TypeOK
  <2> QED
    BY <1>10, <2>1, <2>2, <2>3, QuietStep
<1>5. ASSUME NEW a \in Attempt, Commit(a) \/ Abort(a),
             pc' = [pc EXCEPT ![a] = "answer"] \/ pc' = [pc EXCEPT ![a] = "done"]
      PROVE  IInv'
  <2>1. /\ a \in Holder
        /\ UNCHANGED <<clock, deadline, tries, claim>>
    BY <1>5 DEF Commit, Abort, Finish, Holder
  <2>2. Holder' = {} /\ Live' \subseteq Live
    <3>1. Holder = {a}
      BY <2>1, OneOwner DEF IInv
    <3> QED
      BY <1>5, <2>1, <3>1 DEF Holder, Live, TypeOK
  <2>3. \/ rec' = rec
        \/ rec' = [rec EXCEPT !.status = "COMPLETED", !.body = a]
        \/ rec' = [rec EXCEPT !.status = "FAILED"]
    BY <1>5 DEF Commit, Abort, Put
  <2>4. WithinDeadline'
    BY <2>1, <2>2 DEF IInv, WithinDeadline
  <2>5. ReadAfterStart'
    BY <1>5, <2>1 DEF IInv, ReadAfterStart, TypeOK
  <2>6. HolderOwns'
    BY <2>2 DEF HolderOwns
  <2>7. LockBeforeTTL' /\ CompletedHasBody'
    BY <2>1, <2>3 DEF IInv, LockBeforeTTL, CompletedHasBody, TypeOK, Record, Holder
  <2> QED
    BY <2>4, <2>5, <2>6, <2>7 DEF IInv
<1>6. ASSUME NEW a \in Attempt, Crash(a) PROVE IInv'
  <2>1. /\ pc' = [pc EXCEPT ![a] = "dead"]
        /\ claim' = [claim EXCEPT ![a] = NoClaim]
        /\ UNCHANGED <<clock, rec, deadline, tries>>
    BY <1>6 DEF Crash
  <2>2. Live' \subseteq Live /\ Holder' \subseteq Holder
    BY <2>1 DEF Live, Holder, TypeOK
  <2>3. \A b \in Attempt : pc'[b] = "write" => pc[b] = "write" /\ claim'[b] = claim[b]
    BY <2>1 DEF TypeOK
  <2> QED
    BY <2>1, <2>2, <2>3, QuietStep
<1>7. CASE Tick
  <2>1. /\ clock' = clock + 1
        /\ \A a \in Live : clock < deadline[a]
        /\ UNCHANGED <<rec, pc, deadline, tries, claim>>
    BY <1>7 DEF Tick
  <2>2. clock \in Nat /\ deadline \in [Attempt -> Nat] /\ Live \subseteq Attempt
    BY DEF TypeOK, Live
  <2>3. WithinDeadline'
    BY <2>1, <2>2, ConstantsAssumption DEF IInv, WithinDeadline, Live
  <2>4. ReadAfterStart'
    <3>1. \A a \in Attempt : claim[a].now \in Nat
      BY DEF TypeOK, Claim
    <3> QED
      BY <2>1, <2>2, <3>1 DEF IInv, ReadAfterStart
  <2> QED
    BY <2>1, <2>3, <2>4 DEF IInv, HolderOwns, Holder, Owns, Token, LockBeforeTTL,
                            CompletedHasBody
<1>8. CASE Sweep
  <2>1. Holder = {}
    BY <1>8, HeldIsNotSwept
  <2>2. rec' = NoRecord /\ UNCHANGED <<clock, pc, deadline, claim>>
    BY <1>8 DEF Sweep, Put
  <2> QED
    BY <2>1, <2>2 DEF IInv, WithinDeadline, ReadAfterStart, HolderOwns, LockBeforeTTL,
                      CompletedHasBody, NoRecord, Live, Holder
<1>9. CASE UNCHANGED vars
  BY <1>9, QuietStep DEF vars, Live, Holder
<1>11. ASSUME NEW a \in Attempt, Commit(a) PROVE IInv'
  BY <1>5, <1>10, <1>11 DEF Commit, Finish
<1>12. ASSUME NEW a \in Attempt, Abort(a) PROVE IInv'
  BY <1>5, <1>12 DEF Abort, Finish
<1>13. ASSUME NEW a \in Attempt, Respond(a) PROVE IInv'
  BY <1>10, <1>13 DEF Respond
<1> QED
  BY <1>1, <1>2, <1>3, <1>4, <1>6, <1>7, <1>8, <1>9, <1>11, <1>12, <1>13 DEF Next, Step

\* The inductive invariant holds of every behaviour.
LEMMA InductiveInvariant ==
  ASSUME Timing
  PROVE  Spec => [](TypeOK /\ IInv)
<1>1. Init => TypeOK /\ IInv
  BY TypeOKInit, IInvInit
<1>2. (TypeOK /\ IInv) /\ [Next]_vars => (TypeOK /\ IInv)'
  BY TypeOKStep, IInvStep
<1> QED
  BY <1>1, <1>2, PTL DEF Spec

\* At most one invocation runs the protected work of a key
\* (idempotency_service.py:113-145), for any number of invocations and any
\* times with RunTime < LockTime <= TTL.
THEOREM MutualExclusion ==
  ASSUME Timing
  PROVE  Spec => []OneHolder
<1>1. IInv => OneHolder
  <2> SUFFICES ASSUME IInv, NEW a \in Holder, NEW b \in Holder PROVE a = b
    BY DEF OneHolder
  <2> QED
    BY OneOwner DEF IInv
<1> QED
  BY <1>1, InductiveInvariant, PTL

-----------------------------------------------------------------------------
(* Refinement of SingleFlight.                                             *)

LEMMA SingleFlightInit == Init => SF!Init
BY DEF Init, SF!Init, Holder, StoredResult, NoRecord

\* A step that leaves the item alone and ends at most the one invocation at
\* work drops it or stutters.
LEMMA DropOrStutter ==
  ASSUME HolderOwns, rec' = rec, Holder' \subseteq Holder
  PROVE  [SF!Next]_SF!vars
<1>1. CASE Holder' = Holder
  BY <1>1 DEF SF!vars, StoredResult
<1>2. CASE Holder' # Holder
  <2>1. PICK a \in Holder : a \notin Holder'
    BY <1>2
  <2>2. Holder = {a} /\ Holder' = {}
    BY <2>1, OneOwner
  <2>3. SF!Drop(a)
    BY <2>2 DEF SF!Drop, StoredResult
  <2> QED
    BY <2>3 DEF SF!Next, Holder
<1> QED
  BY <1>1, <1>2

\* Every step maps to a step of SingleFlight or to a stutter.
LEMMA SingleFlightStep == TypeOK /\ IInv /\ [Next]_vars => [SF!Next]_SF!vars
<1> SUFFICES ASSUME TypeOK, IInv, [Next]_vars PROVE [SF!Next]_SF!vars
  OBVIOUS
<1> HolderOwns
  BY DEF IInv
<1>1. ASSUME NEW a \in Attempt, NEW p \in Payload, Arrive(a, p) PROVE [SF!Next]_SF!vars
  BY <1>1, DropOrStutter DEF Arrive, Holder, TypeOK
<1>2. ASSUME NEW a \in Attempt, Look(a) PROVE [SF!Next]_SF!vars
  <2>1. \E s \in {"write", "done"} : pc' = [pc EXCEPT ![a] = s]
    BY <1>2 DEF Look, Finish
  <2> QED
    BY <1>2, <2>1, DropOrStutter DEF Look, Holder, TypeOK
<1>3. ASSUME NEW a \in Attempt, Write(a) PROVE [SF!Next]_SF!vars
  <2>1. ASSUME RetryReservation(a) PROVE Holder' = Holder \ {a}
    BY <2>1 DEF RetryReservation, Finish, Holder, TypeOK
  <2>2. CASE RetryReservation(a) /\ UNCHANGED <<rec, stale>>
    BY <2>1, <2>2, DropOrStutter
  <2>3. CASE ClaimHolds(a) /\ Put(Locked(a))
    <3>1. Holder = {} /\ rec.status # "COMPLETED"
      BY <1>3, <2>3, ClaimFindsNobody
         DEF Write, ClaimHolds, ReserveHolds, RetryFailedHolds, ReclaimHolds
    <3>2. StoredResult = None /\ StoredResult' = None
      BY <2>3, <3>1 DEF StoredResult, Put, Locked, TypeOK, Record
    <3>3. CASE pc' = [pc EXCEPT ![a] = "run"]
      <4>1. Holder' = {a}
        BY <3>1, <3>3 DEF Holder, TypeOK
      <4>2. SF!Start(a)
        BY <3>1, <3>2, <4>1 DEF SF!Start
      <4> QED
        BY <4>2 DEF SF!Next
    <3>4. CASE RetryReservation(a)
      BY <2>1, <3>1, <3>2, <3>4 DEF SF!vars
    <3> QED
      BY <1>3, <2>3, <3>3, <3>4 DEF Write
  <2> QED
    BY <1>3, <2>2, <2>3 DEF Write
<1>4. ASSUME NEW a \in Attempt, Work(a) PROVE [SF!Next]_SF!vars
  <2>1. \E s \in {"commit", "abort", "done"} : pc' = [pc EXCEPT ![a] = s]
    BY <1>4 DEF Work, Finish
  <2> QED
    BY <1>4, <2>1, DropOrStutter DEF Work, Holder, TypeOK
<1>5. ASSUME NEW a \in Attempt, Commit(a) PROVE [SF!Next]_SF!vars
  <2>1. a \in Holder
    BY <1>5 DEF Commit, Holder
  <2>2. Holder = {a} /\ Owns(a)
    BY <2>1, OneOwner DEF HolderOwns
  <2>3. CASE rec' = rec
    <3>1. \E s \in {"answer", "abort", "done"} : pc' = [pc EXCEPT ![a] = s]
      BY <1>5 DEF Commit, Finish
    <3>2. Holder' \subseteq Holder
      BY <2>1, <3>1 DEF Holder, TypeOK
    <3> QED
      BY <2>3, <3>2, DropOrStutter
  <2>4. CASE /\ Put([rec EXCEPT !.status = "COMPLETED", !.body = a])
             /\ pc' = [pc EXCEPT ![a] = "answer"]
    <3>1. Holder' = {}
      BY <2>2, <2>4 DEF Holder, TypeOK
    <3>2. StoredResult' = a
      BY <2>4 DEF Put, StoredResult, TypeOK, Record
    <3>3. SF!Finish(a)
      BY <2>2, <3>1, <3>2 DEF SF!Finish
    <3> QED
      BY <3>3 DEF SF!Next
  <2> QED
    BY <1>5, <2>3, <2>4 DEF Commit
<1>11. ASSUME NEW a \in Attempt, Respond(a) PROVE [SF!Next]_SF!vars
  <2>1. pc' = [pc EXCEPT ![a] = "done"] /\ rec' = rec
    BY <1>11 DEF Respond, Finish
  <2>2. Holder' = Holder
    BY <1>11, <2>1 DEF Respond, Holder, TypeOK
  <2> QED
    BY <2>1, <2>2, DropOrStutter
<1>6. ASSUME NEW a \in Attempt, Abort(a) PROVE [SF!Next]_SF!vars
  <2>1. a \in Holder
    BY <1>6 DEF Abort, Holder
  <2>2. Holder = {a} /\ Owns(a)
    BY <2>1, OneOwner DEF HolderOwns
  <2>3. Holder' = {}
    BY <1>6, <2>2 DEF Abort, Finish, Holder, TypeOK
  <2>4. StoredResult = None /\ StoredResult' = None
    BY <1>6, <2>2 DEF Abort, Put, Owns, StoredResult, TypeOK, Record
  <2>5. SF!Drop(a)
    BY <2>2, <2>3, <2>4 DEF SF!Drop
  <2> QED
    BY <2>5 DEF SF!Next
<1>7. ASSUME NEW a \in Attempt, Crash(a) PROVE [SF!Next]_SF!vars
  BY <1>7, DropOrStutter DEF Crash, Holder, TypeOK
<1>8. CASE Tick
  BY <1>8, DropOrStutter DEF Tick, Holder
<1>9. CASE Sweep
  <2>1. Holder = {} /\ Holder' = {}
    BY <1>9, HeldIsNotSwept DEF Sweep, Holder
  <2>2. StoredResult' = None
    BY <1>9 DEF Sweep, Put, NoRecord, StoredResult
  <2>3. CASE StoredResult = None
    BY <2>1, <2>2, <2>3 DEF SF!vars
  <2>4. CASE StoredResult # None
    <3>1. SF!Forget
      BY <2>1, <2>2, <2>4 DEF SF!Forget
    <3> QED
      BY <3>1 DEF SF!Next
  <2> QED
    BY <2>3, <2>4
<1>10. CASE UNCHANGED vars
  BY <1>10 DEF vars, SF!vars, Holder, StoredResult
<1> QED
  BY <1>1, <1>2, <1>3, <1>4, <1>5, <1>6, <1>7, <1>8, <1>9, <1>10, <1>11 DEF Next, Step

\* The protocol implements SingleFlight: one invocation at work at a time, none
\* once a result is stored (idempotency_service.py:79-255).
THEOREM Refinement ==
  ASSUME Timing
  PROVE  Spec => ImplementsSingleFlight
BY InductiveInvariant, SingleFlightInit, SingleFlightStep, PTL
   DEF Spec, ImplementsSingleFlight, SF!Spec

-----------------------------------------------------------------------------
(* What holds whatever the times are.                                      *)

\* Conditional writes never touch a completed item.
LEMMA CompletedStep ==
  ASSUME TypeOK, [Next]_vars, rec.status = "COMPLETED"
  PROVE  rec' = rec \/ Sweep
BY DEF Next, Step, vars, Arrive, Look, Write, Work, Commit, Respond, Abort, Crash, Tick,
       ClaimHolds, ReserveHolds, RetryFailedHolds, ReclaimHolds, Owns

\* A stored response never changes and is swept only after its expiresAt, even
\* where invocations outlive their locks (idempotency_repository.py:193-196).
THEOREM CompletedStays == Spec => CompletedIsFinal
<1>1. TypeOK /\ [Next]_vars =>
        [rec.status = "COMPLETED" =>
           \/ rec' = rec
           \/ rec' = NoRecord /\ rec.expiresAt <= clock]_vars
  BY CompletedStep DEF Sweep, Put
<1> QED
  BY <1>1, TypeCorrect, PTL DEF Spec, CompletedIsFinal

\* A lock is ended only by the invocation that took it, even where invocations
\* outlive their locks (idempotency_repository.py:193-196).
THEOREM OwnerFinalizes == Spec => OnlyOwnerFinalizes
<1>1. ASSUME TypeOK, [Next]_vars, rec.status = "IN_PROGRESS",
             rec'.status \in {"COMPLETED", "FAILED"}
      PROVE  LET a == rec.owner[1] IN
               /\ a \in Attempt
               /\ pc[a] \in {"commit", "abort"}
               /\ pc'[a] \in {"answer", "done"}
  <2>1. ASSUME NEW a \in Attempt, Write(a) PROVE FALSE
    <3>1. rec' = rec \/ rec' = Locked(a)
      BY <2>1 DEF Write, Put
    <3> QED
      BY <1>1, <3>1 DEF Locked, TypeOK, Record
  <2>2. ~Sweep
    BY <1>1 DEF Sweep, Put, NoRecord
  <2>3. \A a \in Attempt : (Commit(a) \/ Abort(a)) => Owns(a)
    BY <1>1 DEF Commit, Abort
  <2>4. \A a \in Attempt : ~(Look(a) \/ Work(a) \/ Respond(a) \/ Crash(a))
    BY <1>1 DEF Look, Work, Respond, Crash
  <2>5. \A a \in Attempt, p \in Payload : ~Arrive(a, p)
    BY <1>1 DEF Arrive
  <2>6. ~Tick /\ ~UNCHANGED vars
    BY <1>1 DEF Tick, vars
  <2>7. \E a \in Attempt : (Commit(a) \/ Abort(a)) /\ Owns(a)
    BY <1>1, <2>1, <2>2, <2>3, <2>4, <2>5, <2>6 DEF Next, Step
  <2> QED
    BY <1>1, <2>7 DEF Commit, Abort, Owns, Token, Finish, TypeOK
<1> QED
  BY <1>1, TypeCorrect, PTL DEF Spec, OnlyOwnerFinalizes

-----------------------------------------------------------------------------
(* Replayed answers.                                                       *)

\* b did the work for a body with fingerprint p and got past its finalization.
Executed(b, p) ==
  /\ b \in applied
  /\ payload[b] = p
  /\ pc[b] \in {"answer", "done", "dead"}
  /\ reply[b] \in {Answer("executed", b), Answer("error", None), Answer("none", None)}

\* A version of the item that is completed holds a result of its body.
Sound(r) == r.status = "COMPLETED" => Executed(r.body, r.fingerprint)

\* Both versions a reader may see are sound; the item carries the fingerprint
\* of its owner; a result is stored after the work; an answer is the last act.
AInv ==
  /\ Sound(rec) /\ Sound(stale)
  /\ \A a \in Attempt :
       rec.owner[1] = a => pc[a] # "idle" /\ rec.fingerprint = payload[a]
  /\ \A a \in Attempt : pc[a] = "commit" => a \in applied
  /\ \A a \in Attempt : pc[a] # "done" => reply[a] = Answer("none", None)
  /\ ReplayIsAuthentic

LEMMA AInvInit == Init => AInv
BY ConstantsAssumption
   DEF Init, AInv, Sound, NoRecord, ReplayIsAuthentic, Answer

\* What an invocation that has answered or died leaves behind never changes.
LEMMA AnswerIsLast ==
  ASSUME TypeOK, [Next]_vars, NEW b \in Attempt, pc[b] \in {"done", "dead"}
  PROVE  pc'[b] = pc[b] /\ reply'[b] = reply[b] /\ payload'[b] = payload[b]
<1>1. \A a \in Attempt, p \in Payload : Arrive(a, p) =>
        a # b /\ pc' = [pc EXCEPT ![a] = "look"] /\ reply' = reply
          /\ payload' = [payload EXCEPT ![a] = p]
  BY DEF Arrive
<1>2. \A a \in Attempt : Step(a) \/ Crash(a) =>
        /\ a # b /\ payload' = payload
        /\ \E s \in PC : pc' = [pc EXCEPT ![a] = s]
        /\ reply' = reply \/ \E x : reply' = [reply EXCEPT ![a] = x]
  BY DEF Step, Look, Write, Work, Commit, Respond, Abort, Crash, Finish, RetryReservation,
         Live, PC
<1>3. Tick \/ Sweep \/ UNCHANGED vars => UNCHANGED <<pc, reply, payload>>
  BY DEF Tick, Sweep, vars
<1> QED
  BY <1>1, <1>2, <1>3 DEF Next, Step, TypeOK

LEMMA AppliedGrows ==
  ASSUME [Next]_vars
  PROVE  applied \subseteq applied'
BY DEF Next, Step, vars, Arrive, Look, Write, Work, Commit, Respond, Abort, Crash, Tick, Sweep

\* Past its finalization an invocation only answers, with its result or an error,
\* or dies.
LEMMA AnswerStep ==
  ASSUME TypeOK, [Next]_vars, NEW b \in Attempt, pc[b] = "answer"
  PROVE  /\ payload'[b] = payload[b]
         /\ pc'[b] \in {"answer", "done", "dead"}
         /\ \/ reply'[b] = reply[b]
            \/ reply'[b] \in {Answer("executed", b), Answer("error", None)}
<1>1. \A a \in Attempt, p \in Payload : Arrive(a, p) =>
        a # b /\ pc' = [pc EXCEPT ![a] = "look"] /\ reply' = reply
          /\ payload' = [payload EXCEPT ![a] = p]
  BY DEF Arrive
<1>2. \A a \in Attempt : a # b /\ (Step(a) \/ Crash(a)) =>
        /\ payload' = payload
        /\ \E s \in PC : pc' = [pc EXCEPT ![a] = s]
        /\ reply' = reply \/ \E x : reply' = [reply EXCEPT ![a] = x]
  BY DEF Step, Look, Write, Work, Commit, Respond, Abort, Crash, Finish, RetryReservation,
         Live, PC
<1>3. Step(b) => Respond(b)
  BY DEF Step, Look, Write, Work, Commit, Abort
<1>4. Respond(b) \/ Crash(b) =>
        /\ payload' = payload
        /\ pc'[b] \in {"done", "dead"}
        /\ \/ reply'[b] = reply[b]
           \/ reply'[b] \in {Answer("executed", b), Answer("error", None)}
  BY DEF Respond, Crash, Finish, TypeOK
<1>5. Tick \/ Sweep \/ UNCHANGED vars => UNCHANGED <<pc, reply, payload>>
  BY DEF Tick, Sweep, vars
<1> QED
  BY <1>1, <1>2, <1>3, <1>4, <1>5 DEF Next, TypeOK

\* Hence what was executed stays so, and a sound version stays sound.
LEMMA ExecutedStays ==
  ASSUME TypeOK, AInv, [Next]_vars, NEW b, NEW p, Executed(b, p)
  PROVE  Executed(b, p)'
<1>1. b \in Attempt /\ b \in applied'
  BY AppliedGrows DEF Executed, TypeOK
<1>2. CASE pc[b] = "answer"
  BY <1>1, <1>2, AnswerStep DEF Executed
<1>3. CASE pc[b] \in {"done", "dead"}
  BY <1>1, <1>3, AnswerIsLast DEF Executed
<1> QED
  BY <1>2, <1>3 DEF Executed

LEMMA SoundStays ==
  ASSUME TypeOK, AInv, [Next]_vars, NEW r, Sound(r)
  PROVE  Sound(r)'
BY ExecutedStays DEF Sound

\* The item keeps its owner's fingerprint.
LEMMA OwnerStep ==
  ASSUME TypeOK, AInv, [Next]_vars, NEW a \in Attempt, rec'.owner[1] = a
  PROVE  pc'[a] # "idle" /\ rec'.fingerprint = payload'[a]
<1>1. CASE \E b \in Attempt : Write(b) /\ rec' = Locked(b)
  <2>1. PICK b \in Attempt : Write(b) /\ rec' = Locked(b)
    BY <1>1
  <2>2. b = a /\ rec'.fingerprint = payload[a]
    BY <2>1 DEF Locked, Token, TypeOK, Record
  <2> QED
    BY <2>1, <2>2 DEF Write, RetryReservation, Finish, TypeOK
<1>2. CASE rec' = NoRecord
  BY <1>2, ConstantsAssumption DEF NoRecord
<1>3. CASE rec'.owner = rec.owner /\ rec'.fingerprint = rec.fingerprint
  <2>1. pc[a] # "idle" /\ rec.fingerprint = payload[a]
    BY <1>3 DEF AInv
  <2>2. \A b \in Attempt, p \in Payload : Arrive(b, p) => pc'[a] # "idle" /\ payload'[a] = payload[a]
    BY <2>1 DEF Arrive, TypeOK
  <2>3. \A b \in Attempt : Step(b) \/ Crash(b) => pc'[a] # "idle" /\ payload' = payload
    BY <2>1 DEF Step, Look, Write, Work, Commit, Respond, Abort, Crash, Finish,
                RetryReservation, TypeOK
  <2>4. Tick \/ Sweep \/ UNCHANGED vars => UNCHANGED <<pc, payload>>
    BY DEF Tick, Sweep, vars
  <2> QED
    BY <1>3, <2>1, <2>2, <2>3, <2>4 DEF Next
<1>4. \A b \in Attempt : Write(b) => rec' = Locked(b) \/ rec' = rec
  BY DEF Write, Put
<1>5. \A b \in Attempt : Commit(b) \/ Abort(b) =>
        rec'.owner = rec.owner /\ rec'.fingerprint = rec.fingerprint
  BY DEF Commit, Abort, Put, TypeOK, Record
<1>6. \A b \in Attempt, p \in Payload : Arrive(b, p) => rec' = rec
  BY DEF Arrive
<1>7. \A b \in Attempt : Look(b) \/ Work(b) \/ Respond(b) \/ Crash(b) => rec' = rec
  BY DEF Look, Work, Respond, Crash
<1>8. (Sweep => rec' = NoRecord) /\ (Tick \/ UNCHANGED vars => rec' = rec)
  BY DEF Sweep, Put, Tick, vars
<1> QED
  BY <1>1, <1>2, <1>3, <1>4, <1>5, <1>6, <1>7, <1>8 DEF Next, Step

\* Only the read of check_and_reserve answers with a stored response.
LEMMA ReplayIsALook ==
  ASSUME TypeOK, [Next]_vars, NEW a \in Attempt,
         reply'[a] # reply[a], reply'[a].kind = "replayed"
  PROVE  Look(a)
<1>1. \A b \in Attempt : Look(b) => b = a
  BY DEF Look, Finish, TypeOK
<1>2. \A b \in Attempt : ~RetryReservation(b)
  BY DEF RetryReservation, Finish, Answer, TypeOK
<1>3. \A b \in Attempt : ~(Write(b) \/ Work(b) \/ Commit(b) \/ Respond(b) \/ Abort(b))
  BY <1>2 DEF Write, Work, Commit, Respond, Abort, Finish, Answer, TypeOK
<1>4. /\ \A b \in Attempt, p \in Payload : ~Arrive(b, p)
      /\ \A b \in Attempt : ~Crash(b)
      /\ ~Tick /\ ~Sweep /\ ~UNCHANGED vars
  BY DEF Arrive, Crash, Tick, Sweep, vars
<1> QED
  BY <1>1, <1>3, <1>4 DEF Next, Step

\* Every step keeps the invariant of replays.
LEMMA AInvStep == TypeOK /\ AInv /\ [Next]_vars => AInv'
<1> SUFFICES ASSUME TypeOK, AInv, [Next]_vars PROVE AInv'
  OBVIOUS
<1>1. Sound(rec)' /\ Sound(stale)'
  <2>1. ASSUME NEW r, Sound(r), rec' = r PROVE Sound(rec)'
    BY <2>1, SoundStays DEF Sound
  <2>2. ASSUME NEW r, Sound(r), stale' = r PROVE Sound(stale)'
    BY <2>2, SoundStays DEF Sound
  <2>3. CASE UNCHANGED <<rec, stale>>
    BY <2>1, <2>2, <2>3 DEF AInv
  <2>4. CASE stale' = rec /\ rec'.status # "COMPLETED"
    BY <2>2, <2>4 DEF AInv, Sound
  <2>5. ASSUME NEW a \in Attempt, Commit(a), Owns(a),
               Put([rec EXCEPT !.status = "COMPLETED", !.body = a]),
               pc' = [pc EXCEPT ![a] = "answer"], UNCHANGED reply
        PROVE  Sound(rec)' /\ Sound(stale)'
    <3>1. a \in applied /\ payload[a] = rec.fingerprint
      BY <2>5 DEF AInv, Commit, Owns, Token
    <3>2. /\ pc'[a] = "answer" /\ reply'[a] = Answer("none", None)
          /\ UNCHANGED <<payload, applied>>
      BY <2>5 DEF Commit, AInv, TypeOK
    <3>3. rec'.body = a /\ rec'.fingerprint = rec.fingerprint /\ stale' = rec
      BY <2>5 DEF Put, TypeOK, Record
    <3> QED
      BY <2>2, <3>1, <3>2, <3>3 DEF AInv, Sound, Executed
  <2>6. \A a \in Attempt : Write(a) =>
          UNCHANGED <<rec, stale>> \/ (stale' = rec /\ rec'.status # "COMPLETED")
    BY DEF Write, Put, Locked, TypeOK, Record
  <2>7. \A a \in Attempt : Commit(a) =>
          \/ UNCHANGED <<rec, stale>>
          \/ /\ Owns(a) /\ Put([rec EXCEPT !.status = "COMPLETED", !.body = a])
             /\ pc' = [pc EXCEPT ![a] = "answer"] /\ UNCHANGED reply
    BY DEF Commit
  <2>8. \A a \in Attempt : Abort(a) =>
          UNCHANGED <<rec, stale>> \/ (stale' = rec /\ rec'.status # "COMPLETED")
    BY DEF Abort, Put, TypeOK, Record
  <2>9. Sweep => stale' = rec /\ rec'.status # "COMPLETED"
    BY DEF Sweep, Put, NoRecord
  <2>10. /\ \A a \in Attempt, p \in Payload : Arrive(a, p) => UNCHANGED <<rec, stale>>
         /\ \A a \in Attempt : Look(a) \/ Work(a) \/ Respond(a) \/ Crash(a) =>
              UNCHANGED <<rec, stale>>
         /\ Tick \/ UNCHANGED vars => UNCHANGED <<rec, stale>>
    BY DEF Arrive, Look, Work, Respond, Crash, Tick, vars
  <2> QED
    BY <2>3, <2>4, <2>5, <2>6, <2>7, <2>8, <2>9, <2>10 DEF Next, Step
<1>2. (\A a \in Attempt :
         rec.owner[1] = a => pc[a] # "idle" /\ rec.fingerprint = payload[a])'
  BY OwnerStep
<1>3. (\A a \in Attempt : pc[a] = "commit" => a \in applied)'
  <2>1. ASSUME NEW a \in Attempt, pc'[a] = "commit", pc[a] # "commit" PROVE Work(a)
    BY <2>1 DEF Next, Step, vars, Arrive, Look, Write, Work, Commit, Respond, Abort, Crash,
                Tick, Sweep, Finish, RetryReservation, TypeOK
  <2> QED
    BY <2>1, AppliedGrows DEF AInv, Work, TypeOK, Finish
<1>4. (\A a \in Attempt : pc[a] # "done" => reply[a] = Answer("none", None))'
  <2>1. ASSUME NEW a \in Attempt, reply'[a] # reply[a] PROVE pc'[a] = "done"
    BY <2>1 DEF Next, Step, vars, Arrive, Look, Write, Work, Commit, Respond, Abort, Crash,
                Tick, Sweep, Finish, RetryReservation, TypeOK
  <2> QED
    BY <2>1, AnswerIsLast DEF AInv
<1>5. ReplayIsAuthentic'
  <2>1. ASSUME NEW a \in Attempt, reply'[a].kind = "replayed",
               NEW b, b = reply'[a].body, NEW p, p = payload'[a]
        PROVE  Executed(b, p)'
    <3>1. CASE reply'[a] = reply[a]
      <4>1. pc[a] = "done" /\ Executed(b, payload[a])
        BY <2>1, <3>1 DEF AInv, ReplayIsAuthentic, Executed, Answer
      <4>2. payload'[a] = payload[a]
        BY <4>1, AnswerIsLast
      <4> QED
        BY <2>1, <4>1, <4>2, ExecutedStays
    <3>2. CASE reply'[a] # reply[a]
      <4>1. Look(a)
        BY <2>1, <3>2, ReplayIsALook
      <4>2. PICK r \in {rec, stale} : Replayable(r, payload[a]) /\ reply'[a].body = r.body
        BY <2>1, <4>1, <3>2 DEF Look, Finish, Answer, TypeOK
      <4>3. payload' = payload
        BY <4>1 DEF Look
      <4>4. Sound(r)
        BY DEF AInv
      <4>5. Executed(b, p)
        BY <2>1, <4>2, <4>3, <4>4 DEF Sound, Replayable
      <4> QED
        BY <4>5, ExecutedStays
    <3> QED
      BY <3>1, <3>2
  <2> QED
    BY <2>1 DEF ReplayIsAuthentic, Executed
<1> QED
  BY <1>1, <1>2, <1>3, <1>4, <1>5 DEF AInv

LEMMA AnswersInvariant == Spec => [](TypeOK /\ AInv)
<1>1. Init => TypeOK /\ AInv
  BY TypeOKInit, AInvInit
<1>2. (TypeOK /\ AInv) /\ [Next]_vars => (TypeOK /\ AInv)'
  BY TypeOKStep, AInvStep
<1> QED
  BY <1>1, <1>2, PTL DEF Spec

\* A replayed answer is the result of an invocation with the same body whose work
\* took effect and which answered with it, or failed, died or has yet to answer
\* after storing it (idempotency_service.py:105-112, 212-233), whatever the times.
THEOREM ReplaysAreAuthentic == Spec => []ReplayIsAuthentic
<1>1. AInv => ReplayIsAuthentic
  BY DEF AInv
<1> QED
  BY <1>1, AnswersInvariant, PTL

-----------------------------------------------------------------------------
(* Executions of the same key are a retention apart.                       *)

\* a has stored its result, or has lost its lock, and has answered with it or may.
Told(a) == pc[a] = "answer" \/ reply[a].kind = "executed"

\* The result of a is stored, and stays so for TTL from a moment of its run ...
Retained(a) ==
  /\ rec.status = "COMPLETED"
  /\ rec.body = a
  /\ deadline[a] + TTL <= rec.expiresAt + RunTime

\* ... which has passed.
RetentionOver(a) == deadline[a] + TTL <= clock + RunTime

\* What is held will be retained, what was told is or has been.
RetentionInv ==
  /\ \A a \in Holder : deadline[a] + TTL <= rec.expiresAt + RunTime
  /\ \A a \in Attempt : Told(a) => Retained(a) \/ RetentionOver(a)

\* ExecutedApart, from the moment the results are stored.
ToldApart ==
  \A a, b \in Attempt :
    (a # b /\ Told(a) /\ Told(b)) =>
      \/ deadline[a] - deadline[b] >= TTL - RunTime
      \/ deadline[b] - deadline[a] >= TTL - RunTime

RInv == RetentionInv /\ ToldApart

LEMMA RInvInit == Init => RInv
BY DEF Init, RInv, RetentionInv, ToldApart, Told, Holder, Answer

\* A step of nobody that stores a result, on a store without one or left alone.
LEMMA RetentionKept ==
  ASSUME TypeOK, AInv, RInv, TypeOK', [Next]_vars,
         \A a \in Attempt : Told(a)' => Told(a),
         \A a \in Attempt : Told(a) => deadline'[a] = deadline[a],
         clock' \in {clock, clock + 1},
         \/ rec' = rec
         \/ rec.status # "COMPLETED"
         \/ rec.expiresAt <= clock
  PROVE  /\ \A a \in Attempt : Told(a)' => Retained(a)' \/ RetentionOver(a)'
         /\ ToldApart'
<1>1. ASSUME NEW a \in Attempt, Told(a)'
      PROVE  Retained(a)' \/ RetentionOver(a)'
  <2>1. deadline'[a] = deadline[a] /\ (Retained(a) \/ RetentionOver(a))
    BY <1>1 DEF RInv, RetentionInv
  <2>2. /\ deadline[a] \in Nat /\ clock \in Nat /\ rec.expiresAt \in Nat
        /\ TTL \in Nat /\ RunTime \in Nat
    BY ConstantsAssumption DEF TypeOK, Record
  <2> QED
    BY <2>1, <2>2 DEF Retained, RetentionOver
<1>2. ToldApart'
  BY DEF RInv, ToldApart
<1> QED
  BY <1>1, <1>2

LEMMA RInvStep ==
  ASSUME Timing
  PROVE  TypeOK /\ IInv /\ AInv /\ RInv /\ [Next]_vars => RInv'
<1> SUFFICES ASSUME TypeOK, IInv, AInv, RInv, [Next]_vars PROVE RInv'
  OBVIOUS
<1>0. TypeOK'
  BY TypeOKStep
<1>1. ASSUME NEW a \in Attempt, NEW p \in Payload, Arrive(a, p) PROVE RInv'
  <2>1. /\ pc[a] = "idle" /\ reply[a] = Answer("none", None)
        /\ pc' = [pc EXCEPT ![a] = "look"]
        /\ deadline' = [deadline EXCEPT ![a] = clock + RunTime]
        /\ UNCHANGED <<clock, rec, reply>>
    BY <1>1 DEF Arrive, AInv
  <2>2. \A b \in Attempt : (Told(b) => deadline'[b] = deadline[b]) /\ (Told(b)' => Told(b))
    BY <2>1 DEF Told, Answer, TypeOK
  <2>3. \A b \in Holder' : b \in Holder /\ deadline'[b] = deadline[b]
    BY <2>1 DEF Holder, TypeOK
  <2> QED
    BY <1>0, <2>1, <2>2, <2>3, RetentionKept DEF RInv, RetentionInv
<1>2. ASSUME NEW a \in Attempt, Write(a) PROVE RInv'
  <2>1. UNCHANGED <<clock, deadline>>
    BY <1>2 DEF Write
  <2>2. \A b \in Attempt : Told(b)' => Told(b)
    BY <1>2 DEF Told, Write, RetryReservation, Finish, Answer, TypeOK
  <2>3. CASE ClaimHolds(a) /\ rec' = Locked(a)
    <3>1. rec.status # "COMPLETED" /\ Holder = {}
      BY <1>2, <2>3, ClaimFindsNobody
         DEF ClaimHolds, ReserveHolds, RetryFailedHolds, ReclaimHolds, Write
    <3>2. Holder' \subseteq {a}
      BY <1>2, <3>1 DEF Write, RetryReservation, Finish, Holder, TypeOK
    <3>3. rec'.expiresAt = claim[a].now + TTL
      BY <2>3 DEF Locked, TypeOK, Record
    <3>4. deadline[a] <= claim[a].now + RunTime
      BY <1>2 DEF Write, IInv, ReadAfterStart
    <3>5. /\ deadline[a] \in Nat /\ claim[a].now \in Nat
          /\ TTL \in Nat /\ RunTime \in Nat
      BY ConstantsAssumption DEF TypeOK, Claim
    <3>6. \A b \in Holder' : deadline'[b] + TTL <= rec'.expiresAt + RunTime
      BY <2>1, <3>2, <3>3, <3>4, <3>5
    <3> QED
      BY <1>0, <2>1, <2>2, <3>1, <3>6, RetentionKept DEF RInv, RetentionInv
  <2>4. CASE ~ClaimHolds(a) /\ rec' = rec
    <3>1. Holder' \subseteq Holder
      BY <1>2, <2>4 DEF Write, RetryReservation, Finish, Holder, TypeOK
    <3> QED
      BY <1>0, <2>1, <2>2, <2>4, <3>1, RetentionKept DEF RInv, RetentionInv
  <2> QED
    BY <1>2, <2>3, <2>4 DEF Write, Put
<1>3. ASSUME NEW a \in Attempt, Look(a) \/ Work(a) \/ Respond(a) \/ Abort(a) \/ Crash(a)
      PROVE  RInv'
  <2>1. UNCHANGED <<clock, deadline>>
    BY <1>3 DEF Look, Work, Respond, Abort, Crash
  <2>2. \A b \in Attempt : Told(b)' => Told(b)
    BY <1>3 DEF Told, Look, Work, Respond, Abort, Crash, Finish, Answer, TypeOK
  <2>3. Holder' \subseteq Holder
    BY <1>3 DEF Look, Work, Respond, Abort, Crash, Finish, Holder, TypeOK
  <2>4. rec' = rec \/ (rec.status # "COMPLETED" /\ rec'.expiresAt = rec.expiresAt)
    BY <1>3 DEF Look, Work, Respond, Abort, Crash, Owns, Put, TypeOK, Record
  <2> QED
    BY <1>0, <2>1, <2>2, <2>3, <2>4, RetentionKept DEF RInv, RetentionInv
<1>8. ASSUME NEW a \in Attempt, Commit(a), rec' = rec, pc'[a] \in {"abort", "done"}
      PROVE  RInv'
  <2>1. UNCHANGED <<clock, deadline>> /\ Holder' \subseteq Holder
    BY <1>8 DEF Commit, Finish, Holder, TypeOK
  <2>2. \A b \in Attempt : Told(b)' => Told(b)
    BY <1>8 DEF Told, Commit, Finish, Answer, TypeOK
  <2> QED
    BY <1>0, <1>8, <2>1, <2>2, RetentionKept DEF RInv, RetentionInv
<1>4. ASSUME NEW a \in Attempt, Commit(a), pc' = [pc EXCEPT ![a] = "answer"] PROVE RInv'
  <2>1. a \in Holder /\ Holder = {a} /\ Owns(a)
    BY <1>4, OneOwner DEF Commit, Holder, IInv, HolderOwns
  <2>2. /\ rec' = [rec EXCEPT !.status = "COMPLETED", !.body = a]
        /\ pc'[a] = "answer"
        /\ \A b \in Attempt \ {a} : pc'[b] = pc[b]
        /\ UNCHANGED <<clock, deadline, reply>>
    BY <1>4, <2>1 DEF Commit, Finish, Put, TypeOK
  <2>3. Holder' = {}
    BY <2>1, <2>2 DEF Holder
  <2>4. Retained(a)'
    BY <2>1, <2>2 DEF Retained, RInv, RetentionInv, TypeOK, Record
  <2>5. \A b \in Attempt \ {a} : Told(b)' => Told(b)
    BY <2>2 DEF Told
  <2>6. \A b \in Attempt : Told(b) => RetentionOver(b)
    BY <2>1 DEF RInv, RetentionInv, Retained, Owns
  <2>7. \A b \in Attempt : Told(b)' => Retained(b)' \/ RetentionOver(b)'
    BY <2>2, <2>4, <2>5, <2>6 DEF RetentionOver
  <2>8. \A b \in Attempt : Told(b) => deadline[a] - deadline[b] >= TTL - RunTime
    <3> SUFFICES ASSUME NEW b \in Attempt, Told(b)
                 PROVE  deadline[a] - deadline[b] >= TTL - RunTime
      OBVIOUS
    <3>1. deadline[b] + TTL <= clock + RunTime /\ clock <= deadline[a]
      BY <2>1, <2>6 DEF RetentionOver, IInv, WithinDeadline, Live, Holder
    <3>2. /\ deadline[a] \in Nat /\ deadline[b] \in Nat /\ clock \in Nat
          /\ TTL \in Nat /\ RunTime \in Nat
      BY ConstantsAssumption DEF TypeOK
    <3> QED
      BY <3>1, <3>2
  <2>9. ToldApart'
    BY <2>2, <2>5, <2>8 DEF RInv, ToldApart
  <2> QED
    BY <2>3, <2>7, <2>9 DEF RInv, RetentionInv
<1>5. CASE Tick
  <2>1. clock' = clock + 1 /\ UNCHANGED <<rec, pc, deadline, reply>>
    BY <1>5 DEF Tick
  <2> QED
    BY <1>0, <2>1, RetentionKept DEF RInv, RetentionInv, Holder, Told
<1>6. CASE Sweep
  <2>1. rec.expiresAt <= clock /\ UNCHANGED <<clock, pc, deadline, reply>>
    BY <1>6 DEF Sweep
  <2>2. Holder' = {}
    BY <1>6, <2>1, HeldIsNotSwept DEF Holder
  <2> QED
    BY <1>0, <2>1, <2>2, RetentionKept DEF RInv, RetentionInv, Told
<1>7. CASE UNCHANGED vars
  BY <1>0, <1>7, RetentionKept DEF vars, RInv, RetentionInv, Holder, Told
<1>9. ASSUME NEW a \in Attempt, Commit(a) PROVE RInv'
  <2>1. pc' = [pc EXCEPT ![a] = "answer"] \/ (rec' = rec /\ pc'[a] \in {"abort", "done"})
    BY <1>9 DEF Commit, Finish, TypeOK
  <2> QED
    BY <1>4, <1>8, <1>9, <2>1
<1> QED
  BY <1>1, <1>2, <1>3, <1>5, <1>6, <1>7, <1>9 DEF Next, Step

\* Two invocations that both carry out the work and say so are at least
\* TTL - RunTime apart (idempotency_service.py:212-233): the second took the key
\* after the item of the first had expired.
THEOREM ExecutionsAreApart ==
  ASSUME Timing
  PROVE  Spec => []ExecutedApart
<1>1. TypeOK /\ IInv /\ AInv /\ RInv /\ [Next]_vars => RInv'
  BY RInvStep
<1>2. RInv => ExecutedApart
  BY DEF RInv, ToldApart, Told, ExecutedApart
<1> QED
  BY <1>1, <1>2, RInvInit, InductiveInvariant, AnswersInvariant, PTL DEF Spec

-----------------------------------------------------------------------------
(* The reservation loop is bounded.                                        *)

\* What an attempt may still do before it answers: two calls for each retry of
\* the reservation that is left, and what its place in the protocol asks for.
CallsLeft(a) ==
  IF a \notin Live THEN 0
  ELSE 2 * (MaxRetries - tries[a]) + (CASE pc[a] = "look"   -> 5
                                        [] pc[a] = "write"  -> 4
                                        [] pc[a] = "run"    -> 3
                                        [] pc[a] = "commit" -> 2
                                        [] OTHER            -> 1)

\* Each step of a started attempt is one call less to go; nothing others do,
\* no clock and no crash gives it calls back.
CallsCountDown ==
  [][\A a \in Attempt :
       a \in Live => /\ CallsLeft(a)' <= CallsLeft(a)
                     /\ Step(a) => CallsLeft(a)' < CallsLeft(a)]_vars

LEMMA CallsLeftBound ==
  ASSUME TypeOK, NEW a \in Attempt
  PROVE  /\ CallsLeft(a) \in Nat
         /\ CallsLeft(a) <= 2 * MaxRetries + 5
         /\ a \in Live => CallsLeft(a) > 0
<1>1. tries[a] \in 0 .. MaxRetries /\ MaxRetries \in Nat
  BY ConstantsAssumption DEF TypeOK
<1> QED
  BY <1>1 DEF CallsLeft

\* An attempt's own calls move it forward in the loop of check_and_reserve or
\* through one more of its bounded retries.
LEMMA OwnCallsCount ==
  ASSUME TypeOK, TypeOK', NEW a \in Attempt, Step(a)
  PROVE  CallsLeft(a)' < CallsLeft(a)
<1>1. /\ tries[a] \in 0 .. MaxRetries /\ tries'[a] \in 0 .. MaxRetries
      /\ MaxRetries \in Nat
      /\ a \in DOMAIN pc /\ a \in DOMAIN tries
  BY ConstantsAssumption DEF TypeOK
<1>2. CASE Look(a)
  BY <1>1, <1>2 DEF Look, Finish, CallsLeft, Live
<1>3. CASE Write(a)
  <2>1. /\ pc[a] = "write"
        /\ \/ pc'[a] = "run" /\ tries' = tries
           \/ pc'[a] = "look" /\ tries'[a] = tries[a] + 1
           \/ pc'[a] = "done"
    BY <1>1, <1>3 DEF Write, RetryReservation, Finish
  <2> QED
    BY <1>1, <2>1 DEF CallsLeft, Live
<1>4. CASE Work(a)
  BY <1>1, <1>4 DEF Work, Finish, CallsLeft, Live
<1>5. CASE Commit(a) \/ Respond(a) \/ Abort(a)
  BY <1>1, <1>5 DEF Commit, Respond, Abort, Finish, CallsLeft, Live
<1> QED
  BY <1>2, <1>3, <1>4, <1>5 DEF Step

\* An attempt makes at most 2 * MaxRetries + 5 steps, whatever it reads and
\* however often its writes lose (idempotency_service.py:54-76): with the
\* fairness of its steps this is why EveryAttemptEnds.
THEOREM ReservationsAreBounded == Spec => CallsCountDown
<1>1. ASSUME TypeOK, TypeOK', [Next]_vars, NEW a \in Attempt, a \in Live
      PROVE  /\ CallsLeft(a)' <= CallsLeft(a)
             /\ Step(a) => CallsLeft(a)' < CallsLeft(a)
  <2>1. CallsLeft(a) \in Nat /\ CallsLeft(a) > 0
    BY <1>1, CallsLeftBound
  <2>2. \/ Step(a)
        \/ pc'[a] = "dead"
        \/ pc'[a] = pc[a] /\ tries'[a] = tries[a]
    <3>1. ASSUME NEW b \in Attempt, NEW p \in Payload, Arrive(b, p)
          PROVE  pc'[a] = pc[a] /\ tries'[a] = tries[a]
      BY <1>1, <3>1 DEF Arrive, Live, TypeOK
    <3>2. ASSUME NEW b \in Attempt, b # a, Step(b) \/ Crash(b)
          PROVE  pc'[a] = pc[a] /\ tries'[a] = tries[a]
      BY <1>1, <3>2 DEF Step, Look, Write, Work, Commit, Respond, Abort, Crash,
           RetryReservation, Finish, TypeOK
    <3>3. Crash(a) => pc'[a] = "dead"
      BY <1>1 DEF Crash, TypeOK
    <3>4. Tick \/ Sweep \/ UNCHANGED vars =>
            pc'[a] = pc[a] /\ tries'[a] = tries[a]
      BY DEF Tick, Sweep, vars
    <3> QED
      BY <1>1, <3>1, <3>2, <3>3, <3>4 DEF Next
  <2>3. CASE Step(a)
    <3>1. tries'[a] \in 0 .. MaxRetries /\ MaxRetries \in Nat
      BY <1>1, ConstantsAssumption DEF TypeOK
    <3>2. CallsLeft(a)' \in Nat
      BY <3>1 DEF CallsLeft, Live
    <3>3. CallsLeft(a)' < CallsLeft(a)
      BY <1>1, <2>3, OwnCallsCount
    <3> QED
      BY <2>1, <3>2, <3>3
  <2>4. CASE pc'[a] = "dead" /\ ~Step(a)
    BY <2>1, <2>4 DEF CallsLeft, Live
  <2>5. CASE pc'[a] = pc[a] /\ tries'[a] = tries[a] /\ ~Step(a)
    BY <2>1, <2>5 DEF CallsLeft, Live
  <2> QED
    BY <2>2, <2>3, <2>4, <2>5
<1>2. TypeOK /\ TypeOK' /\ [Next]_vars =>
        [\A a \in Attempt :
           a \in Live => /\ CallsLeft(a)' <= CallsLeft(a)
                         /\ Step(a) => CallsLeft(a)' < CallsLeft(a)]_vars
  BY <1>1
<1> QED
  BY <1>2, TypeCorrect, PTL DEF Spec, CallsCountDown
=============================================================================
