---------------------------- MODULE Idempotency ----------------------------
(***************************************************************************)
(* The idempotency protocol every mutating endpoint and both SQS           *)
(* consumers run around their work: check_and_reserve, the work itself,    *)
(* finalize_success or finalize_failure                                    *)
(* (application/services/idempotency_service.py over                       *)
(* adapters/persistence/idempotency_repository.py).                        *)
(*                                                                         *)
(* An attempt is one Lambda invocation that carries the key.  Items of     *)
(* different keys share no state, so one item of IdempotencyTable is       *)
(* modelled.  Between any two DynamoDB calls another attempt may run, the  *)
(* attempt may die, and the clock may advance.  Time is in ticks; the      *)
(* deployed values are RunTime 30 s (template.yaml), LockTime 5 minutes    *)
(* and TTL 24 hours.                                                       *)
(*                                                                         *)
(* Definitions whose name starts with Bug are wrong variants of the one    *)
(* that follows them; they are not part of the specification and serve to  *)
(* show that the properties would notice.                                  *)
(***************************************************************************)
EXTENDS Integers, FiniteSets

CONSTANTS
  Attempt,     \* invocations that carry the key
  Payload,     \* fingerprints of the request bodies they carry
  None,        \* no attempt, no payload
  LockTime,    \* _LOCK_TIMEOUT_MINUTES
  RunTime,     \* longest life of an invocation (Lambda timeout)
  TTL,         \* IDEMPOTENCY_TTL_HOURS
  MaxRetries,  \* _MAX_RESERVE_RETRIES
  MaxClock     \* bound of the model: the clock stops here

ASSUME ConstantsAssumption ==
  /\ None \notin Attempt
  /\ None \notin Payload
  /\ LockTime \in Nat
  /\ RunTime \in Nat
  /\ TTL \in Nat
  /\ MaxRetries \in Nat
  /\ MaxClock \in Nat

VARIABLES
  clock,     \* wall clock, read by every invocation and by the TTL sweeper
  rec,       \* the item of IdempotencyTable, as conditional writes see it
  stale,     \* the version before it, which an eventually consistent get_item may return
  pc,        \* where each attempt is
  payload,   \* fingerprint of its body
  deadline,  \* when the platform stops it
  tries,     \* _retry_count
  claim,     \* what check_and_reserve read: status, lockExpiresAt and its own now
  applied,   \* attempts whose work took effect
  reply      \* what the attempt answered

vars == <<clock, rec, stale, pc, payload, deadline, tries, claim, applied, reply>>

-----------------------------------------------------------------------------
(* Types.                                                                  *)

Status == {"ABSENT", "IN_PROGRESS", "FAILED", "COMPLETED"}

\* lockOwner is a uuid4 drawn by every call of check_and_reserve.
Owner == (Attempt \cup {None}) \X (0 .. MaxRetries)

Record == [status        : Status,
           fingerprint   : Payload \cup {None},
           owner         : Owner,
           lockExpiresAt : Nat,
           expiresAt     : Nat,
           body          : Attempt \cup {None}]

\* The item does not exist.
NoRecord == [status |-> "ABSENT", fingerprint |-> None, owner |-> <<None, 0>>,
             lockExpiresAt |-> 0, expiresAt |-> 0, body |-> None]

Claim == [found : Status, expiry : Nat, now : Nat]
NoClaim == [found |-> "ABSENT", expiry |-> 0, now |-> 0]

PC == {"idle", "look", "write", "run", "commit", "abort", "answer", "done", "dead"}
ReplyKind == {"none", "executed", "replayed", "refused", "error"}
Reply == [kind : ReplyKind, body : Attempt \cup {None}]
Answer(k, b) == [kind |-> k, body |-> b]

\* Attempts that occupy a Lambda environment.
Live == {a \in Attempt : pc[a] \in {"look", "write", "run", "commit", "abort", "answer"}}

\* Attempts between check_and_reserve and the end of the finalization.
Holder == {a \in Attempt : pc[a] \in {"run", "commit", "abort"}}

Token(a) == <<a, tries[a]>>

-----------------------------------------------------------------------------
Init ==
  /\ clock = 0
  /\ rec = NoRecord
  /\ stale = NoRecord
  /\ pc = [a \in Attempt |-> "idle"]
  /\ payload = [a \in Attempt |-> None]
  /\ deadline = [a \in Attempt |-> 0]
  /\ tries = [a \in Attempt |-> 0]
  /\ claim = [a \in Attempt |-> NoClaim]
  /\ applied = {}
  /\ reply = [a \in Attempt |-> Answer("none", None)]

\* A write to the item: readers may keep seeing the version it replaces.
Put(r) == rec' = r /\ stale' = rec

Finish(a, answer) ==
  /\ pc' = [pc EXCEPT ![a] = "done"]
  /\ reply' = [reply EXCEPT ![a] = answer]

\* An invocation starts with a body that has fingerprint p.
Arrive(a, p) ==
  /\ pc[a] = "idle"
  /\ pc' = [pc EXCEPT ![a] = "look"]
  /\ payload' = [payload EXCEPT ![a] = p]
  /\ deadline' = [deadline EXCEPT ![a] = clock + RunTime]
  /\ UNCHANGED <<clock, rec, stale, tries, claim, applied, reply>>

-----------------------------------------------------------------------------
(* check_and_reserve, first half: read the item and decide.                *)

LockExpired(r, now) == r.lockExpiresAt <= now

\* The branches of check_and_reserve that go on to a conditional write.
Claimable(r, p, now) ==
  \/ r.status = "ABSENT"
  \/ r.fingerprint = p /\ r.status = "FAILED"
  \/ r.fingerprint = p /\ r.status = "IN_PROGRESS" /\ LockExpired(r, now)

BugReplayAnyBody(r, p) == r.status = "COMPLETED"

\* The branch that answers with the stored response.
Replayable(r, p) == r.fingerprint = p /\ r.status = "COMPLETED"

\* get_idempotency_record reads without ConsistentRead.
Look(a) ==
  /\ pc[a] = "look"
  /\ \E r \in {rec, stale} :
       \/ /\ Claimable(r, payload[a], clock)
          /\ pc' = [pc EXCEPT ![a] = "write"]
          /\ claim' = [claim EXCEPT ![a] =
               [found |-> r.status, expiry |-> r.lockExpiresAt, now |-> clock]]
          /\ UNCHANGED reply
       \/ /\ Replayable(r, payload[a])
          /\ Finish(a, Answer("replayed", r.body))
          /\ UNCHANGED claim
       \/ /\ ~Claimable(r, payload[a], clock)
          /\ ~Replayable(r, payload[a])
          /\ Finish(a, Answer("refused", None))
          /\ UNCHANGED claim
  /\ UNCHANGED <<clock, rec, stale, payload, deadline, tries, applied>>

-----------------------------------------------------------------------------
(* check_and_reserve, second half: the conditional write.                  *)

BugReserveOverwrites == TRUE

ReserveHolds == rec.status = "ABSENT"

RetryFailedHolds(a) ==
  /\ rec.status = "FAILED"
  /\ rec.fingerprint = payload[a]

BugReclaimUnconditional(a) ==
  /\ rec.status = "IN_PROGRESS"
  /\ rec.fingerprint = payload[a]

ReclaimHolds(a) ==
  /\ rec.status = "IN_PROGRESS"
  /\ rec.fingerprint = payload[a]
  /\ rec.lockExpiresAt = claim[a].expiry
  /\ LockExpired(rec, claim[a].now)

\* The condition of the write that matches what the attempt read.
ClaimHolds(a) ==
  \/ claim[a].found = "ABSENT" /\ ReserveHolds
  \/ claim[a].found = "FAILED" /\ RetryFailedHolds(a)
  \/ claim[a].found = "IN_PROGRESS" /\ ReclaimHolds(a)

BugNoLockTime(a) ==
  [rec EXCEPT !.status = "IN_PROGRESS",
              !.fingerprint = payload[a],
              !.owner = Token(a),
              !.lockExpiresAt = claim[a].now,
              !.expiresAt = claim[a].now + TTL]

Locked(a) ==
  [rec EXCEPT !.status = "IN_PROGRESS",
              !.fingerprint = payload[a],
              !.owner = Token(a),
              !.lockExpiresAt = claim[a].now + LockTime,
              !.expiresAt = claim[a].now + TTL]

BugUnboundedRetry(a) ==
  /\ pc' = [pc EXCEPT ![a] = "look"]
  /\ UNCHANGED <<tries, reply>>

BugOneRetryTooMany(a) ==
  \/ /\ tries[a] <= MaxRetries
     /\ pc' = [pc EXCEPT ![a] = "look"]
     /\ tries' = [tries EXCEPT ![a] = @ + 1]
     /\ UNCHANGED reply
  \/ /\ tries[a] > MaxRetries
     /\ Finish(a, Answer("refused", None))
     /\ UNCHANGED tries

\* _retry_reservation: start over, or give up after MaxRetries.
RetryReservation(a) ==
  \/ /\ tries[a] < MaxRetries
     /\ pc' = [pc EXCEPT ![a] = "look"]
     /\ tries' = [tries EXCEPT ![a] = @ + 1]
     /\ UNCHANGED reply
  \/ /\ tries[a] >= MaxRetries
     /\ Finish(a, Answer("refused", None))
     /\ UNCHANGED tries

\* The write may succeed and its response be lost: the client library sends it
\* again, and the second one fails its own condition.  What was read is local to
\* the call and goes out of scope.
Write(a) ==
  /\ pc[a] = "write"
  /\ \/ /\ ClaimHolds(a)
        /\ Put(Locked(a))
        /\ \/ /\ pc' = [pc EXCEPT ![a] = "run"]
              /\ UNCHANGED <<tries, reply>>
           \/ RetryReservation(a)
     \/ /\ ~ClaimHolds(a)
        /\ RetryReservation(a)
        /\ UNCHANGED <<rec, stale>>
  /\ claim' = [claim EXCEPT ![a] = NoClaim]
  /\ UNCHANGED <<clock, payload, deadline, applied>>

-----------------------------------------------------------------------------
(* The protected work, as the use cases run it: it succeeds, or it raises  *)
(* and the caller records the failure, or it raises on a path that records *)
(* nothing (create, citizen update, patch and priority raise their         *)
(* validation and state conflicts after the reservation).  Work that       *)
(* raises may have taken effect in part.                                   *)

Work(a) ==
  /\ pc[a] = "run"
  /\ \/ /\ pc' = [pc EXCEPT ![a] = "commit"]
        /\ applied' = applied \cup {a}
        /\ UNCHANGED reply
     \/ /\ pc' = [pc EXCEPT ![a] = "abort"]
        /\ applied' \in {applied, applied \cup {a}}
        /\ UNCHANGED reply
     \/ /\ Finish(a, Answer("error", None))
        /\ UNCHANGED applied
  /\ UNCHANGED <<clock, rec, stale, payload, deadline, tries, claim>>

BugNoOwnerCheck(a) == rec.status # "ABSENT"

\* The condition of finalize_idempotency_key.
Owns(a) ==
  /\ rec.status = "IN_PROGRESS"
  /\ rec.owner = Token(a)

\* finalize_success: a failed condition is logged and the caller goes on.  A call
\* that raises without storing anything is reported to the client, or caught by a
\* consumer, which then calls finalize_failure.
Commit(a) ==
  /\ pc[a] = "commit"
  /\ \/ /\ \/ Owns(a) /\ Put([rec EXCEPT !.status = "COMPLETED", !.body = a])
           \/ ~Owns(a) /\ UNCHANGED <<rec, stale>>
        /\ pc' = [pc EXCEPT ![a] = "answer"]
        /\ UNCHANGED reply
     \/ /\ pc' = [pc EXCEPT ![a] = "abort"]
        /\ UNCHANGED <<rec, stale, reply>>
     \/ /\ Finish(a, Answer("error", None))
        /\ UNCHANGED <<rec, stale>>
  /\ UNCHANGED <<clock, payload, deadline, tries, claim, applied>>

\* What follows the finalization: events are published and noted, and the result
\* is returned, unless something raises on the way.  A call of finalize_success
\* that stores the result and still raises ends here with the error.
Respond(a) ==
  /\ pc[a] = "answer"
  /\ Finish(a, Answer("executed", a)) \/ Finish(a, Answer("error", None))
  /\ UNCHANGED <<clock, rec, stale, payload, deadline, tries, claim, applied>>

\* finalize_failure.
Abort(a) ==
  /\ pc[a] = "abort"
  /\ \/ Owns(a) /\ Put([rec EXCEPT !.status = "FAILED"])
     \/ ~Owns(a) /\ UNCHANGED <<rec, stale>>
  /\ Finish(a, Answer("error", None))
  /\ UNCHANGED <<clock, payload, deadline, tries, claim, applied>>

-----------------------------------------------------------------------------
(* The environment.                                                        *)

\* The invocation dies, or is stopped at its deadline, between two calls.
Crash(a) ==
  /\ a \in Live
  /\ pc' = [pc EXCEPT ![a] = "dead"]
  /\ claim' = [claim EXCEPT ![a] = NoClaim]
  /\ UNCHANGED <<clock, rec, stale, payload, deadline, tries, applied, reply>>

\* No invocation outlives its deadline.
Tick ==
  /\ clock < MaxClock
  /\ \A a \in Live : clock < deadline[a]
  /\ clock' = clock + 1
  /\ UNCHANGED <<rec, stale, pc, payload, deadline, tries, claim, applied, reply>>

\* DynamoDB deletes an item some time after its expiresAt.
Sweep ==
  /\ rec.status # "ABSENT"
  /\ rec.expiresAt <= clock
  /\ Put(NoRecord)
  /\ UNCHANGED <<clock, pc, payload, deadline, tries, claim, applied, reply>>

Step(a) == Look(a) \/ Write(a) \/ Work(a) \/ Commit(a) \/ Respond(a) \/ Abort(a)

Next ==
  \/ \E a \in Attempt, p \in Payload : Arrive(a, p)
  \/ \E a \in Attempt : Step(a) \/ Crash(a)
  \/ Tick
  \/ Sweep

Spec == Init /\ [][Next]_vars

\* A running invocation is scheduled; nothing forces clients, crashes or time.
FairSpec == Spec /\ \A a \in Attempt : WF_vars(Step(a))

-----------------------------------------------------------------------------
(* Properties.                                                             *)

\* Every variable keeps its type: in particular an item never carries a body
\* or an owner from outside the attempts (idempotency_service.py:176-192).
TypeOK ==
  /\ clock \in Nat
  /\ rec \in Record
  /\ stale \in Record
  /\ pc \in [Attempt -> PC]
  /\ payload \in [Attempt -> Payload \cup {None}]
  /\ deadline \in [Attempt -> Nat]
  /\ tries \in [Attempt -> 0 .. MaxRetries]
  /\ claim \in [Attempt -> Claim]
  /\ applied \in SUBSET Attempt
  /\ reply \in [Attempt -> Reply]

\* At most one invocation is inside the protected work of a key, whatever
\* crashes, lost responses, stale reads and expiries happen
\* (idempotency_service.py:113-145).  Holds when RunTime < LockTime <= TTL.
OneHolder == \A a, b \in Holder : a = b

\* Two invocations that both execute the work and answer with its result are
\* at least TTL - RunTime apart: within the retention of the record a caller is
\* never told twice that its request was carried out
\* (idempotency_service.py:212-233).  Holds when RunTime < LockTime <= TTL.
ExecutedApart ==
  \A a, b \in Attempt :
    (a # b /\ reply[a].kind = "executed" /\ reply[b].kind = "executed") =>
      \/ deadline[a] - deadline[b] >= TTL - RunTime
      \/ deadline[b] - deadline[a] >= TTL - RunTime

\* A stored response never changes; only the TTL sweeper removes it, and not
\* before its expiresAt.  A holder that lost its lock cannot overwrite it
\* (idempotency_repository.py:193-196).
CompletedIsFinal ==
  [][rec.status = "COMPLETED" =>
       \/ rec' = rec
       \/ rec' = NoRecord /\ rec.expiresAt <= clock]_vars

\* A lock is ended (COMPLETED or FAILED) only by the invocation that took it,
\* not by one whose lock was reclaimed meanwhile
\* (idempotency_repository.py:193-196).
OnlyOwnerFinalizes ==
  [][(rec.status = "IN_PROGRESS" /\ rec'.status \in {"COMPLETED", "FAILED"}) =>
       LET a == rec.owner[1] IN
         /\ a \in Attempt
         /\ pc[a] \in {"commit", "abort"}
         /\ pc'[a] \in {"answer", "done"}]_vars

\* A replayed answer is the result of an invocation with the same body whose work
\* took effect and which stored that result.  The invocation itself answered with
\* it, or raised, died or has yet to answer: the replay may be the first anybody
\* hears of the result, but it never contradicts a refusal or repeats a replay
\* (idempotency_service.py:105-112, 212-233).
ReplayIsAuthentic ==
  \A a \in Attempt :
    reply[a].kind = "replayed" =>
      LET b == reply[a].body IN
        /\ b \in applied
        /\ payload[b] = payload[a]
        /\ pc[b] \in {"answer", "done", "dead"}
        /\ reply[b] \in {Answer("executed", b), Answer("error", None), Answer("none", None)}

\* An invocation that keeps being scheduled ends: with stale reads or under
\* contention the reservation loop gives up (idempotency_service.py:54-76).
EveryAttemptEnds == \A a \in Attempt : a \in Live ~> a \notin Live
=============================================================================
