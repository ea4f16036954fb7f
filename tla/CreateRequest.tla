--------------------------- MODULE CreateRequest ---------------------------
(***************************************************************************)
(* Creation of rescue requests (application/usecases/                      *)
(* create_rescue_request.py over create_rescue_request of the repository): *)
(* the idempotency key, the checks of phone and duplicates, the items of   *)
(* the new request written by one transaction or one after the other, and  *)
(* the answer.                                                             *)
(*                                                                         *)
(* A creator is one invocation and, as requestId and tracking code are     *)
(* drawn by it, one new request.  The idempotency keys are taken as        *)
(* SingleFlight promises them (Idempotency shows that they keep it).  The  *)
(* event published at the end is part of RequestLifecycle.                 *)
(*                                                                         *)
(* Definitions whose name starts with Bug are wrong variants of the one    *)
(* that follows them; they are not part of the specification.              *)
(***************************************************************************)
EXTENDS Integers, Sequences

CONSTANTS
  Creator,       \* invocations of POST /v1/rescue-requests
  Phone,         \* normalized phones
  Key,           \* idempotency keys
  Bucket,        \* the rest of the duplicate signature: place, type and time bucket
  None,
  KeyTypeErrors, \* may a transaction be cancelled with a key type mismatch?
  StaleReads     \* may a query miss, or still show, what was written before?

ASSUME ConstantsAssumption ==
  /\ None \notin Creator \cup Phone \cup Key
  /\ KeyTypeErrors \in BOOLEAN
  /\ StaleReads \in BOOLEAN

VARIABLES
  form,       \* what each creator submits
  items,      \* items of each creator's request that exist
  phoneItem,  \* the request named by PHONE#phone / UNIQUE
  taker,      \* history: the creation that last put or deleted that item
  holder,     \* the invocation that locks each key
  result,     \* the invocation whose answer each key replays
  pc,
  next,       \* position in Item of the non-transactional write
  reply,      \* what each creator answered
  answered    \* requests that had been answered when each creator started

vars == <<form, items, phoneItem, taker, holder, result, pc, next, reply, answered>>

-----------------------------------------------------------------------------
(* Types.                                                                  *)

\* The items of a request in the order the repository writes them.
Item == <<"MASTER", "CURRENT", "EVENT", "TRACK", "INCIDENT", "PHONE", "DUP">>

\* All but PHONE have a key of their own for every request; PHONE is one item for
\* all the requests of a phone.
OwnItem == {"MASTER", "CURRENT", "EVENT", "TRACK", "INCIDENT", "DUP"}

\* known: get_incident finds the incident.
Form == [phone : Phone, key : Key \cup {None}, bucket : Bucket, known : BOOLEAN]

PC == {"idle", "phone", "dup", "transact", "put", "rollback", "fail", "commit",
       "answer", "done"}
ReplyKind == {"none", "created", "replayed", "refused", "failed", "crashed"}
Answer(k, r) == [kind |-> k, request |-> r]

\* The requests some caller was told of, by their creation or by a replay.
Told ==
  {r \in Creator :
     \E d \in Creator : reply[d].kind \in {"created", "replayed"} /\ reply[d].request = r}

-----------------------------------------------------------------------------
\* A key reused with another body is refused before anything is written, so
\* creators with one key submit one phone; the signature depends on the time.
Init ==
  /\ form \in [Creator -> Form]
  /\ \A c, d \in Creator :
       form[c].key = form[d].key /\ form[c].key # None => form[c].phone = form[d].phone
  /\ items = [c \in Creator |-> {}]
  /\ phoneItem = [p \in Phone |-> None]
  /\ taker = [p \in Phone |-> None]
  /\ holder = [k \in Key |-> None]
  /\ result = [k \in Key |-> None]
  /\ pc = [c \in Creator |-> "idle"]
  /\ next = [c \in Creator |-> 1]
  /\ reply = [c \in Creator |-> Answer("none", None)]
  /\ answered = [c \in Creator |-> {}]

Goto(c, where) == pc' = [pc EXCEPT ![c] = where]

Finish(c, answer) ==
  /\ Goto(c, "done")
  /\ reply' = [reply EXCEPT ![c] = answer]

\* A finalization ends the lock of the key of c.
Release(c) ==
  holder' = [k \in Key |-> IF k = form[c].key THEN None ELSE holder[k]]

Keyed(c) == form[c].key # None

BugTwoHolders(c) == result[form[c].key] = None

Reservable(c) ==
  /\ result[form[c].key] = None
  /\ holder[form[c].key] = None

\* check_and_reserve, when there is a key.
Arrive(c) ==
  /\ pc[c] = "idle"
  /\ answered' = [answered EXCEPT ![c] = Told]
  /\ \/ /\ ~Keyed(c)
        /\ Goto(c, "phone")
        /\ UNCHANGED <<holder, reply>>
     \/ /\ Keyed(c)
        /\ result[form[c].key] # None
        /\ Finish(c, Answer("replayed", result[form[c].key]))
        /\ UNCHANGED holder
     \/ /\ Keyed(c)
        /\ result[form[c].key] = None
        /\ holder[form[c].key] # None
        /\ Finish(c, Answer("refused", None))
        /\ UNCHANGED holder
     \/ /\ Keyed(c)
        /\ Reservable(c)
        /\ holder' = [holder EXCEPT ![form[c].key] = c]
        /\ Goto(c, "phone")
        /\ UNCHANGED reply
  /\ UNCHANGED <<form, items, phoneItem, taker, result, next>>

\* A check that fails raises without finalizing the key: its lock stays.
Refuse(c) ==
  Finish(c, Answer("refused", None))

BugPhoneUnchecked(c) == FALSE

\* find_by_phone_hash: any tracking item of the phone.
PhoneTaken(c) ==
  \E d \in Creator : form[d].phone = form[c].phone /\ "TRACK" \in items[d]

\* The incident must be known and the phone free.
CheckPhone(c) ==
  /\ pc[c] = "phone"
  /\ \/ /\ ~form[c].known \/ PhoneTaken(c) \/ StaleReads
        /\ Refuse(c)
     \/ /\ form[c].known
        /\ ~PhoneTaken(c) \/ StaleReads
        /\ Goto(c, IF Keyed(c) THEN "transact" ELSE "dup")
        /\ UNCHANGED reply
  /\ UNCHANGED <<form, items, phoneItem, taker, holder, result, next, answered>>

\* check_duplicate_signature.
SignatureTaken(c) ==
  \E d \in Creator :
    /\ form[d].phone = form[c].phone
    /\ form[d].bucket = form[c].bucket
    /\ "DUP" \in items[d]

\* Without a key only.
CheckDuplicate(c) ==
  /\ pc[c] = "dup"
  /\ \/ /\ SignatureTaken(c) \/ StaleReads
        /\ Refuse(c)
     \/ /\ ~SignatureTaken(c) \/ StaleReads
        /\ Goto(c, "transact")
        /\ UNCHANGED reply
  /\ UNCHANGED <<form, items, phoneItem, taker, holder, result, next, answered>>

-----------------------------------------------------------------------------
(* The write.                                                              *)

\* A put or a deletion of the PHONE item by c.
SetPhone(c, r) ==
  /\ phoneItem' = [phoneItem EXCEPT ![form[c].phone] = r]
  /\ taker' = [taker EXCEPT ![form[c].phone] = c]

\* All items by one transaction without conditions.  It takes effect; or it is
\* cancelled, after retries if the cause was a conflict; or it takes effect and
\* the caller never learns; or the store rejects its key types.
Transact(c) ==
  /\ pc[c] = "transact"
  /\ \/ /\ items' = [items EXCEPT ![c] = OwnItem]
        /\ SetPhone(c, c)
        /\ \E where \in {"commit", "fail"} : Goto(c, where)
     \/ /\ Goto(c, "fail")
        /\ UNCHANGED <<items, phoneItem, taker>>
     \/ /\ KeyTypeErrors
        /\ Goto(c, "put")
        /\ UNCHANGED <<items, phoneItem, taker>>
  /\ UNCHANGED <<form, holder, result, next, reply, answered>>

ItemFree(c) ==
  Item[next[c]] = "PHONE" => phoneItem[form[c].phone] = None

PutItem(c) ==
  \/ /\ Item[next[c]] = "PHONE"
     /\ SetPhone(c, c)
     /\ UNCHANGED items
  \/ /\ Item[next[c]] # "PHONE"
     /\ items' = [items EXCEPT ![c] = @ \cup {Item[next[c]]}]
     /\ UNCHANGED <<phoneItem, taker>>

BugLastPutSkipped(c) == next[c] + 1 = Len(Item)

LastPut(c) == next[c] = Len(Item)

\* _put_items_with_rollback, one conditional put.  A put whose response was
\* lost is sent again and fails its own condition; an error that is not a
\* ClientError (a timeout) skips the rollback.
FallbackPut(c) ==
  /\ pc[c] = "put"
  /\ \/ /\ ItemFree(c)
        /\ PutItem(c)
        /\ \/ LastPut(c) /\ Goto(c, "commit") /\ UNCHANGED next
           \/ ~LastPut(c) /\ next' = [next EXCEPT ![c] = @ + 1] /\ UNCHANGED pc
           \/ Goto(c, "rollback") /\ UNCHANGED next
           \/ Goto(c, "fail") /\ UNCHANGED next
     \/ /\ Goto(c, "rollback") \/ Goto(c, "fail")
        /\ UNCHANGED <<items, phoneItem, taker, next>>
  /\ UNCHANGED <<form, holder, result, reply, answered>>

DeleteItem(c, i) ==
  \/ /\ Item[i] = "PHONE"
     /\ SetPhone(c, None)
     /\ UNCHANGED items
  \/ /\ Item[i] # "PHONE"
     /\ items' = [items EXCEPT ![c] = @ \ {Item[i]}]
     /\ UNCHANGED <<phoneItem, taker>>

\* The inserted keys are deleted last to first, without condition; one that
\* cannot be deleted is logged and left.
Rollback(c) ==
  /\ pc[c] = "rollback"
  /\ \/ /\ next[c] = 1
        /\ Goto(c, "fail")
        /\ UNCHANGED <<items, phoneItem, taker, next>>
     \/ /\ next[c] > 1
        /\ next' = [next EXCEPT ![c] = @ - 1]
        /\ DeleteItem(c, next[c] - 1) \/ UNCHANGED <<items, phoneItem, taker>>
        /\ UNCHANGED pc
  /\ UNCHANGED <<form, holder, result, reply, answered>>

-----------------------------------------------------------------------------
(* The end.                                                                *)

\* finalize_failure, and the exception goes on to the caller.
Fail(c) ==
  /\ pc[c] = "fail"
  /\ Finish(c, Answer("failed", None))
  /\ Release(c)
  /\ UNCHANGED <<form, items, phoneItem, taker, result, next, answered>>

\* finalize_success stores the result under the key, when there is one.
Commit(c) ==
  /\ pc[c] = "commit"
  /\ Goto(c, "answer")
  /\ result' = [k \in Key |-> IF k = form[c].key THEN c ELSE result[k]]
  /\ Release(c)
  /\ UNCHANGED <<form, items, phoneItem, taker, next, reply, answered>>

\* What follows, publishing and noting the event, cannot fail the request: its
\* errors are logged, and the result is returned.
Respond(c) ==
  /\ pc[c] = "answer"
  /\ Finish(c, Answer("created", c))
  /\ UNCHANGED <<form, items, phoneItem, taker, holder, result, next, answered>>

\* The invocation dies, before or after its finalization, or a finalization
\* raises, whether it took effect or not.
Crash(c) ==
  /\ pc[c] \notin {"idle", "done"}
  /\ Finish(c, Answer("crashed", None))
  /\ UNCHANGED <<form, items, phoneItem, taker, holder, result, next, answered>>

\* The lock of an invocation that ended without finalizing expires and is
\* reclaimed; invocations end before their locks do.
LockExpires(k) ==
  /\ holder[k] # None
  /\ pc[holder[k]] = "done"
  /\ holder' = [holder EXCEPT ![k] = None]
  /\ UNCHANGED <<form, items, phoneItem, taker, result, pc, next, reply, answered>>

\* The stored answer of a key expires.
Forget(k) ==
  /\ result[k] # None
  /\ result' = [result EXCEPT ![k] = None]
  /\ UNCHANGED <<form, items, phoneItem, taker, holder, pc, next, reply, answered>>

Step(c) ==
  \/ Arrive(c) \/ CheckPhone(c) \/ CheckDuplicate(c) \/ Transact(c)
  \/ FallbackPut(c) \/ Rollback(c) \/ Fail(c) \/ Commit(c) \/ Respond(c)

Next ==
  \/ \E c \in Creator : Step(c) \/ Crash(c)
  \/ \E k \in Key : LockExpires(k) \/ Forget(k)

Spec == Init /\ [][Next]_vars

-----------------------------------------------------------------------------
(* Properties.                                                             *)

\* Every variable keeps its type (create_rescue_request.py:118-229).
TypeOK ==
  /\ form \in [Creator -> Form]
  /\ items \in [Creator -> SUBSET OwnItem]
  /\ phoneItem \in [Phone -> Creator \cup {None}]
  /\ taker \in [Phone -> Creator \cup {None}]
  /\ holder \in [Key -> Creator \cup {None}]
  /\ result \in [Key -> Creator \cup {None}]
  /\ pc \in [Creator -> PC]
  /\ next \in [Creator -> 1 .. Len(Item)]
  /\ reply \in [Creator -> [kind : ReplyKind, request : Creator \cup {None}]]
  /\ answered \in [Creator -> SUBSET Creator]

\* The PHONE item names r, unless another creation has put its own or deleted it.
PhoneKept(r) ==
  LET p == form[r].phone IN phoneItem[p] = r \/ taker[p] \notin {r, None}

\* A request some caller was told of, by its creation or by a replay, has all
\* seven items.  The six of its own stay while other creations roll back; the
\* seventh, PHONE, its creation put and did not take back: it may only be lost to
\* another creation of the same phone, which puts over it without condition or
\* deletes it in its rollback (rescue_request_repository.py:180-197 and 318-322).
AnsweredIsWhole == \A r \in Told : items[r] = OwnItem /\ PhoneKept(r)

\* A key creates one request, also when its holder dies after the write, when
\* the outcome of the write is unknown, or when the stored answer has expired:
\* the phone check stops the retry (create_rescue_request.py:79-84).  Without
\* StaleReads only.
KeyCreatesOnce ==
  \A c, d \in Creator :
    (c # d /\ Keyed(c) /\ form[c].key = form[d].key) =>
      items[c] # OwnItem \/ items[d] # OwnItem

\* Once a caller was told of a request, a creation that starts later with the
\* same phone writes nothing, with or without a key, in whatever time window and
\* whatever became of the request, and leaves the PHONE item alone
\* (create_rescue_request.py:79-84).  The docs say otherwise: the time window is
\* there "so that a citizen can submit a new request for the same situation once
\* the window expires" (api-summary.md:1800-1801), and a phone has one active
\* request (data-model.md:32).  Without StaleReads only.
LaterIsRefused ==
  \A c, d \in Creator :
    (d \in answered[c] /\ form[c].phone = form[d].phone) =>
      items[c] = {} /\ taker[form[c].phone] # c

\* "If the first request succeeded but the response was lost, replay returns the
\* original body while the idempotency record is retained."
\* (SynchronousFunctionContract.md:309): the checks do not refuse a creation
\* whose key has created a request already.
LostAnswerIsReplayed ==
  [][\A c, d \in Creator :
       (/\ Keyed(c) /\ form[c].key = form[d].key
        /\ form[c].known /\ items[d] = OwnItem) =>
         ~(pc[c] = "phone" /\ reply'[c].kind = "refused")]_vars

\* "Phone uniqueness by `contactPhone` is still enforced globally."
\* (api-summary.md:1809): no two requests have one phone.
OneRequestPerPhone ==
  \A c, d \in Creator :
    (c # d /\ form[c].phone = form[d].phone) =>
      items[c] # OwnItem \/ items[d] # OwnItem
=============================================================================
