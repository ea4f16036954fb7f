--------------------------- MODULE RequestUpdates ---------------------------
(***************************************************************************)
(* Changes to the content of one rescue request: citizen updates           *)
(* (application/usecases/create_citizen_update.py) and patches by staff    *)
(* (patch_rescue_request.py).  Both reserve an idempotency key, check the  *)
(* request, write it by one or two unrelated writes, store the answer,     *)
(* publish an event and name that event on CURRENT as the one a            *)
(* prioritization result must answer.                                      *)
(*                                                                         *)
(* A command is one invocation, and one update.  Keys are taken as         *)
(* SingleFlight promises them; CURRENT is reduced to whether it is         *)
(* terminal and to its source event, which QueueIngest compares results    *)
(* with.  A stored answer outlives the horizon (24 hours).                 *)
(*                                                                         *)
(* Definitions whose name starts with Bug are wrong variants of the one    *)
(* that follows them; they are not part of the specification.              *)
(***************************************************************************)
EXTENDS FiniteSets

CONSTANTS
  Command,    \* invocations of either endpoint
  Key,        \* idempotency keys
  Field,      \* fields of the META item; updates write lastCitizenUpdateAt
  Touch,      \* the field lastCitizenUpdateAt
  None,
  StaleReads  \* may get_current_state miss that the request was closed?

ASSUME ConstantsAssumption ==
  /\ None \notin Command \cup Key
  /\ Touch \in Field
  /\ StaleReads \in BOOLEAN

VARIABLES
  form,       \* what each command submits
  closed,     \* is the status on CURRENT terminal?
  stored,     \* commands whose UPDATE item exists
  meta,       \* the command that last wrote each field of META
  source,     \* the command whose event is latestPrioritySourceEventId
  holder,     \* the command that locks each key
  result,     \* the command whose answer each key replays
  pc, reply,
  late,       \* history: commands that came after the closing
  wrote,      \* history: commands whose write of META took effect
  published   \* history: commands whose event was published

vars == <<form, closed, stored, meta, source, holder, result, pc, reply,
          late, wrote, published>>

-----------------------------------------------------------------------------
(* Types.                                                                  *)

\* valid: the body passes the checks that need no request; granted: the request
\* exists and, for an update, the tracking code is its own.
Form == [kind : {"update", "patch"}, key : Key \cup {None}, valid : BOOLEAN,
         granted : BOOLEAN, fields : SUBSET Field]

PC == {"idle", "check", "put", "meta", "fail", "commit", "publish", "name", "done"}

ReplyKind == {"none", "changed", "replayed", "refused", "failed", "crashed"}

Answer(k, c) == [kind |-> k, command |-> c]

Keyed(c) == form[c].key # None

SameKey(c, d) == Keyed(c) /\ form[c].key = form[d].key

-----------------------------------------------------------------------------
\* Commands of one key send one body: another one is refused at once.
Init ==
  /\ form \in [Command -> Form]
  /\ \A c \in Command : form[c].kind = "update" <=> form[c].fields = {Touch}
  /\ \A c \in Command :
       form[c].kind = "patch" =>
         /\ Touch \notin form[c].fields
         /\ form[c].fields = {} => ~form[c].valid
  /\ \A c, d \in Command : SameKey(c, d) => form[c] = form[d]
  /\ closed = FALSE
  /\ stored = {}
  /\ meta = [f \in Field |-> None]
  /\ source = None
  /\ holder = [k \in Key |-> None]
  /\ result = [k \in Key |-> None]
  /\ pc = [c \in Command |-> "idle"]
  /\ reply = [c \in Command |-> Answer("none", None)]
  /\ late = {}
  /\ wrote = {}
  /\ published = {}

Goto(c, where) == pc' = [pc EXCEPT ![c] = where]

Finish(c, answer) ==
  /\ Goto(c, "done")
  /\ reply' = [reply EXCEPT ![c] = answer]

Refuse(c) == Finish(c, Answer("refused", None))

\* A finalization ends the lock of the key of c.
Release(c) ==
  holder' = [k \in Key |-> IF k = form[c].key THEN None ELSE holder[k]]

-----------------------------------------------------------------------------
\* A malformed update is refused before its key is touched; a patch is not.
BadUpdate(c) == form[c].kind = "update" /\ ~form[c].valid

BugTwoHolders(c) == result[form[c].key] = None

Reservable(c) == result[form[c].key] = None /\ holder[form[c].key] = None

\* validate_required_fields and _validate_update_payload of an update, then
\* check_and_reserve if there is a key.
Arrive(c) ==
  /\ pc[c] = "idle"
  /\ late' = IF closed THEN late \cup {c} ELSE late
  /\ \/ /\ BadUpdate(c)
        /\ Refuse(c)
        /\ UNCHANGED holder
     \/ /\ ~BadUpdate(c)
        /\ ~Keyed(c)
        /\ Goto(c, "check")
        /\ UNCHANGED <<holder, reply>>
     \/ /\ ~BadUpdate(c)
        /\ Keyed(c)
        /\ Reservable(c)
        /\ holder' = [holder EXCEPT ![form[c].key] = c]
        /\ Goto(c, "check")
        /\ UNCHANGED reply
     \/ /\ ~BadUpdate(c)
        /\ Keyed(c)
        /\ ~Reservable(c)
        /\ IF result[form[c].key] = None THEN Refuse(c)
           ELSE Finish(c, Answer("replayed", result[form[c].key]))
        /\ UNCHANGED holder
  /\ UNCHANGED <<form, closed, stored, meta, source, result, wrote, published>>

BugTerminalUnchecked(c) == form[c].valid /\ form[c].granted

\* The fields of a patch, the request, the tracking code and the status.
Admitted(c) ==
  /\ form[c].valid
  /\ form[c].granted
  /\ ~closed \/ StaleReads

\* A check that fails, or a read that raises, finalizes nothing: the lock stays.
Check(c) ==
  /\ pc[c] = "check"
  /\ \/ /\ Admitted(c)
        /\ Goto(c, IF form[c].kind = "update" THEN "put" ELSE "meta")
        /\ UNCHANGED reply
     \/ Refuse(c)
  /\ UNCHANGED <<form, closed, stored, meta, source, holder, result, late, wrote, published>>

\* put_citizen_update, without condition.  A call that raises may have worked.
PutUpdate(c) ==
  /\ pc[c] = "put"
  /\ \/ /\ stored' = stored \cup {c}
        /\ Goto(c, "meta") \/ Goto(c, "fail")
     \/ /\ Goto(c, "fail")
        /\ UNCHANGED stored
  /\ UNCHANGED <<form, closed, meta, source, holder, result, reply, late, wrote, published>>

BugFailureIsSuccess(c) == Goto(c, "commit")

WriteFailed(c) == Goto(c, "fail")

\* update_master_fields, on condition that META exists; the expected version
\* of a patch goes unused.
WriteMeta(c) ==
  /\ pc[c] = "meta"
  /\ \/ /\ meta' = [f \in Field |-> IF f \in form[c].fields THEN c ELSE meta[f]]
        /\ wrote' = wrote \cup {c}
        /\ Goto(c, "commit") \/ WriteFailed(c)
     \/ /\ WriteFailed(c)
        /\ UNCHANGED <<meta, wrote>>
  /\ UNCHANGED <<form, closed, stored, source, holder, result, reply, late, published>>

\* finalize_failure, and the exception goes on to the caller.
Fail(c) ==
  /\ pc[c] = "fail"
  /\ Release(c)
  /\ Finish(c, Answer("failed", None))
  /\ UNCHANGED <<form, closed, stored, meta, source, result, late, wrote, published>>

BugCommitFailureIgnored(c) == Goto(c, "publish") /\ UNCHANGED reply

CommitFailed(c) == Finish(c, Answer("failed", None))

\* finalize_success.  If it raises the caller sees an error, whether or not the
\* answer was stored, and no event is published.
Commit(c) ==
  /\ pc[c] = "commit"
  /\ \/ /\ result' = [k \in Key |-> IF k = form[c].key THEN c ELSE result[k]]
        /\ Release(c)
        /\ \/ Goto(c, "publish") /\ UNCHANGED reply
           \/ Keyed(c) /\ CommitFailed(c)
     \/ /\ Keyed(c)
        /\ CommitFailed(c)
        /\ UNCHANGED <<holder, result>>
  /\ UNCHANGED <<form, closed, stored, meta, source, late, wrote, published>>

Succeed(c) == Finish(c, Answer("changed", c))

\* publish_citizen_updated.  Its failure is logged, and nothing is named.
Publish(c) ==
  /\ pc[c] = "publish"
  /\ \/ /\ published' = published \cup {c}
        /\ \/ Goto(c, "name") /\ UNCHANGED reply
           \/ Succeed(c)
     \/ /\ Succeed(c)
        /\ UNCHANGED published
  /\ UNCHANGED <<form, closed, stored, meta, source, holder, result, late, wrote>>

\* update_current_fields without a version: the last one to come is the source.
NameSource(c) ==
  /\ pc[c] = "name"
  /\ source' = c \/ UNCHANGED source
  /\ Succeed(c)
  /\ UNCHANGED <<form, closed, stored, meta, holder, result, late, wrote, published>>

\* A staff command or a mission ends the request.
Close ==
  /\ ~closed
  /\ closed' = TRUE
  /\ UNCHANGED <<form, stored, meta, source, holder, result, pc, reply, late, wrote, published>>

\* The invocation dies, or finalize_failure raises.
Crash(c) ==
  /\ pc[c] \notin {"idle", "done"}
  /\ Finish(c, Answer("crashed", None))
  /\ UNCHANGED <<form, closed, stored, meta, source, holder, result, late, wrote, published>>

\* The lock of a command that ended without finalizing expires and is
\* reclaimed; invocations end before their locks do.
LockExpires(k) ==
  /\ holder[k] # None
  /\ pc[holder[k]] = "done"
  /\ holder' = [holder EXCEPT ![k] = None]
  /\ UNCHANGED <<form, closed, stored, meta, source, result, pc, reply, late, wrote, published>>

Next ==
  \/ \E c \in Command :
       \/ Arrive(c) \/ Check(c) \/ PutUpdate(c) \/ WriteMeta(c) \/ Fail(c)
       \/ Commit(c) \/ Publish(c) \/ NameSource(c) \/ Crash(c)
  \/ Close
  \/ \E k \in Key : LockExpires(k)

Spec == Init /\ [][Next]_vars

-----------------------------------------------------------------------------
(* Properties.                                                             *)

\* Every variable keeps its type (create_citizen_update.py:75-90).
TypeOK ==
  /\ form \in [Command -> Form]
  /\ closed \in BOOLEAN
  /\ stored \in SUBSET Command
  /\ meta \in [Field -> Command \cup {None}]
  /\ source \in Command \cup {None}
  /\ holder \in [Key -> Command \cup {None}]
  /\ result \in [Key -> Command \cup {None}]
  /\ pc \in [Command -> PC]
  /\ reply \in [Command -> [kind : ReplyKind, command : Command \cup {None}]]
  /\ late \in SUBSET Command
  /\ wrote \in SUBSET Command
  /\ published \in SUBSET Command

\* Whoever is told of a change, by the invocation that made it or by a replay,
\* is told of one all whose writes took effect and whose fields hold its value
\* or that of a later change (create_citizen_update.py:92-127,
\* patch_rescue_request.py:55-80).
AnsweredIsWritten ==
  \A c \in Command :
    reply[c].kind \in {"changed", "replayed"} =>
      LET d == reply[c].command IN
      /\ d \in wrote
      /\ form[d].kind = "update" => d \in stored
      /\ \A f \in form[d].fields : meta[f] \in wrote

\* A key changes the request once, except for an invocation that failed or died
\* after its write (create_citizen_update.py:92-105: the item stays when the
\* second write fails).
RewrittenOnlyAfterFailure ==
  \A c, d \in Command :
    (c # d /\ SameKey(c, d) /\ {c, d} \subseteq stored \cup wrote) =>
      \E e \in {c, d} : reply[e].kind \in {"failed", "crashed"}

\* A key publishes one event, also when its invocations die or fail, since the
\* answer is stored before (create_citizen_update.py:120-150,
\* patch_rescue_request.py:73-98).
OneEventPerKey ==
  \A c, d \in Command :
    (c # d /\ SameKey(c, d)) => ~({c, d} \subseteq published)

\* The event a result must answer tells of a change that is written and, under
\* a key, can only be replayed from then on: no retry can make it stale.
SourceIsFinal ==
  source # None =>
    /\ source \in published \cap wrote
    /\ Keyed(source) => result[form[source].key] = source

WorkOn(k) == {holder[k]} \ {None}

KeyStore(k) ==
  INSTANCE SingleFlight WITH Attempt <- Command, running <- WorkOn(k), result <- result[k]

\* Whatever path a change takes (refused after its reservation, half written,
\* committed without an event, dead), what happens to its key is a step that
\* SingleFlight knows or none (create_citizen_update.py:48-60 and 96-127).
KeysAreSingleFlight ==
  /\ \A k \in Key : KeyStore(k)!Init
  /\ [][\A k \in Key : KeyStore(k)!Next \/ UNCHANGED KeyStore(k)!vars]_<<holder, result>>

\* A change asked for after the request was closed leaves no trace
\* (create_citizen_update.py:72-73, patch_rescue_request.py:52-53).  Without
\* StaleReads only.
ClosedIsLeftAlone ==
  \A c \in late :
    /\ c \notin stored \cup wrote \cup published
    /\ source # c
=============================================================================
