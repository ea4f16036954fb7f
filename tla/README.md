# Rescue request service: specifications, checks and proofs

Paths are relative to the repository (`src/` is its Python package). TLA+
modules are in this directory; `PROJECT.json` maps every definition to the
lines it models and lists runs, hazards, findings and theorems.

## 1. The system

Citizens submit rescue requests; staff assign, start, resolve or cancel them; a
prioritization service and a mission service send results over SQS; clients
follow events over SNS and a server-sent-event relay. Everything runs in AWS
Lambda over three DynamoDB tables. No process keeps state: an *invocation*
reads items, decides, and writes them back under DynamoDB conditions, next to
any number of other invocations. That gap between read and write is where the
system is hard.

| Component | State | Operations | What is hard | What makes it correct |
|---|---|---|---|---|
| Idempotency protocol (`idempotency_service.py`, `idempotency_repository.py`) | one `IdempotencyTable` item per key: status, owner, lock expiry, TTL, stored response | reserve, reclaim an expired lock, retry a failed key, replay, finalize success or failure | concurrent first calls, stale reads, lost responses, crashes, holders slower than their lock, TTL | one holder at a time; a result is stored once and replayed unchanged; the retry loop ends |
| Snapshot and history (`rescue_request_repository.py`, `state_transition_service.py`, `transition_rules.py`) | `CURRENT` item (status, `stateVersion`, unit, score, source event, mission), `EVENT#version` items | read, append event and update snapshot, update fields, non-transactional fallback | writers with old snapshots; two items that must agree; rollback without condition | history gap-free and chained, snapshot equals the last event, nothing moves after RESOLVED or CANCELLED |
| Staff commands (`append_status_event.py`, `handlers/commands`) | none | assign, start, resolve, cancel, triage, generic event | races with each other and with the consumers, If-Match | only legal transitions, with unit or reason where required |
| Prioritization results (`ingest_rescue_request_evaluation.py`) | none | correlation check, append | redelivery, stale results, visibility timeout against lock | a result applied once, and only to the context it answers |
| Mission progress (`ingest_mission_status_changed.py`) | none | event, or metadata only | reordering, no transition matrix | never backwards, always a unit |
| Priority endpoint (`update_rescue_request_priority.py`) | none | set score, level, note | checks terminal on an old snapshot | no change of a terminal request |
| Creation (`create_rescue_request.py`) | up to seven items of one request: MASTER, CURRENT, EVENT, TRACK, INCIDENT, PHONE, DUP | checks, transaction or fallback, publish, record source event | check-then-write on the phone, partial fallback | one active request per phone, all items or none |
| Citizen updates, patches (`create_citizen_update.py`, `patch_rescue_request.py`) | UPDATE items, MASTER fields | put, update, publish, record source event | second write failing, If-Match ignored | one update per key |
| Duplicate detection (`duplicate_rules.py`) | DUP items | signature over time bucket and geohash | boundaries | near submissions share a signature |
| Incident catalog (`sync_incident_catalog.py`) | catalog items with sequence and name | scheduled and manual sync | two syncs at once, a clearing inside a sync, stale scans | distinct sequences and names |
| Maintenance (`internal_maintenance.py`) | none | clear catalog or requests, delete orphans | paged scans without consistent reads, live writers, deaths between deletions | requests of settled incidents are spared, nothing deleted returns, nothing that a scan must show stays |
| Stream relay (`stream-service/src`) | lease item, event items, SSE cursor per connection | poll, persist, delete, stream | lease expiry, duplicates, late keys | stored before it is deleted, one poller at a time but for the tail, events missed only after an overrun |
| Publishing, parsers, read side, utilities, handlers, infrastructure | none | see `PROJECT.json` | best effort, pure functions, configuration | |

Interactions. Every mutating endpoint and both consumers run
`check_and_reserve`, then their work, then `finalize_*`. Staff commands,
consumers and the priority endpoint meet at the CURRENT item. Creation,
updates and patches publish an event and note its `messageId` on CURRENT; the
prioritization result must name that id.

## 2. Modules

### Idempotency

`Idempotency.tla` models one item (keys share nothing) and a set `Attempt` of
invocations that carry the key, each with a body fingerprint.

| TLA+ | Code |
|---|---|
| `Look` | `check_and_reserve` up to its decision: replay, refuse, or go on to a write |
| `Write` with `ReserveHolds`, `ReclaimHolds`, `RetryFailedHolds` | the three conditional writes; a lost response makes a successful write look failed |
| `RetryReservation` | `_retry_reservation`, bounded by `MaxRetries` |
| `Work` | the use case: succeeds, raises and records the failure, or raises on a path that records nothing |
| `Commit`, `Abort`, `Owns` | `finalize_success`, `finalize_failure` and their owner condition |
| `Respond` | what follows `finalize_success`: the result is returned, or something raises |
| `Crash`, `Tick`, `Sweep` | Lambda timeout or loss, the clock, DynamoDB TTL |

`stale` is the item's previous version: reads are eventually consistent, so
`Look` may see either; conditions of writes are evaluated on `rec`. `now` is
taken one statement before the read in the code and together with it in the
model; `now` earlier than the read makes a lock look younger, which only refuses
more. A `finalize_success` that raises is modelled, whether it stored the result
(`Commit`, then `Respond` with the error) or not (the error at once, or
`finalize_failure` by a consumer); a `finalize_failure` that raises is a crash.
As storing and answering are two steps, a replay may be the first answer anybody
gets of a result; `ReplayIsAuthentic` says so. One clock is read by
all; the deployed margin between a 30 s run and a 5 minute lock is what covers
skew. `SingleFlight.tla` is the abstract promise (one invocation at work, none
once a result is stored, until it is forgotten), `IdempotencyRefinement.tla`
the mapping: the invocations at work are those past their reservation, the
result is the body of a COMPLETED item.

### Request lifecycle

`RequestLifecycle.tla` models one request after its creation and a set `Writer`
of invocations. An invocation reads `current` and decides (`Transition`,
`IngestEvaluation`, `IngestMission`, `UpdatePriority`, `PublishSource`), which
fills its `job`; any number of steps of others later it writes
(`AppendEvent`, or `Amend`). A stale read is a read made earlier, so the model
needs no second copy of the item. `KeyTypeErrors` says whether the store may
cancel a transaction with a key type mismatch; then the code takes
`FallbackPut`, `FallbackUpdate`, `FallbackRollback`, where responses may be lost
and the rollback may fail. `Report` is the publication and answer; its content
is `job`. An invocation that is done may act again as another one. Rejected
requests write nothing and are not steps. Timestamps, notes, levels and meta
are left out; a score, unit, source event or mission status is a model value.
If-Match values are enumerated, 0 standing for an absent header.

`RequestHistory.tla` is what others may rely on: a sequence of statuses growing
by legal steps. `RequestLifecycleRefinement.tla` maps it to the statuses of the
events up to `stateVersion`.

### Request creation

`CreateRequest.tla` models a set `Creator` of invocations of
`create_rescue_request.execute`, each with what it submits (`form`) and the
items it has written (`items`).

| TLA+ | Code |
|---|---|
| `Arrive` | `check_and_reserve`, or no key |
| `CheckPhone`, `PhoneTaken` | `get_incident`, `find_by_phone_hash`: any tracking item of the phone |
| `CheckDuplicate` | `detect_duplicate`, without a key only |
| `Transact` | `transact_write_items` with its retries: takes effect, is cancelled, takes effect unnoticed, or is rejected for key types |
| `FallbackPut`, `Rollback` | `_put_items_with_rollback`, one conditional put or one unconditional delete at a time |
| `SetPhone`, `taker` | a put or deletion of `PHONE#hash` / `UNIQUE`, one item for all requests of a phone, and who made the last one |
| `Fail`, `Commit` | `finalize_failure`, `finalize_success` |
| `Respond`, `Told` | the result is returned after publishing; the requests somebody was told of |
| `Refuse`, `Crash`, `LockExpires`, `Forget` | a check that raises without finalizing, the loss of an invocation, expiry of lock and of stored answer |

The key is abstracted to its holder and its stored answer, which is what
`SingleFlight` offers and `Idempotency` is shown to implement;
`CreateRequestRefinement.tla` shows that creation uses it that way, so the two
models fit. An invocation ends before its lock expires (the `Timing` assumption
of the proofs below). `StaleReads` lets the queries by phone and signature miss
what was written, or still show what was deleted, at any time; DynamoDB gives no
bound for it. Validation of fields, which keeps no state, is left out; the
event published at the end is part of `RequestLifecycle`.

### Queue consumers

`QueueIngest.tla` models the two SQS consumers around one request: a set
`Message` in the two queues, a set `Invocation` of either consumer with its
batch, and one idempotency record per key.

| TLA+ | Code |
|---|---|
| `Send`, `Receive`, `DeadLetter` | SNS to SQS; the event source mapping with `BatchSize` and visibility timeout; the redrive policy with `maxReceiveCount` |
| `Raw`, `Correlation`, `ValidEvaluation`, `ValidMission` | the shapes the parsers tell apart, where the correlation id comes from, `_validate_message` |
| `Begin` with `Claimable`, `Replayable`, `Locked` | parse, validate, `check_and_reserve` |
| `ReadCurrent`, `WriteCurrent` | `get_current_state` with its checks; the append, or `update_current_fields`, under the version read |
| `Commit`, `Abort`, `Return` | `finalize_success`, `finalize_failure`, `batchItemFailures` |
| `PublishSource`, `NoteSource`, `StaffWrites` | the rest of the service, as far as it meets the consumers |
| `Fault`, `Crash`, `Tick` | a call that raises with or without effect, the loss of an invocation, time |

Both consumers run the same protocol, so one module has both; a batch is of one
kind. The snapshot is what they decide on: version, stage, source event, mission.
`check_and_reserve` is one step, as `Idempotency` shows it may be taken.
`hidden` counts down to visibility and on below zero, so that `Patience` can say
how long a visible message waits for a poll. Keys live 24 hours and messages
longer than the horizon; neither expires in the model. `QueueIngestRefinement.tla`
says that the consumers use their keys as `SingleFlight` allows: at work is the
content of the message in the hands of who holds the lock, the result is the
content stored with COMPLETED, and nobody else holds the key.

### Citizen updates and patches

`RequestUpdates.tla` models a set `Command` of invocations of either endpoint
on one request. `Arrive` is validation and `check_and_reserve` (a patch is
validated after it, an update before), `Check` the checks that finalize nothing
when they fail, `PutUpdate` and `WriteMeta` the two writes with every outcome,
`Fail` and `Commit` the finalizations, `Publish` and `NameSource` the event and
its record on CURRENT. `meta` remembers the last writer of each META field, so a
lost update shows as a field of another command. `Close` is whatever ends the
request.

### Catalog and maintenance

`IncidentCatalog.tla` models the sync call by call: `Fetch`, `Scan` (what the
sync knows), `Query` (the highest number, from the order index), and one `Put`
per fetched incident, where `RowFor` keeps number and name of a known one.
`ToAlpha` is `_to_alpha` over `Letters` letters, `Spell` its loop; it is kept
letter by letter because the names are distinct only by what it computes.
Nothing keeps other syncs or a deletion away from a sync. `older` holds what a
reader may still get of each row instead of the row: a scan and the order index
read any of the `Views`, row by row, until the row settles (`Settle`). `torn`
records that what a sync read has been out of date: a stale read, a deletion
between its scan and its query, or a put of another sync between its scan and
its end. `Maintenance.tla` extends it
with the five routes of the maintenance endpoint: a scan (`ScanItems`,
`ScanRows`), then one unconditional deletion at a time, in the order of each use
case, while requests are created (`CheckIncident`, `CreateItems`) and changed
(`ReadRequest`, then `AppendEvent`, or `PutUpdate`, `AmendMaster`,
`NameSource`). Only the existence of items is kept; LOOKUP stands for all that is
put once, with the request. `recent` holds the items put or deleted so lately
that a scan may or may not show them (`Scans`, `SettleItem`). `Listing` is what
the orphan route takes from its scan of the catalog (`ListIncidents`),
`ListMasters` its first scan of the requests, `ScanItems` the second.

### Stream relay

`StreamRelay.tla` models the pollers of `poller.mjs` with their remaining time,
the LOCK row, the log table and the browsers' cursors of `stream.mjs`. One
action per call: `AcquireLease`, `Receive`, `Normalize` (the time of the key),
`Persist`, `Delete`, `ReleaseLease`, each with its failure, and `Kill` at any
point. The service's events carry `header` and `body`, not `metadata`, so
`normalizeEvent` wraps each of them and every delivery gets a key of its own.
Times are the order in which entries were normalised; a query sees any prefix of
the writes.

Names that begin with `Bug` are wrong variants kept beside the definition they
vary; replacing the definition by its variant must break the property listed
with it in `PROJECT.json`, which shows that the property depends on that code.

## 3. Runs

| Run | Instance | Shows |
|---|---|---|
| `idempotency_deployed` | 3 attempts, 1 body, RunTime 1 < LockTime 2 < TTL 3, 1 retry, clock to 5 | `OneHolder`, `ExecutedApart`, `ImplementsSingleFlight` in the deployed order of times |
| `idempotency_slow` | 2 attempts, 2 bodies, LockTime 1 < RunTime 2, 2 retries, clock to 3 | what does not rest on timing: `CompletedIsFinal`, `OnlyOwnerFinalizes`, `ReplayIsAuthentic`, and `EveryAttemptEnds` under fairness |
| `lifecycle` | 2 writers, versions to 4, transactions | `HistoryAgrees`, `ReportsHistory`, `AssignedHasUnit`, `TerminalFreezes`, `EventsAppendOnly`, `ImplementsRequestHistory` |
| `lifecycle_fallback` | 2 writers, versions to 3, key type errors, no scores or sources | `TerminalFreezes` without transactions |
| `create_request` | 2 creators, 2 phones, 1 key, 2 signatures, key type errors, settled queries | `AnsweredIsWhole`, `KeyCreatesOnce`, `LaterIsRefused`, `KeysAreSingleFlight` |
| `queue_ingest` | 2 messages in four kinds of traffic, 2 invocations, 2 receives, visibility 1, RunTime 1 < LockTime 3, 2 faults | `AppliedOnce`, `CrashIsNotRepeated`, `DeletedIsDone`, `LockHasReason` |
| `queue_settles` | the same with two kinds of traffic, 1 fault | `EveryMessageSettles` under fairness |
| `request_updates` | 3 commands, 1 key, 2 fields | `AnsweredIsWritten`, `RewrittenOnlyAfterFailure`, `OneEventPerKey`, `SourceIsFinal`, `ClosedIsLeftAlone`, `KeysAreSingleFlight` |
| `maintenance` | 2 incidents, 2 syncs, 2 operations, 1 request with 1 event and 1 update, 2 letters, numbers to 3, in five interplays | `NamesDistinct`, `NamesStable`, `SparesKnown`, `NothingLeftBehind`, `NothingReturns` |
| `stream_relay` | 2 pollers with run time 3, lease 2, buffer 1; 2 messages, 2 entries, pages of 1, 1 browser | `NothingLost`, `WorkIsLeased`, `SkipsNeedOverrun` |
| `stale_evaluation` | 2 writers, 2 sources, versions to 3 | a disagreement with the documentation, below |
| `phone_unique` | 2 creators, 1 phone | a disagreement with the documentation, below |

Bounds. Three attempts are a first holder, one that reclaims or retries, and
one that meets the result; the clock bound lets a lock expire, be reclaimed,
and the record be swept and reserved anew. Two writers are what a lost update
takes, and as a writer that is done starts again, runs are not limited to two
invocations; version 4 reaches RESOLVED along the shortest staff path but one,
and a terminal state with a writer still holding an older version. Two creators
are a holder and its retry, or a creation and a rollback that meets it item by
item. Two messages are a message and its copy, or a failing neighbour in the
batch; two faults are a write that raised and a death; two receives let a
message be redelivered and dead-lettered, and `LockTime` 3 leaves the deployed
order `(MaxReceives - 1) * (Visibility + Patience) + RunTime < LockTime`
(2 * (60 + P) + 30 < 300 seconds: P, the wait for a poll, may be up to 74 s).
Three commands are a first holder, its retry, and one without the key. The feed
of the catalog brings an incident first, or both with an unusable row and a
repeated one, so that a sync continues the numbers of another, dead or not, and
names have two letters. All of `Maintenance` at once is out of TLC's reach:
`Scope` in `MCMaintenance.tla` takes five interplays, each in full with the rest
held still, namely two syncs and a clearing; orphans against a sync of two
incidents; orphans against a second operation that clears the catalog and a sync
that fills it again; every other operation against a sync and a creation; and
deletions against an event and an update, with no sync after the creation. It
leaves out states after a torn
read: of numbers and names nothing is claimed there, and to an operation a row
is a row whatever its number. The proofs have none of these restrictions.
The times of the relay keep the proportions of 60, 55 and 5 seconds; two entries
are what it takes for one to come late. `MaxClock`, `MaxVersion`, `MaxFaults`,
`MaxSequence` and `MaxStamp` are bounds of the models, not of the code.
Interchangeable values are reduced by symmetry in the safety runs; the runs with
liveness use none. Deadlock is not checked: once all invocations are done and
nobody acts, nothing has to happen.

Fairness. Only `Step(a)`, the calls of an invocation that has started, is weakly
fair: Lambda runs an invocation until it returns or is stopped. Clients need
not call, invocations need not crash, time need not advance and the sweeper
need not run. `queue_settles` adds what SQS does: queues are polled and redriven,
and time passes; nobody has to send, publish, note a source, or die.

What properties suppose. `KeyCreatesOnce`, `LaterIsRefused` and
`ClosedIsLeftAlone` are for settled reads (`StaleReads = FALSE`); what is proved
of creation for stale ones is below. `KeyCreatesOnce` also rests on one key
meaning one phone, which `Init` takes from the fingerprint check: once the
record of a key has been forgotten, a client may use the key with another body,
and that is another key to the model. `NamesDistinct` and `NamesStable` speak of
the time before the first `torn` read. Syncs are 30 minutes apart and end after
30 seconds, but nothing in the code keeps a retry, a manual call or a clearing
out of a sync, and no read waits for the catalog to settle. `SparesKnown` is
about incidents that every reader has got since the operation began, and
`NothingLeftBehind` excepts items written after the scan or `recent` at it: a
scan without consistent reads need show neither.

### Disagreements found with the documentation

Shown by a run:

* `NoStaleEvaluation`: `docs/prioritization-incident-sync.md:180`, "This
  prevents stale prioritization results from overwriting newer request
  context." Recording a newer source event does not change `stateVersion`, so a
  result checked before it is still written after it.
* `OneRequestPerPhone`: `docs/api-summary.md:1809`, "Phone uniqueness by
  `contactPhone` is still enforced globally." The query precedes the write, and
  the PHONE item is put without a condition: two creations both pass.

Stated in the modules; adding the property to a configuration of the module
(with transactions refused for the second) gives the trace:

* `TerminalScoreFrozen`: `docs/SynchronousFunctionContract.md:608`, "Terminal
  requests cannot be updated." Without If-Match the priority endpoint writes
  with no version condition after it checked an older snapshot.
* `EventsAppendOnly` with the fallback: `docs/data-model.md:29`, "Append-only
  status transition history". A failed fallback deletes the event under its
  version's key although it may be another writer's.
* `LostAnswerIsReplayed`: `docs/SynchronousFunctionContract.md:309`, "If the
  first request succeeded but the response was lost, replay returns the original
  body while the idempotency record is retained." When the write took effect but
  `finalize_success` was not reached, the retry is refused by the phone check.

Stated by a property that holds and says the opposite of the document:

* `LaterIsRefused`: `docs/api-summary.md:1800-1801`, the time bucket is there
  "so that a citizen can submit a new request for the same situation once the
  window expires", and `docs/data-model.md:32`, PHONE_UNIQUE "Enforces one active
  request per normalized phone hash". The phone check looks for any tracking item
  of the phone, whatever the status or the age of its request, so that a citizen
  can submit one request ever, until maintenance deletes it.

Left open by a property, which names the case as its only exception:

* `AnsweredIsWhole` and PHONE: `docs/data-model.md:32`, quoted above. Of two
  creations that both pass the phone check, one may put over the PHONE item of
  the other (the transaction has no condition), and its rollback deletes it by
  key: a request that was answered is left without the item. Nothing in the code
  reads PHONE but the condition of the fallback's put, so that what is lost is a
  guard, and the phone check still finds the request by its tracking item.
* `NamesDistinct` and `NamesStable` after a torn read:
  `docs/AsynchronousFunctionContract.md:452`, "Existing incident keeps existing
  `incidentName` and sequence." With one row in the catalog, a sync reads it
  (`sync_incident_catalog.py:16`), the catalog is cleared, and the sync starts
  at number 1 (line 17): it puts the old incident back with its 1 and gives a new
  one 1 too. Two syncs at once, or a scan that misses a row just put, do the same
  or give a known incident a new number. Without `torn \/` TLC finds both within
  nine states.
* `SparesKnown`: the orphan route (`internal_maintenance.py:37-48`) deletes the
  requests of an incident that was synchronized after its listing of the
  catalog, or so recently that the paged scan misses it.
* `NothingLeftBehind`: a deletion (`rescue_request_repository.py:60-91`) leaves
  what its scan missed, among it the tracking item that closes the phone.

## 4. Proofs

Eight modules named after the component they prove about, for every value of
the constants. Every safety property of the passing runs is the statement of a
theorem here.

Idempotency. `TypeCorrect` needs only the constants' types. `MutualExclusion`
and `Refinement` assume `Timing`: RunTime < LockTime <= TTL, as deployed. One
holder at a time is not inductive; the invariant `IInv` adds that nobody lives
past its deadline, that what an attempt read is not older than its start, that
a live holder owns the item, that a lock expires no later than its record, and
that a COMPLETED item has a body. The argument: a reclaim needs
`lockExpiresAt <= now`; the holder's lock was set to at least its start plus
LockTime, later than its deadline, so the holder is gone. The same invariant
makes every step a step of `SingleFlight` or a stutter. `CompletedStays` and
`OwnerFinalizes` assume no order of times: they rest on the owner token being
unique per attempt and try. `ReplaysAreAuthentic` has its own invariant `AInv`
(a stored body is that of an attempt with the same fingerprint whose work is
applied and which has stored it, and has since answered `executed`, or an error,
or nothing yet), also without timing. `ExecutionsAreApart`
needs both invariants and `Timing`: `RetentionInv` says that whatever is held
will be retained for TTL from a moment within the holder's run, and that
whatever was answered is still retained or its retention has passed; so a second
`executed` finds the first one's record expired. `ReservationsAreBounded` is the
part of `EveryAttemptEnds` that is not about fairness: every call of an attempt
lowers `CallsLeft`, a natural number of at most 2 * MaxRetries + 5, and nothing
else raises it.

Lifecycle. `TypeCorrect`, `AssignedRequestsHaveUnits` and
`TerminalRequestsFreeze` hold with and without transactions. Their invariant
`SInv` says that `stateVersion` identifies the status (a writer whose version is
still current read the status that is still current, and it was not terminal),
that a write without version condition carries no mission metadata, and that
whoever moves a request to a manned state names the unit or found it manned. `HistoryIsSound`, `ReportsAreKept`, `EventsStay` and
`Refinement` assume `KeyTypeErrors = FALSE`; their invariant `HInv` adds that no
writer is in the fallback and that a report in progress is in the history. `EventsAppendOnly` is
false without that assumption.

Creation. `TypeCorrect`, `KeysKept` and `AnsweredRequestsAreWhole` hold with and
without transactions and for stale queries. `HolderInv` says that who works
under a key holds it and that a held key has no answer; `WholeInv` relates where
a creation is to what it has written, and says that every stored or given
answer names a creation that is past its write with all its items. The six of
its own nobody touches afterwards; of PHONE it is the last to have put it, or
another creation is (`PhoneKept`). `KeysCreateOnce` and `LaterCreationsAreRefused` assume
`StaleReads = FALSE`. Their invariants say that who is past the phone check is
alone under its key on a phone no other creation of the key has written
(`OnceInv`), and that a creation which started after the answer to another with
its phone never gets past the check, and so never puts PHONE (`LaterInv`).

Queue consumers. `TypeCorrect` and `LocksHaveReasons` need no order of times;
the latter is inductive with the types. `DeletedMeansDone` and `WrittenOnce`
assume RunTime < LockTime. The core is `LockInv`: who works on a record holds
the lock of its key, which has at least as much more time than the invocation as
LockTime exceeds RunTime, or it is about to finalize a failure after its own
success was stored. So `Claimable` is false for everyone else
(`NotClaimable`), and nobody finalizes for another. `OutcomeInv` says that a
COMPLETED key was written or skipped, `BatchInv` that each message of a batch is
still to do, in hand, reported as failed, or settled with its own body, and
`CountInv` that writes are at most those whose invocation then failed or died,
and one more if the key is COMPLETED or about to be.

`DeathIsNotRepeated` assumes `Prompt`, the inequality of section 3, and
`DeployedIsPrompt` shows that the deployed seconds satisfy it when a visible
message waits less than 75 seconds for a poll. The hard part is a sum of times
over receives: `OutlastsInv` says, of a message whose key nobody else carries,
that a lock in progress lasts longer than the invocation that has the message
and longer than any that may still receive it (`Reach`, which shrinks with every
receive and every tick at least as fast as the lock). Hence `OrphanInv`: what a
dead invocation has written stays locked until the message is gone, so that the
key is not claimed again and the count stays at one. `KeysKept` says that the
consumers keep to `SingleFlight`, key by key; it is proved and in no
configuration, as the abstract attempts are all contents of messages, whose set
TLC would enumerate at each step.

Updates and patches. `KInv` (holders work under their key and no answer is
stored beside them) gives `KeysKept`; `IInv` adds what each command has written
by where it stands, that stored answers are whole, and that a command which has
written is at work, answered, or failed. `ClosedStays` assumes settled reads and
rests on `LateInv`: who comes after the closing is refused at its check.

Catalog. The letters of `ToAlpha` are the recursive function `Spell`, and the
induction about it is made
over sets: the numbers without the wanted property, if there are any, have a
least one (`LeastNatural`), which `NatLessThanWellFounded` gives. That the
equation of its definition has a solution at all comes first (`NamesExist` and
`NamesAgree` build it from the tables of the names up to a number); then its
values are sequences of letters (`SpellType`) and no two numbers share one
(`SpellInjective`), since a number is determined by its last letter and the
number of the rest. `ToAlpha` replaces the empty sequence by "A", so that 0 and 1
share a name: `NamesAreLetters` is about all numbers, `NamesAreUnique` about
those from 1 on, the ones `IsNext` gives.

Maintenance. `TypeCorrect` takes the type of names from there. No theorem has a
hypothesis on who runs when or on what is read. `NamesDiffer` and `NamesStay`
share `NumberInv`: before the first torn read, a name is made of its number and
numbers are distinct; a sync between its scan and its query knows the rows as
they are; and one that puts knows distinct numbers, among them every row as it
is stored (`Reading`), all below its next. A deletion while it puts leaves that
true, which is why it needs no exception.
`DeletedStaysDeleted`: all writes but the creation and the put of an update are
conditioned on the item. `KnownAreSpared` rests on `ShownStays` (a row that every
reader gets stays one until it is deleted, as syncs put and never delete) and
`SparingInv`: an incident in `kept` is in any listing, so none of its requests
is an orphan, doomed, or removed from. `AllIsCleared` rests on `ClearingInv`: an
item of a target that exists is doomed or fresh until the deletions are done, and
fresh afterwards, since a scan misses recent items only, and these are fresh.

Relay. `WorkLeased` is inductive with the types: the lease was taken with
LeaseTime to go when at most RunTime was left, and both run down together.
`NoMessageIsLost` needs that who is about to delete has stored (`StoredFirst`).
`SkipsComeFromOverruns` rests on `LogInv`: stamps are distinct, entries out of
order were written late or after one that was, and a poller that holds its lease
has only late entries before it with a later stamp; a page is the lowest keys
beyond the cursor, so a skipped entry was not yet visible when a later one was
sent.

`RunTime < LockTime`, `Timing` and `Prompt` are what the deployed configuration
gives; `StaleReads` and `KeyTypeErrors` are the two hypotheses that the code does
not ensure, and section 3 says what happens without them.

The types of `CreateRequest`, `QueueIngest`, `RequestUpdates` and `StreamRelay`
are proved (`TypeCorrect` of each) and in no configuration; those of the other
modules are checked as well.

Model-checked only: `EveryAttemptEnds` and `EveryMessageSettles`. Liveness under
fairness needs ENABLED, which is outside the prover.

## 5. Not modelled

* The read side: queries without effect. They may see the states the models
  allow between two writes.
* Composition of `Idempotency` with each use case: the consumers, creation,
  updates and patches take a key as `SingleFlight` promises it, and are shown to
  use it that way; staff commands and the priority endpoint are modelled without
  their key, so a retry of theirs is one more writer.
* Event publishing: best effort calls whose failure is logged; where the message
  id comes back into the state it is an action.
* The time bucket and geohash of the duplicate signature, hashes, fingerprints,
  masking, phone normalisation: functions over strings whose results are opaque
  values of the models.
* Field validation is one well-formedness of a body; HTTP parsing, API keys and
  error codes keep no state.
* Limits of the code that no property is about: the order index of the catalog
  pads numbers to six digits, so that beyond 999999 the highest is not first
  (`sync_incident_catalog.py:51`); the list of events since a version has no
  upper bound on its key range (`rescue_request_repository.py:425`), so that
  items with later keys are in it; submissions on both sides of a time bucket
  or geohash boundary have different signatures (`duplicate_rules.py:26`); and
  a death between deletions may leave items without their MASTER, which the
  orphan route does not find, as it starts from the MASTER items.
* Retention: keys and log rows expire after a day, messages after four; beyond
  `Sweep` and `Forget` no horizon of the models is that long.
* Templates beyond their timeouts, queues, schedules and TTL settings.
