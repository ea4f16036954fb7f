---------------------------- MODULE Maintenance ----------------------------
(***************************************************************************)
(* The five maintenance operations (application/usecases/                  *)
(* internal_maintenance.py, handlers/internal/maintenance.py) over the     *)
(* catalog of incidents and the items of the requests, while incidents are *)
(* synchronized and requests are created and changed.                      *)
(*                                                                         *)
(* An operation scans a table, page by page and without consistent reads,  *)
(* and then deletes what it saw item by item; nothing locks the tables.    *)
(* What was written or deleted recently may or may not be seen, each item  *)
(* for itself.                                                             *)
(*                                                                         *)
(* Of the writers of a request (see CreateRequest, RequestLifecycle and    *)
(* RequestUpdates) only what decides which items exist is kept: MASTER,    *)
(* CURRENT, LOOKUP for all that is put once, with the request (the first   *)
(* event, and the items under PHONE, TRACK, INCIDENT and DUP), and an item *)
(* for each later event and update.                                        *)
(***************************************************************************)
EXTENDS IncidentCatalog

CONSTANTS
  Request,    \* requests that may be created
  Event,      \* later status events of a request
  Update,     \* citizen updates of a request
  Operation   \* invocations of the maintenance endpoint

ASSUME MaintenanceAssumption ==
  /\ (Event \cup Update) \cap {"MASTER", "CURRENT", "LOOKUP"} = {}
  /\ Event \cap Update = {}
  /\ None \notin Event \cup Update \cup {"MASTER", "CURRENT"}

VARIABLES
  incident,   \* incident of each request
  item,       \* items of each request that exist
  recent,     \* <<request, item>> put or deleted so recently that a reader may
              \* or may not see the item
  creating,   \* creation of each request: new, checked, made
  changing,   \* the item the writer of each request puts next, if any
  used,       \* <<request, item>>: events and updates writers have begun
  kind,       \* route of each operation
  phase,      \* where it is
  listed,     \* incidents it has read
  orphan,     \* requests it found without an incident
  doomed,     \* items it is going to delete: <<request, item>>
  condemned,  \* rows it is going to delete
  kept,       \* history: incidents every reader has got since it began
  fresh,      \* history: items written since it scanned, or recent then
  removed     \* history: requests an operation on orphans deleted items of

requestVars == <<incident, item, recent, creating, changing, used>>
operationVars == <<kind, phase, listed, orphan, doomed, condemned>>
historyVars == <<kept, fresh, removed>>
vars == <<catalogVars, requestVars, operationVars, historyVars>>

-----------------------------------------------------------------------------
(* Types.                                                                  *)

FirstItems == {"MASTER", "CURRENT", "LOOKUP"}

Item == FirstItems \cup Event \cup Update

Kind == {"catalog", "withRequests", "requests", "all", "orphaned"}

Phase == {"idle", "list", "masters", "scan", "items", "rows", "drop", "done", "dead"}

Init ==
  /\ CatalogInit
  /\ incident \in [Request -> Incident]
  /\ item = [r \in Request |-> {}]
  /\ recent = {}
  /\ creating = [r \in Request |-> "new"]
  /\ changing = [r \in Request |-> None]
  /\ used = {}
  /\ kind \in [Operation -> Kind]
  /\ phase = [o \in Operation |-> "idle"]
  /\ listed = [o \in Operation |-> {}]
  /\ orphan = [o \in Operation |-> {}]
  /\ doomed = [o \in Operation |-> {}]
  /\ condemned = [o \in Operation |-> {}]
  /\ kept = [o \in Operation |-> {}]
  /\ fresh = [o \in Operation |-> {}]
  /\ removed = [o \in Operation |-> {}]

-----------------------------------------------------------------------------
(* Readers of requests.                                                    *)

There == {x \in Request \X Item : x[2] \in item[x[1]]}

\* What a scan of the table may give.
Scans == {(There \ recent) \cup new : new \in SUBSET recent}

\* Every reader sees, or misses, item x now.
SettleItem(x) ==
  /\ recent' = recent \ {x}
  /\ UNCHANGED <<catalogVars, incident, item, creating, changing, used, operationVars, historyVars>>

-----------------------------------------------------------------------------
(* Writers of requests.                                                    *)

Wrote(r, new) ==
  /\ item' = [item EXCEPT ![r] = @ \cup new]
  /\ recent' = recent \cup ({r} \X (new \ item[r]))
  /\ fresh' = [o \in Operation |->
                IF phase[o] \in {"items", "rows", "drop", "done"}
                THEN fresh[o] \cup ({r} \X new) ELSE fresh[o]]

\* create_rescue_request finds the incident ...
CheckIncident(r) ==
  /\ creating[r] = "new"
  /\ Shown(incident[r]) # {NoRow}
  /\ creating' = [creating EXCEPT ![r] = "checked"]
  /\ UNCHANGED <<catalogVars, incident, item, recent, changing, used, operationVars, historyVars>>

\* ... and later writes the request by one transaction.
CreateItems(r) ==
  /\ creating[r] = "checked"
  /\ creating' = [creating EXCEPT ![r] = "made"]
  /\ Wrote(r, FirstItems)
  /\ UNCHANGED <<catalogVars, incident, changing, used, operationVars, kept, removed>>

\* A writer has read the request and admitted its change: a status event or a
\* citizen update.
ReadRequest(r) ==
  /\ changing[r] = None
  /\ {r} \X {"MASTER", "CURRENT"} \subseteq There \cup recent
  /\ \E i \in Event \cup Update :
       /\ <<r, i>> \notin used
       /\ used' = used \cup {<<r, i>>}
       /\ changing' = [changing EXCEPT ![r] = i]
  /\ UNCHANGED <<catalogVars, incident, item, recent, creating, operationVars, historyVars>>

BugUpsert(r, i) == TRUE

\* The version condition of append_event_and_update_current, and
\* attribute_exists of update_current_fields and update_master_fields.
StillThere(r, i) == i \in item[r]

Change(r, then) ==
  /\ changing' = [changing EXCEPT ![r] = then]
  /\ UNCHANGED <<catalogVars, incident, creating, used, operationVars, kept, removed>>

\* append_event_and_update_current.
AppendEvent(r) ==
  /\ changing[r] \in Event
  /\ StillThere(r, "CURRENT")
  /\ Wrote(r, {changing[r], "CURRENT"})
  /\ Change(r, None)

\* put_citizen_update, without condition ...
PutUpdate(r) ==
  /\ changing[r] \in Update
  /\ Wrote(r, {changing[r]})
  /\ Change(r, "MASTER")

\* ... update_master_fields ...
AmendMaster(r) ==
  /\ changing[r] = "MASTER"
  /\ StillThere(r, "MASTER")
  /\ Wrote(r, {"MASTER"})
  /\ Change(r, "CURRENT")

\* ... and the source event by update_current_fields.
NameSource(r) ==
  /\ changing[r] = "CURRENT"
  /\ StillThere(r, "CURRENT")
  /\ Wrote(r, {"CURRENT"})
  /\ Change(r, None)

\* A condition fails, a call raises, or the invocation dies.
GiveUp(r) ==
  /\ changing[r] # None
  /\ Change(r, None)
  /\ UNCHANGED <<item, recent, fresh>>

-----------------------------------------------------------------------------
(* Operations.                                                             *)

Goto(o, where) == phase' = [phase EXCEPT ![o] = where]

\* _resolve_operation.
Begin(o) ==
  /\ phase[o] = "idle"
  /\ \/ /\ kind[o] = "orphaned"
        /\ kept' = [kept EXCEPT ![o] = {i \in Incident : NoRow \notin Shown(i)}]
        /\ Goto(o, "list")
     \/ /\ kind[o] = "catalog"
        /\ Goto(o, "rows")
        /\ UNCHANGED kept
     \/ /\ kind[o] \in {"withRequests", "requests", "all"}
        /\ Goto(o, "scan")
        /\ UNCHANGED kept
  /\ UNCHANGED <<catalogVars, requestVars, kind, listed, orphan, doomed, condemned, fresh, removed>>

BugFirstPage(v) == {i \in Rows(v) : \A j \in Rows(v) : v[i].sequence <= v[j].sequence}

\* The ids of list_all_incidents, of all pages.
Listing(v) == Rows(v)

ListIncidents(o) ==
  /\ phase[o] = "list"
  /\ \E v \in Views : listed' = [listed EXCEPT ![o] = Listing(v)]
  /\ Goto(o, "masters")
  /\ UNCHANGED <<catalogVars, requestVars, kind, orphan, doomed, condemned, historyVars>>

\* The incident of a request is not among those listed.
Orphaned(o, r) == incident[r] \notin listed[o]

\* list_request_master_refs; without orphans nothing is scanned again.
ListMasters(o) ==
  /\ phase[o] = "masters"
  /\ \E seen \in Scans :
       LET found == {r \in Request : <<r, "MASTER">> \in seen /\ Orphaned(o, r)} IN
       /\ orphan' = [orphan EXCEPT ![o] = found]
       /\ Goto(o, IF found = {} THEN "done" ELSE "scan")
  /\ UNCHANGED <<catalogVars, requestVars, kind, listed, doomed, condemned, historyVars>>

Targets(o) == IF kind[o] = "orphaned" THEN orphan[o] ELSE Request

BugOwnPartition(seen, targets) == {x \in seen : x[1] \in targets /\ x[2] # "LOOKUP"}

\* Every item names its request, those under other partitions too.
ItemsOf(seen, targets) == {x \in seen : x[1] \in targets}

\* _scan_request_keys_and_refs.
ScanItems(o) ==
  /\ phase[o] = "scan"
  /\ \E seen \in Scans : doomed' = [doomed EXCEPT ![o] = ItemsOf(seen, Targets(o))]
  /\ fresh' = [fresh EXCEPT ![o] = recent]
  /\ Goto(o, "items")
  /\ UNCHANGED <<catalogVars, requestVars, kind, listed, orphan, condemned, kept, removed>>

\* One delete_item of the batch, without condition.
DeleteItem(o) ==
  \E x \in doomed[o] :
    /\ phase[o] = "items"
    /\ doomed' = [doomed EXCEPT ![o] = @ \ {x}]
    /\ item' = [item EXCEPT ![x[1]] = @ \ {x[2]}]
    /\ recent' = IF x \in There THEN recent \cup {x} ELSE recent
    /\ removed' = [removed EXCEPT ![o] = @ \cup {x[1]}]
    /\ UNCHANGED <<catalogVars, incident, creating, changing, used, kind, phase, listed, orphan,
                   condemned, kept, fresh>>

ItemsDone(o) ==
  /\ phase[o] = "items"
  /\ doomed[o] = {}
  /\ Goto(o, IF kind[o] \in {"withRequests", "all"} THEN "rows" ELSE "done")
  /\ UNCHANGED <<catalogVars, requestVars, kind, listed, orphan, doomed, condemned, historyVars>>

\* The scan of delete_all_incidents.
ScanRows(o) ==
  /\ phase[o] = "rows"
  /\ \E v \in Views : condemned' = [condemned EXCEPT ![o] = Rows(v)]
  /\ Goto(o, "drop")
  /\ UNCHANGED <<catalogVars, requestVars, kind, listed, orphan, doomed, historyVars>>

DropRow(o) ==
  \E i \in condemned[o] :
    /\ phase[o] = "drop"
    /\ DeleteRow(i)
    /\ condemned' = [condemned EXCEPT ![o] = @ \ {i}]
    /\ kept' = [p \in Operation |-> kept[p] \ {i}]
    /\ UNCHANGED <<requestVars, kind, phase, listed, orphan, doomed, fresh, removed>>

RowsDone(o) ==
  /\ phase[o] = "drop"
  /\ condemned[o] = {}
  /\ Goto(o, "done")
  /\ UNCHANGED <<catalogVars, requestVars, kind, listed, orphan, doomed, condemned, historyVars>>

\* A call raises, or the invocation dies: what is deleted stays deleted.
Crash(o) ==
  /\ phase[o] \notin {"idle", "done", "dead"}
  /\ Goto(o, "dead")
  /\ doomed' = [doomed EXCEPT ![o] = {}]
  /\ condemned' = [condemned EXCEPT ![o] = {}]
  /\ listed' = [listed EXCEPT ![o] = {}]
  /\ orphan' = [orphan EXCEPT ![o] = {}]
  /\ UNCHANGED <<catalogVars, requestVars, kind, historyVars>>

Next ==
  \/ /\ (\E s \in Sync : SyncStep(s)) \/ (\E i \in Incident : Settle(i))
     /\ UNCHANGED <<requestVars, operationVars, historyVars>>
  \/ \E x \in recent : SettleItem(x)
  \/ \E r \in Request :
       \/ CheckIncident(r) \/ CreateItems(r) \/ ReadRequest(r)
       \/ AppendEvent(r) \/ PutUpdate(r) \/ AmendMaster(r) \/ NameSource(r) \/ GiveUp(r)
  \/ \E o \in Operation :
       \/ Begin(o) \/ ListIncidents(o) \/ ListMasters(o) \/ ScanItems(o) \/ DeleteItem(o) \/ ItemsDone(o)
       \/ ScanRows(o) \/ DropRow(o) \/ RowsDone(o) \/ Crash(o)

Spec == Init /\ [][Next]_vars

-----------------------------------------------------------------------------
(* Properties.                                                             *)

\* Every variable keeps its type (sync_incident_catalog.py:44-56,
\* internal_maintenance.py:37-53).
TypeOK ==
  /\ CatalogTypeOK
  /\ incident \in [Request -> Incident]
  /\ item \in [Request -> SUBSET Item]
  /\ recent \subseteq Request \X Item
  /\ creating \in [Request -> {"new", "checked", "made"}]
  /\ changing \in [Request -> Event \cup Update \cup {"MASTER", "CURRENT", None}]
  /\ used \subseteq Request \X (Event \cup Update)
  /\ kind \in [Operation -> Kind]
  /\ phase \in [Operation -> Phase]
  /\ listed \in [Operation -> SUBSET Incident]
  /\ orphan \in [Operation -> SUBSET Request]
  /\ doomed \in [Operation -> SUBSET (Request \X Item)]
  /\ condemned \in [Operation -> SUBSET Incident]
  /\ kept \in [Operation -> SUBSET Incident]
  /\ fresh \in [Operation -> SUBSET (Request \X Item)]
  /\ removed \in [Operation -> SUBSET Request]

\* Deleting orphans spares every request whose incident was in the catalog for
\* every reader when it began and has been since, whatever syncs and other
\* operations do meanwhile (internal_maintenance.py:37-48).  An incident synced
\* so recently that the listing misses it is not spared: its requests go.
SparesKnown ==
  \A o \in Operation : kind[o] = "orphaned" => \A r \in removed[o] : incident[r] \notin kept[o]

\* What an operation deleted is not brought back by a writer that read the
\* request before: MASTER and CURRENT are gone for good
\* (rescue_request_repository.py:529-537, 596 and 617).
NothingReturns ==
  [][\A r \in Request :
       creating[r] = "made" =>
         (item'[r] \ item[r]) \cap {"MASTER", "CURRENT"} = {}]_vars

\* An operation that ended left no item of the requests it was to delete but
\* those written after its scan or so recently before that the scan need not
\* have seen them; all others, phones and signatures too, are free again
\* (rescue_request_repository.py:60-91).
NothingLeftBehind ==
  \A o \in Operation :
    (phase[o] = "done" /\ kind[o] # "catalog") =>
      \A r \in Targets(o) : {r} \X item[r] \subseteq fresh[o]
=============================================================================
