------------------------- MODULE MaintenanceProofs -------------------------
(***************************************************************************)
(* Proofs about Maintenance, for any requests, incidents, operations and   *)
(* syncs.  What is needed of ToAlpha is in IncidentCatalogProofs.          *)
(***************************************************************************)
EXTENDS Maintenance, IncidentCatalogProofs

-----------------------------------------------------------------------------
(* What is read and deleted.                                               *)

\* The types of what operations and writers of requests work on.
Typed ==
  /\ item \in [Request -> SUBSET Item]
  /\ recent \subseteq Request \X Item
  /\ kind \in [Operation -> Kind]
  /\ phase \in [Operation -> Phase]
  /\ listed \in [Operation -> SUBSET Incident]
  /\ orphan \in [Operation -> SUBSET Request]
  /\ doomed \in [Operation -> SUBSET (Request \X Item)]
  /\ condemned \in [Operation -> SUBSET Incident]
  /\ kept \in [Operation -> SUBSET Incident]
  /\ fresh \in [Operation -> SUBSET (Request \X Item)]
  /\ removed \in [Operation -> SUBSET Request]

LEMMA TypedInit == Init => Typed
<1> SUFFICES ASSUME Init PROVE Typed
  OBVIOUS
<1>1. phase \in [Operation -> Phase]
  BY DEF Init, Phase
<1>2. kind \in [Operation -> Kind]
  BY DEF Init
<1> QED
  BY <1>1, <1>2 DEF Init, Typed

LEMMA WroteType ==
  ASSUME Typed, NEW r \in Request, NEW new \in SUBSET Item, Wrote(r, new)
  PROVE  /\ item' \in [Request -> SUBSET Item]
         /\ recent' \subseteq Request \X Item
         /\ fresh' \in [Operation -> SUBSET (Request \X Item)]
BY DEF Wrote, Typed

\* What changes rows apart from DropRow.
Catalog ==
  /\ (\E s \in Sync : SyncStep(s)) \/ (\E i \in Incident : Settle(i))
  /\ UNCHANGED <<requestVars, operationVars, historyVars>>

\* The other steps that change neither items nor operations.
Idle ==
  \/ \E x \in recent : SettleItem(x)
  \/ \E r \in Request : CheckIncident(r) \/ ReadRequest(r) \/ GiveUp(r)
  \/ UNCHANGED vars

Outside == Catalog \/ Idle

\* The steps that write items of a request.
Write(r) ==
  CreateItems(r) \/ AppendEvent(r) \/ PutUpdate(r) \/ AmendMaster(r) \/ NameSource(r)

LEMMA OutsideFrame ==
  Outside => /\ UNCHANGED <<incident, item, kind, phase, listed, orphan, doomed, condemned, kept, fresh, removed>>
             /\ recent' \subseteq recent
BY DEF Outside, Catalog, Idle, SettleItem, CheckIncident, ReadRequest, GiveUp, Change, requestVars,
       operationVars, historyVars, vars

LEMMA IdleFrame == Idle => UNCHANGED catalogVars
BY DEF Idle, SettleItem, CheckIncident, ReadRequest, GiveUp, Change, vars

LEMMA WriteFrame ==
  ASSUME NEW r \in Request, Write(r)
  PROVE  /\ UNCHANGED <<catalogVars, incident, kind, phase, listed, orphan, doomed, condemned, kept, removed>>
         /\ \E new \in SUBSET Item : Wrote(r, new)
BY DEF Write, CreateItems, AppendEvent, PutUpdate, AmendMaster, NameSource, Change,
       operationVars, FirstItems, Item

\* A step of an operation other than its deletions keeps the items.
LEMMA StepCases ==
  [Next]_vars =>
    \/ Outside
    \/ \E r \in Request : Write(r)
    \/ \E o \in Operation :
         \/ Begin(o) \/ ListIncidents(o) \/ ListMasters(o) \/ ScanItems(o) \/ DeleteItem(o)
         \/ ItemsDone(o) \/ ScanRows(o) \/ DropRow(o) \/ RowsDone(o) \/ Crash(o)
BY DEF Next, Outside, Catalog, Idle, Write

LEMMA TypedNext == Typed /\ [Next]_vars => Typed'
<1> SUFFICES ASSUME Typed, [Next]_vars PROVE Typed'
  OBVIOUS
<1> USE DEF requestVars, historyVars, Goto
<1>1. CASE Outside
  BY <1>1, OutsideFrame DEF Typed
<1>2. ASSUME NEW r \in Request, Write(r) PROVE Typed'
  BY <1>2, WriteFrame, WroteType DEF Typed
<1>4. ASSUME NEW o \in Operation, Begin(o) PROVE Typed'
  <2>1. kept' \in [Operation -> SUBSET Incident]
    BY <1>4 DEF Begin, Typed
  <2>2. phase' \in [Operation -> Phase]
    BY <1>4 DEF Begin, Typed, Phase
  <2> QED
    BY <1>4, <2>1, <2>2 DEF Begin, Typed
<1>3. ASSUME NEW o \in Operation, ListIncidents(o) PROVE Typed'
  <2>1. listed' \in [Operation -> SUBSET Incident]
    BY <1>3 DEF ListIncidents, Listing, Rows, Typed
  <2>2. phase' \in [Operation -> Phase]
    BY <1>3 DEF ListIncidents, Typed, Phase
  <2> QED
    BY <1>3, <2>1, <2>2 DEF ListIncidents, Typed
<1>5. ASSUME NEW o \in Operation, ListMasters(o) PROVE Typed'
  <2>1. orphan' \in [Operation -> SUBSET Request]
    BY <1>5 DEF ListMasters, Typed
  <2>2. phase' \in [Operation -> Phase]
    BY <1>5 DEF ListMasters, Typed, Phase
  <2> QED
    BY <1>5, <2>1, <2>2 DEF ListMasters, Typed
<1>6. ASSUME NEW o \in Operation, ScanItems(o) PROVE Typed'
  <2>1. PICK seen \in Scans : doomed' = [doomed EXCEPT ![o] = ItemsOf(seen, Targets(o))]
    BY <1>6 DEF ScanItems
  <2>2. ItemsOf(seen, Targets(o)) \subseteq Request \X Item
    BY DEF ItemsOf, Scans, There, Typed
  <2>3. doomed' \in [Operation -> SUBSET (Request \X Item)]
    BY <2>1, <2>2 DEF Typed
  <2>4. fresh' \in [Operation -> SUBSET (Request \X Item)]
    BY <1>6 DEF ScanItems, Typed
  <2>5. phase' \in [Operation -> Phase]
    BY <1>6 DEF ScanItems, Typed, Phase
  <2> QED
    BY <1>6, <2>3, <2>4, <2>5 DEF ScanItems, Typed
<1>7. ASSUME NEW o \in Operation, DeleteItem(o) PROVE Typed'
  <2>1. PICK x \in doomed[o] :
          /\ doomed' = [doomed EXCEPT ![o] = @ \ {x}]
          /\ item' = [item EXCEPT ![x[1]] = @ \ {x[2]}]
          /\ recent' = IF x \in There THEN recent \cup {x} ELSE recent
          /\ removed' = [removed EXCEPT ![o] = @ \cup {x[1]}]
    BY <1>7 DEF DeleteItem
  <2>2. x \in Request \X Item
    BY DEF Typed
  <2>3. recent' \subseteq Request \X Item
    BY <2>1, <2>2 DEF Typed
  <2> QED
    BY <1>7, <2>1, <2>2, <2>3 DEF DeleteItem, Typed
<1>8. ASSUME NEW o \in Operation, ItemsDone(o) PROVE Typed'
  <2>1. phase' \in [Operation -> Phase]
    BY <1>8 DEF ItemsDone, Typed, Phase
  <2> QED
    BY <1>8, <2>1 DEF ItemsDone, Typed
<1>9. ASSUME NEW o \in Operation, ScanRows(o) \/ RowsDone(o) PROVE Typed'
  <2>1. phase' \in [Operation -> Phase]
    BY <1>9 DEF ScanRows, RowsDone, Typed, Phase
  <2>2. condemned' \in [Operation -> SUBSET Incident]
    BY <1>9 DEF ScanRows, RowsDone, Rows, Typed
  <2> QED
    BY <1>9, <2>1, <2>2 DEF ScanRows, RowsDone, Typed
<1>10. ASSUME NEW o \in Operation, DropRow(o) PROVE Typed'
  <2>1. kept' \in [Operation -> SUBSET Incident]
    BY <1>10 DEF DropRow, Typed
  <2>2. condemned' \in [Operation -> SUBSET Incident]
    BY <1>10 DEF DropRow, Typed
  <2> QED
    BY <1>10, <2>1, <2>2 DEF DropRow, Typed
<1>11. ASSUME NEW o \in Operation, Crash(o) PROVE Typed'
  <2>1. phase' \in [Operation -> Phase]
    BY <1>11 DEF Crash, Typed, Phase
  <2> QED
    BY <1>11, <2>1 DEF Crash, Typed
<1> QED
  BY <1>1, <1>2, <1>3, <1>4, <1>5, <1>6, <1>7, <1>8, <1>9, <1>10, <1>11, StepCases

LEMMA TypedAlways == Spec => []Typed
BY TypedInit, TypedNext, PTL DEF Spec

-----------------------------------------------------------------------------
(* Types of the catalog, and of all of it.                                 *)

\* Whoever takes part in the catalog takes one of these steps.
LEMMA CatalogSteps == Typed /\ [Next]_vars => CatalogNext \/ UNCHANGED catalogVars
<1> SUFFICES ASSUME Typed, [Next]_vars PROVE CatalogNext \/ UNCHANGED catalogVars
  OBVIOUS
<1>1. ASSUME NEW o \in Operation, DropRow(o) PROVE CatalogNext
  BY <1>1 DEF DropRow, CatalogNext, Typed
<1>2. ASSUME NEW o \in Operation,
             \/ Begin(o) \/ ListIncidents(o) \/ ListMasters(o) \/ ScanItems(o) \/ DeleteItem(o)
             \/ ItemsDone(o) \/ ScanRows(o) \/ RowsDone(o) \/ Crash(o)
      PROVE  UNCHANGED catalogVars
  BY <1>2 DEF Begin, ListIncidents, ListMasters, ScanItems, DeleteItem, ItemsDone, ScanRows,
              RowsDone, Crash
<1>3. ASSUME NEW r \in Request, Write(r) PROVE UNCHANGED catalogVars
  BY <1>3, WriteFrame
<1>4. Outside => CatalogNext \/ UNCHANGED catalogVars
  BY IdleFrame DEF Outside, Catalog, CatalogNext
<1> QED
  BY <1>1, <1>2, <1>3, <1>4, StepCases

LEMMA NoRowType == NoRow \in Row
BY EmptySeq DEF NoRow, Row

LEMMA RowForType ==
  ASSUME CatalogTypeOK, NEW s \in Sync, NEW i \in Incident
  PROVE  RowFor(s, i) \in Row
<1>1. existing[s][i] \in Row /\ next[s] \in Nat
  BY DEF CatalogTypeOK
<1>2. ToAlpha(next[s]) \in Seq(Nat)
  <2>1. Seq(Letter) \subseteq Seq(Nat)
    BY CatalogAssumption DEF Letter
  <2> QED
    BY <1>1, <2>1, NamesAreLetters
<1> QED
  BY <1>1, <1>2 DEF RowFor, Row

LEMMA ViewType ==
  ASSUME CatalogTypeOK, NEW v \in Views
  PROVE  v \in [Incident -> Row]
<1>1. \A i \in Incident : Shown(i) \subseteq Row
  BY DEF Shown, CatalogTypeOK
<1> QED
  BY <1>1 DEF Views

LEMMA CatalogTypeInit == Init => CatalogTypeOK
<1> SUFFICES ASSUME CatalogInit PROVE CatalogTypeOK
  BY DEF Init
<1>1. row \in [Incident -> Row] /\ older \in [Incident -> SUBSET Row]
  BY NoRowType DEF CatalogInit
<1>2. existing \in [Sync -> [Incident -> Row]] /\ feed \in [Sync -> Seq(Incident \cup {None})]
  BY NoRowType, EmptySeq DEF CatalogInit
<1>3. stage \in [Sync -> {"idle", "scan", "query", "put"}] /\ torn \in BOOLEAN
  BY DEF CatalogInit
<1>4. next \in [Sync -> Nat \ {0}]
  BY DEF CatalogInit
<1> QED
  BY <1>1, <1>2, <1>3, <1>4 DEF CatalogTypeOK

LEMMA CatalogTypeStep ==
  CatalogTypeOK /\ (CatalogNext \/ UNCHANGED catalogVars) => CatalogTypeOK'
<1> SUFFICES ASSUME CatalogTypeOK, CatalogNext \/ UNCHANGED catalogVars PROVE CatalogTypeOK'
  OBVIOUS
<1> USE DEF catalogVars
<1>1. ASSUME NEW s \in Sync, Fetch(s) PROVE CatalogTypeOK'
  BY <1>1, CatalogAssumption DEF Fetch, CatalogTypeOK
<1>2. ASSUME NEW s \in Sync, Scan(s) PROVE CatalogTypeOK'
  <2>1. PICK v \in Views : /\ existing' = [existing EXCEPT ![s] = v]
                          /\ torn' = (torn \/ v # row)
    BY <1>2 DEF Scan
  <2>2. v \in [Incident -> Row]
    BY ViewType
  <2>3. torn' \in BOOLEAN
    BY <2>1
  <2> QED
    BY <1>2, <2>1, <2>2, <2>3 DEF Scan, CatalogTypeOK
<1>3. ASSUME NEW s \in Sync, Query(s) PROVE CatalogTypeOK'
  <2>1. PICK v \in Views, n \in 0 .. MaxSequence :
          /\ n > 0
          /\ next' = [next EXCEPT ![s] = n]
          /\ torn' = (torn \/ v # row)
    BY <1>3 DEF Query, IsNext
  <2>2. n \in Nat \ {0} /\ torn' \in BOOLEAN
    BY <2>1
  <2> QED
    BY <1>3, <2>1, <2>2 DEF Query, CatalogTypeOK
<1>w. ASSUME NEW i \in Incident, NEW r \in Row, WriteRow(i, r)
      PROVE  row' \in [Incident -> Row] /\ older' \in [Incident -> SUBSET Row]
  BY <1>w DEF WriteRow, Shown, CatalogTypeOK
<1>4. ASSUME NEW s \in Sync, Put(s) PROVE CatalogTypeOK'
  <2>1. /\ feed[s] \in Seq(Incident \cup {None}) /\ feed[s] # <<>>
        /\ feed' = [feed EXCEPT ![s] = Tail(@)] /\ stage' = stage
    BY <1>4 DEF Put, CatalogTypeOK
  <2>2. Head(feed[s]) \in Incident \cup {None} /\ Tail(feed[s]) \in Seq(Incident \cup {None})
    BY <2>1, HeadTailProperties
  <2>3. feed' \in [Sync -> Seq(Incident \cup {None})]
    BY <2>1, <2>2 DEF CatalogTypeOK
  <2>4. CASE UNCHANGED <<row, older, existing, next, torn>>
    BY <2>1, <2>3, <2>4 DEF CatalogTypeOK
  <2>5. ASSUME NEW i \in Incident, WriteRow(i, RowFor(s, i)),
               existing' = [existing EXCEPT ![s][i] = RowFor(s, i)],
               next' = [next EXCEPT ![s] = IF existing[s][i] = NoRow THEN @ + 1 ELSE @],
               torn' \in BOOLEAN
        PROVE  CatalogTypeOK'
    <3>1. RowFor(s, i) \in Row
      BY RowForType
    <3>2. /\ row' \in [Incident -> Row] /\ older' \in [Incident -> SUBSET Row]
          /\ existing' \in [Sync -> [Incident -> Row]]
      BY <1>w, <2>5, <3>1 DEF CatalogTypeOK
    <3>3. next[s] \in Nat \ {0} /\ next[s] + 1 \in Nat \ {0}
      BY DEF CatalogTypeOK
    <3>4. next' \in [Sync -> Nat \ {0}]
      BY <2>5, <3>3 DEF CatalogTypeOK
    <3> QED
      BY <2>1, <2>3, <2>5, <3>2, <3>4 DEF CatalogTypeOK
  <2>6. ASSUME NEW b, torn' = (torn \/ b) PROVE torn' \in BOOLEAN
    BY <2>6
  <2> QED
    BY <1>4, <2>2, <2>4, <2>5, <2>6 DEF Put
<1>5. ASSUME NEW s \in Sync, Stop(s) PROVE CatalogTypeOK'
  BY <1>5, NoRowType, EmptySeq DEF Stop, CatalogTypeOK
<1>6. ASSUME NEW i \in Incident, DeleteRow(i) PROVE CatalogTypeOK'
  <2>1. torn' \in BOOLEAN
    BY <1>6 DEF DeleteRow
  <2> QED
    BY <1>w, <1>6, <2>1, NoRowType DEF DeleteRow, CatalogTypeOK
<1>8. ASSUME NEW i \in Incident, Settle(i) PROVE CatalogTypeOK'
  BY <1>8 DEF Settle, CatalogTypeOK
<1>7. CASE UNCHANGED catalogVars
  BY <1>7 DEF CatalogTypeOK
<1> QED
  BY <1>1, <1>2, <1>3, <1>4, <1>5, <1>6, <1>7, <1>8 DEF CatalogNext, SyncStep

\* What creations and writers of requests work on.
WritersOK ==
  /\ incident \in [Request -> Incident]
  /\ creating \in [Request -> {"new", "checked", "made"}]
  /\ changing \in [Request -> Event \cup Update \cup {"MASTER", "CURRENT", None}]
  /\ used \subseteq Request \X (Event \cup Update)

LEMMA WritersNext == WritersOK /\ [Next]_vars => WritersOK'
<1> SUFFICES ASSUME WritersOK, [Next]_vars PROVE WritersOK'
  OBVIOUS
<1> USE DEF requestVars
<1>1. CASE UNCHANGED <<incident, creating, changing, used>>
  BY <1>1 DEF WritersOK
<1>2. ASSUME NEW r \in Request, CheckIncident(r) \/ CreateItems(r) PROVE WritersOK'
  BY <1>2 DEF CheckIncident, CreateItems, WritersOK
<1>3. ASSUME NEW r \in Request, ReadRequest(r) PROVE WritersOK'
  BY <1>3 DEF ReadRequest, WritersOK
<1>4. ASSUME NEW r \in Request,
             AppendEvent(r) \/ PutUpdate(r) \/ AmendMaster(r) \/ NameSource(r) \/ GiveUp(r)
      PROVE  WritersOK'
  BY <1>4 DEF AppendEvent, PutUpdate, AmendMaster, NameSource, GiveUp, Change, WritersOK
<1>5. ASSUME NEW o \in Operation,
             \/ Begin(o) \/ ListIncidents(o) \/ ListMasters(o) \/ ScanItems(o) \/ DeleteItem(o)
             \/ ItemsDone(o) \/ ScanRows(o) \/ DropRow(o) \/ RowsDone(o) \/ Crash(o)
      PROVE  UNCHANGED <<incident, creating, changing, used>>
  BY <1>5 DEF Begin, ListIncidents, ListMasters, ScanItems, DeleteItem, ItemsDone, ScanRows,
              DropRow, RowsDone, Crash
<1>6. Catalog \/ (\E x \in recent : SettleItem(x)) \/ UNCHANGED vars
        => UNCHANGED <<incident, creating, changing, used>>
  BY DEF Catalog, SettleItem, vars
<1> QED
  BY <1>1, <1>2, <1>3, <1>4, <1>5, <1>6, StepCases DEF Outside, Idle, Write

LEMMA CatalogTypeAlways == Spec => []CatalogTypeOK
<1>1. Typed /\ CatalogTypeOK /\ [Next]_vars => CatalogTypeOK'
  BY CatalogSteps, CatalogTypeStep
<1> QED
  BY <1>1, CatalogTypeInit, TypedAlways, PTL DEF Spec

\* Every variable keeps its type (sync_incident_catalog.py:44-56,
\* internal_maintenance.py:37-53).
THEOREM TypeCorrect == Spec => []TypeOK
<1>1. Init => WritersOK
  BY DEF Init, WritersOK
<1>2. Typed /\ CatalogTypeOK /\ WritersOK => TypeOK
  BY DEF Typed, WritersOK, TypeOK
<1> QED
  BY <1>1, <1>2, WritersNext, CatalogTypeAlways, TypedAlways, PTL DEF Spec

-----------------------------------------------------------------------------
(* Deleted items stay deleted.                                             *)

LEMMA GoneStays ==
  ASSUME Typed, [Next]_vars, NEW r \in Request, creating[r] = "made"
  PROVE  (item'[r] \ item[r]) \cap {"MASTER", "CURRENT"} = {}
<1> USE DEF requestVars
<1>1. CASE item' = item
  BY <1>1
<1>2. ASSUME NEW q \in Request, CreateItems(q) PROVE item'[r] = item[r]
  BY <1>2 DEF CreateItems, Wrote, Typed
<1>3. ASSUME NEW q \in Request,
             AppendEvent(q) \/ PutUpdate(q) \/ AmendMaster(q) \/ NameSource(q)
      PROVE  (item'[r] \ item[r]) \cap {"MASTER", "CURRENT"} = {}
  <2>1. PICK new : /\ Wrote(q, new)
                   /\ new \cap {"MASTER", "CURRENT"} \subseteq item[q]
    BY <1>3, MaintenanceAssumption DEF AppendEvent, PutUpdate, AmendMaster, NameSource, StillThere
  <2>2. item'[r] = item[r] \/ (q = r /\ item'[r] = item[r] \cup new)
    BY <2>1 DEF Wrote, Typed
  <2> QED
    BY <2>1, <2>2
<1>4. ASSUME NEW o \in Operation, DeleteItem(o) PROVE item'[r] \subseteq item[r]
  BY <1>4 DEF DeleteItem, Typed
<1>5. ASSUME NEW o \in Operation,
             \/ Begin(o) \/ ListIncidents(o) \/ ListMasters(o) \/ ScanItems(o) \/ ItemsDone(o)
             \/ ScanRows(o) \/ DropRow(o) \/ RowsDone(o) \/ Crash(o)
      PROVE  item' = item
  BY <1>5 DEF Begin, ListIncidents, ListMasters, ScanItems, ItemsDone, ScanRows, DropRow, RowsDone, Crash
<1>6. Outside => item' = item
  BY OutsideFrame
<1> QED
  BY <1>1, <1>2, <1>3, <1>4, <1>5, <1>6, StepCases DEF Write

\* What an operation deleted is not brought back by a writer that read the
\* request before (rescue_request_repository.py:529-537, 596 and 617).
THEOREM DeletedStaysDeleted == Spec => NothingReturns
<1>1. Typed /\ [Next]_vars =>
        [\A r \in Request :
           creating[r] = "made" =>
             (item'[r] \ item[r]) \cap {"MASTER", "CURRENT"} = {}]_vars
  BY GoneStays
<1> QED
  BY <1>1, TypedAlways, PTL DEF Spec, NothingReturns

-----------------------------------------------------------------------------
(* Orphans only.                                                           *)

\* A row that every reader gets stays one until it is deleted.
LEMMA ShownStays ==
  ASSUME CatalogTypeOK, Catalog, NEW i \in Incident, NoRow \notin Shown(i)
  PROVE  NoRow \notin Shown(i)'
<1>1. ASSUME NEW j \in Incident, NEW r, r # NoRow, WriteRow(j, r) PROVE NoRow \notin Shown(i)'
  BY <1>1 DEF WriteRow, Shown, CatalogTypeOK
<1>2. CASE UNCHANGED <<row, older>>
  BY <1>2 DEF Shown
<1>3. ASSUME NEW s \in Sync, Fetch(s) \/ Scan(s) \/ Query(s) \/ Stop(s) PROVE UNCHANGED <<row, older>>
  BY <1>3 DEF Fetch, Scan, Query, Stop
<1>4. ASSUME NEW s \in Sync, Put(s) PROVE NoRow \notin Shown(i)'
  <2>1. feed[s] \in Seq(Incident \cup {None}) /\ feed[s] # <<>>
    BY <1>4 DEF Put, CatalogTypeOK
  <2>2. Head(feed[s]) \in Incident \cup {None}
    BY <2>1, HeadTailProperties
  <2>3. ASSUME NEW j \in Incident PROVE RowFor(s, j) # NoRow
    <3>1. next[s] \in Nat \ {0}
      BY DEF CatalogTypeOK
    <3>2. [sequence |-> next[s], name |-> ToAlpha(next[s])].sequence # NoRow.sequence
      BY <3>1 DEF NoRow
    <3>3. [sequence |-> next[s], name |-> ToAlpha(next[s])] # NoRow
      BY <3>2
    <3> QED
      BY <3>3 DEF RowFor
  <2> QED
    BY <1>1, <1>2, <1>4, <2>2, <2>3 DEF Put
<1>5. ASSUME NEW j \in Incident, Settle(j) PROVE NoRow \notin Shown(i)'
  BY <1>5 DEF Settle, Shown, CatalogTypeOK
<1> QED
  BY <1>2, <1>3, <1>4, <1>5 DEF Catalog, SyncStep

\* What an operation on orphans knows, by where it is: the incidents kept are
\* there for every reader until they are listed, and nothing it goes on to
\* delete is of a request of theirs.
Sparing(o) ==
  kind[o] = "orphaned" =>
    /\ phase[o] = "idle" => orphan[o] = {} /\ removed[o] = {}
    /\ phase[o] \in {"idle", "list", "masters", "scan"} => doomed[o] = {}
    /\ phase[o] = "list" => \A i \in kept[o] : NoRow \notin Shown(i)
    /\ phase[o] = "masters" => kept[o] \subseteq listed[o]
    /\ \A r \in orphan[o] : incident[r] \notin kept[o]
    /\ \A x \in doomed[o] : incident[x[1]] \notin kept[o]
    /\ \A r \in removed[o] : incident[r] \notin kept[o]

SparingInv == \A o \in Operation : Sparing(o)

LEMMA SparingInit == Init => SparingInv
BY DEF Init, SparingInv, Sparing

LEMMA SparingNext == Typed /\ CatalogTypeOK /\ SparingInv /\ [Next]_vars => SparingInv'
<1> SUFFICES ASSUME Typed, CatalogTypeOK, SparingInv, [Next]_vars PROVE SparingInv'
  OBVIOUS
<1> USE DEF requestVars, historyVars, Goto
<1>1. ASSUME UNCHANGED <<incident, kind, phase, listed, orphan, doomed, kept, removed>>,
             \A i \in Incident : NoRow \notin Shown(i) => NoRow \notin Shown(i)'
      PROVE  SparingInv'
  BY <1>1 DEF SparingInv, Sparing, Typed
<1>0. ASSUME UNCHANGED catalogVars PROVE \A i \in Incident : Shown(i)' = Shown(i)
  BY <1>0 DEF catalogVars, Shown
<1>2. CASE Outside
  BY <1>0, <1>1, <1>2, OutsideFrame, IdleFrame, ShownStays DEF Outside
<1>3. ASSUME NEW r \in Request, Write(r) PROVE SparingInv'
  BY <1>0, <1>1, <1>3, WriteFrame
\* A step of one operation.
<1>4. ASSUME NEW o \in Operation, Sparing(o)', UNCHANGED <<catalogVars, incident, kind>>,
             \A p \in Operation \ {o} :
               UNCHANGED <<phase[p], listed[p], orphan[p], doomed[p], kept[p], removed[p]>>
      PROVE  SparingInv'
  BY <1>0, <1>4 DEF SparingInv, Sparing, Typed
<1>5. ASSUME NEW o \in Operation, Begin(o) PROVE SparingInv'
  <2>1. kind[o] = "orphaned" =>
          /\ phase'[o] = "list" /\ phase[o] = "idle"
          /\ kept'[o] = {i \in Incident : NoRow \notin Shown(i)}
    BY <1>5 DEF Begin, Typed
  <2>2. UNCHANGED <<catalogVars, incident, kind, listed, orphan, doomed, removed>>
    BY <1>5 DEF Begin
  <2>3. Sparing(o)'
    BY <1>0, <2>1, <2>2 DEF SparingInv, Sparing
  <2>4. \A p \in Operation \ {o} : UNCHANGED <<phase[p], kept[p]>>
    BY <1>5 DEF Begin, Typed
  <2> QED
    BY <1>4, <2>2, <2>3, <2>4
<1>12. ASSUME NEW o \in Operation, ListIncidents(o) PROVE SparingInv'
  <2>1. PICK v \in Views : listed' = [listed EXCEPT ![o] = Rows(v)]
    BY <1>12 DEF ListIncidents, Listing
  <2>2. phase[o] = "list" /\ phase'[o] = "masters" /\ listed'[o] = Rows(v)
    BY <1>12, <2>1 DEF ListIncidents, Typed
  <2>3. UNCHANGED <<catalogVars, incident, kind, orphan, doomed, kept, removed>>
    BY <1>12 DEF ListIncidents
  <2>4. kept[o] \subseteq Incident
    BY DEF Typed
  <2>5. \A i \in Incident : NoRow \notin Shown(i) => i \in Rows(v)
    BY DEF Views, Rows
  <2>6. Sparing(o)'
    BY <2>2, <2>3, <2>4, <2>5 DEF SparingInv, Sparing
  <2>7. \A p \in Operation \ {o} : UNCHANGED <<phase[p], listed[p]>>
    BY <1>12 DEF ListIncidents, Typed
  <2> QED
    BY <1>4, <2>3, <2>6, <2>7
<1>6. ASSUME NEW o \in Operation, ListMasters(o) PROVE SparingInv'
  <2>1. /\ phase[o] = "masters" /\ phase'[o] \in {"done", "scan"}
        /\ \A r \in orphan'[o] : Orphaned(o, r)
    BY <1>6 DEF ListMasters, Typed
  <2>2. UNCHANGED <<catalogVars, incident, kind, listed, doomed, kept, removed>>
    BY <1>6 DEF ListMasters
  <2>3. Sparing(o)'
    BY <1>0, <2>1, <2>2 DEF SparingInv, Sparing, Orphaned
  <2>4. \A p \in Operation \ {o} : UNCHANGED <<phase[p], orphan[p]>>
    BY <1>6 DEF ListMasters, Typed
  <2> QED
    BY <1>4, <2>2, <2>3, <2>4
<1>7. ASSUME NEW o \in Operation, ScanItems(o) PROVE SparingInv'
  <2>1. phase'[o] = "items" /\ \A x \in doomed'[o] : x[1] \in Targets(o)
    BY <1>7 DEF ScanItems, ItemsOf, Typed
  <2>2. UNCHANGED <<catalogVars, incident, kind, listed, orphan, kept, removed>>
    BY <1>7 DEF ScanItems
  <2>3. \A x \in doomed'[o] : kind[o] = "orphaned" => x[1] \in orphan[o]
    BY <2>1 DEF Targets
  <2>4. Sparing(o)'
    BY <2>1, <2>2, <2>3 DEF SparingInv, Sparing
  <2>5. \A p \in Operation \ {o} : UNCHANGED <<phase[p], doomed[p]>>
    BY <1>7 DEF ScanItems, Typed
  <2> QED
    BY <1>4, <2>2, <2>4, <2>5
<1>8. ASSUME NEW o \in Operation, DeleteItem(o) PROVE SparingInv'
  <2>1. PICK x \in doomed[o] :
          /\ doomed' = [doomed EXCEPT ![o] = @ \ {x}]
          /\ removed' = [removed EXCEPT ![o] = @ \cup {x[1]}]
    BY <1>8 DEF DeleteItem
  <2>2. UNCHANGED <<catalogVars, incident, kind, phase, listed, orphan, kept>> /\ phase[o] = "items"
    BY <1>8 DEF DeleteItem
  <2>3. doomed'[o] = doomed[o] \ {x} /\ removed'[o] = removed[o] \cup {x[1]}
    BY <2>1 DEF Typed
  <2>4. Sparing(o)'
    BY <2>2, <2>3 DEF SparingInv, Sparing
  <2>5. \A p \in Operation \ {o} : UNCHANGED <<doomed[p], removed[p]>>
    BY <2>1 DEF Typed
  <2> QED
    BY <1>4, <2>2, <2>4, <2>5
<1>9. ASSUME NEW o \in Operation, ItemsDone(o) \/ ScanRows(o) \/ RowsDone(o) PROVE SparingInv'
  <2>1. phase'[o] \in {"rows", "drop", "done"}
    BY <1>9 DEF ItemsDone, ScanRows, RowsDone, Typed
  <2>2. UNCHANGED <<catalogVars, incident, kind, listed, orphan, doomed, kept, removed>>
    BY <1>9 DEF ItemsDone, ScanRows, RowsDone
  <2>3. Sparing(o)'
    BY <2>1, <2>2 DEF SparingInv, Sparing
  <2>4. \A p \in Operation \ {o} : phase'[p] = phase[p]
    BY <1>9 DEF ItemsDone, ScanRows, RowsDone, Typed
  <2> QED
    BY <1>4, <2>2, <2>3, <2>4
<1>10. ASSUME NEW o \in Operation, DropRow(o) PROVE SparingInv'
  <2>1. PICK i \in condemned[o] : DeleteRow(i) /\ kept' = [p \in Operation |-> kept[p] \ {i}]
    BY <1>10 DEF DropRow
  <2>2. UNCHANGED <<incident, kind, phase, listed, orphan, doomed, removed>>
    BY <1>10 DEF DropRow
  <2>3. \A j \in Incident \ {i} : Shown(j)' = Shown(j)
    BY <2>1 DEF DeleteRow, WriteRow, Shown, CatalogTypeOK
  <2>4. ASSUME NEW p \in Operation PROVE Sparing(p)'
    <3>1. kept'[p] = kept[p] \ {i} /\ kept[p] \subseteq Incident
      BY <2>1 DEF Typed
    <3>2. \A j \in kept'[p] : j \in kept[p] /\ Shown(j)' = Shown(j)
      BY <2>3, <3>1
    <3> QED
      BY <2>2, <3>1, <3>2 DEF SparingInv, Sparing
  <2> QED
    BY <2>4 DEF SparingInv
<1>11. ASSUME NEW o \in Operation, Crash(o) PROVE SparingInv'
  <2>1. phase'[o] = "dead" /\ doomed'[o] = {} /\ orphan'[o] = {}
    BY <1>11 DEF Crash, Typed
  <2>2. UNCHANGED <<catalogVars, incident, kind, kept, removed>>
    BY <1>11 DEF Crash
  <2>3. Sparing(o)'
    BY <2>1, <2>2 DEF SparingInv, Sparing
  <2>4. \A p \in Operation \ {o} : UNCHANGED <<phase[p], listed[p], orphan[p], doomed[p]>>
    BY <1>11 DEF Crash, Typed
  <2> QED
    BY <1>4, <2>2, <2>3, <2>4
<1> QED
  BY <1>2, <1>3, <1>5, <1>6, <1>7, <1>8, <1>9, <1>10, <1>11, <1>12, StepCases

\* Deleting orphans spares every request whose incident was in the catalog for
\* every reader when it began and has been since, whatever syncs and other
\* operations do meanwhile (internal_maintenance.py:37-48).
THEOREM KnownAreSpared == Spec => []SparesKnown
<1>1. SparingInv => SparesKnown
  BY DEF SparingInv, Sparing, SparesKnown
<1> QED
  BY <1>1, SparingInit, SparingNext, TypedAlways, CatalogTypeAlways, PTL DEF Spec

-----------------------------------------------------------------------------
(* Nothing is left.                                                        *)

\* What is there is doomed or fresh; later it is fresh.
Clearing(o) ==
  /\ phase[o] \in {"list", "masters"} => kind[o] = "orphaned"
  /\ kind[o] # "catalog" =>
       \A r \in Targets(o) : \A i \in item[r] :
         /\ phase[o] = "items" => <<r, i>> \in fresh[o] \cup doomed[o]
         /\ phase[o] \in {"rows", "drop", "done"} => <<r, i>> \in fresh[o]

ClearingInv == \A o \in Operation : Clearing(o)

LEMMA ClearingInit == Init => ClearingInv
BY DEF Init, ClearingInv, Clearing

\* Items that only disappear, with all else as it was.
LEMMA ClearingKept ==
  ASSUME Typed, NEW o \in Operation, Clearing(o),
         UNCHANGED <<kind, phase[o], orphan[o], doomed[o], fresh[o]>>,
         \A r \in Request : item'[r] \subseteq item[r]
  PROVE  Clearing(o)'
<1>1. Targets(o)' = Targets(o) /\ Targets(o) \subseteq Request
  BY DEF Targets, Typed
<1> QED
  BY <1>1 DEF Clearing

LEMMA ClearingNext == Typed /\ ClearingInv /\ [Next]_vars => ClearingInv'
<1> SUFFICES ASSUME Typed, ClearingInv, [Next]_vars, NEW p \in Operation PROVE Clearing(p)'
  BY DEF ClearingInv
<1> USE DEF requestVars, historyVars, Goto
<1>0. Clearing(p) /\ Targets(p) \subseteq Request
  BY DEF ClearingInv, Targets, Typed
<1>1. CASE Outside
  BY <1>0, <1>1, OutsideFrame, ClearingKept
<1>2. ASSUME NEW r \in Request, Write(r) PROVE Clearing(p)'
  <2>1. PICK new \in SUBSET Item : Wrote(r, new)
    BY <1>2, WriteFrame
  <2>2. UNCHANGED <<kind, phase, orphan, doomed>>
    BY <1>2, WriteFrame
  <2>3. Targets(p)' = Targets(p)
    BY <2>2 DEF Targets
  <2>4. \A q \in Request : item'[q] = IF q = r THEN item[q] \cup new ELSE item[q]
    BY <2>1 DEF Wrote, Typed
  <2>5. phase[p] \in {"items", "rows", "drop", "done"} =>
          fresh'[p] = fresh[p] \cup ({r} \X new)
    BY <2>1 DEF Wrote
  <2> QED
    BY <1>0, <2>2, <2>3, <2>4, <2>5 DEF Clearing
<1>3. ASSUME NEW o \in Operation, o # p, UNCHANGED <<item, kind, fresh>>,
             UNCHANGED <<phase[p], orphan[p], doomed[p]>>
      PROVE  Clearing(p)'
  BY <1>0, <1>3, ClearingKept
<1>4. ASSUME NEW o \in Operation, Begin(o) PROVE Clearing(p)'
  <2>1. UNCHANGED <<item, kind, orphan, doomed, fresh>>
    BY <1>4 DEF Begin
  <2>2. CASE o = p
    <3>1. \/ kind[p] = "orphaned" /\ phase'[p] = "list"
          \/ kind[p] = "catalog" /\ phase'[p] = "rows"
          \/ phase'[p] = "scan"
      BY <1>4, <2>2 DEF Begin, Typed
    <3> QED
      BY <2>1, <3>1 DEF Clearing
  <2>3. CASE o # p
    BY <1>3, <1>4, <2>1, <2>3 DEF Begin, Typed
  <2> QED
    BY <2>2, <2>3
<1>10. ASSUME NEW o \in Operation, ListIncidents(o) PROVE Clearing(p)'
  <2>1. UNCHANGED <<item, kind, orphan, doomed, fresh>>
    BY <1>10 DEF ListIncidents
  <2>2. CASE o = p
    <3>1. phase[p] = "list" /\ phase'[p] = "masters"
      BY <1>10, <2>2 DEF ListIncidents, Typed
    <3> QED
      BY <1>0, <2>1, <3>1 DEF Clearing
  <2>3. CASE o # p
    BY <1>3, <1>10, <2>1, <2>3 DEF ListIncidents, Typed
  <2> QED
    BY <2>2, <2>3
<1>5. ASSUME NEW o \in Operation, ListMasters(o) PROVE Clearing(p)'
  <2>1. UNCHANGED <<item, kind, doomed, fresh>>
    BY <1>5 DEF ListMasters
  <2>2. CASE o = p
    <3>1. phase'[p] = "scan" \/ (phase'[p] = "done" /\ orphan'[p] = {})
      BY <1>5, <2>2 DEF ListMasters, Typed
    <3>2. kind[p] = "orphaned" => Targets(p)' = orphan'[p]
      BY <2>1 DEF Targets
    <3>3. kind[p] = "orphaned"
      BY <1>0, <1>5, <2>2 DEF ListMasters, Clearing
    <3> QED
      BY <2>1, <3>1, <3>2, <3>3 DEF Clearing
  <2>3. CASE o # p
    BY <1>3, <1>5, <2>1, <2>3 DEF ListMasters, Typed
  <2> QED
    BY <2>2, <2>3
<1>6. ASSUME NEW o \in Operation, ScanItems(o) PROVE Clearing(p)'
  <2>1. UNCHANGED <<item, kind, orphan>>
    BY <1>6 DEF ScanItems
  <2>2. CASE o = p
    <3>1. phase'[p] = "items" /\ fresh'[p] = recent
      BY <1>6, <2>2 DEF ScanItems, Typed
    <3>2. PICK seen \in Scans : doomed'[p] = ItemsOf(seen, Targets(p))
      BY <1>6, <2>2 DEF ScanItems, Typed
    <3>3. There \subseteq seen \cup recent
      BY DEF Scans
    <3>4. Targets(p)' = Targets(p)
      BY <2>1 DEF Targets
    <3>5. \A r \in Request : \A i \in item[r] : <<r, i>> \in There
      BY DEF There, Typed
    <3>6. \A r \in Targets(p) : \A i \in item[r] : <<r, i>> \in recent \cup doomed'[p]
      BY <1>0, <3>2, <3>3, <3>5 DEF ItemsOf
    <3> QED
      BY <2>1, <3>1, <3>4, <3>6 DEF Clearing
  <2>3. CASE o # p
    <3>1. UNCHANGED <<phase[p], orphan[p], doomed[p], fresh[p]>>
      BY <1>6, <2>3 DEF ScanItems, Typed
    <3> QED
      BY <1>0, <2>1, <3>1, ClearingKept
  <2> QED
    BY <2>2, <2>3
<1>7. ASSUME NEW o \in Operation, DeleteItem(o) PROVE Clearing(p)'
  <2>1. PICK x \in doomed[o] :
          /\ doomed' = [doomed EXCEPT ![o] = @ \ {x}]
          /\ item' = [item EXCEPT ![x[1]] = @ \ {x[2]}]
    BY <1>7 DEF DeleteItem
  <2>2. UNCHANGED <<kind, phase, orphan, fresh>> /\ x \in Request \X Item /\ phase[o] = "items"
    BY <1>7 DEF DeleteItem, Typed
  <2>3. \A r \in Request : item'[r] = IF r = x[1] THEN item[r] \ {x[2]} ELSE item[r]
    BY <2>1, <2>2 DEF Typed
  <2>4. CASE o = p
    <3>1. Targets(p)' = Targets(p) /\ doomed'[p] = doomed[p] \ {x}
      BY <2>1, <2>2, <2>4 DEF Targets, Typed
    <3>2. ASSUME NEW r \in Targets(p), NEW i \in item'[r]
          PROVE  i \in item[r] /\ <<r, i>> # x
      <4>1. item'[r] = IF r = x[1] THEN item[r] \ {x[2]} ELSE item[r]
        BY <1>0, <2>3
      <4>2. <<r, i>> = x => x[1] = r /\ x[2] = i
        OBVIOUS
      <4> QED
        BY <4>1, <4>2
    <3>3. ASSUME NEW r \in Targets(p), NEW i \in item'[r], kind[p] # "catalog"
          PROVE  <<r, i>> \in fresh'[p] \cup doomed'[p]
      BY <1>0, <2>2, <2>4, <3>1, <3>2, <3>3 DEF Clearing
    <3> QED
      BY <2>2, <2>4, <3>1, <3>3 DEF Clearing
  <2>5. CASE o # p
    <3>1. doomed'[p] = doomed[p]
      BY <2>1, <2>5 DEF Typed
    <3>2. \A r \in Request : item'[r] \subseteq item[r]
      BY <2>3
    <3> QED
      BY <1>0, <2>2, <3>1, <3>2, ClearingKept
  <2> QED
    BY <2>4, <2>5
<1>8. ASSUME NEW o \in Operation, ItemsDone(o) \/ ScanRows(o) \/ DropRow(o) \/ RowsDone(o)
      PROVE  Clearing(p)'
  <2>1. UNCHANGED <<item, kind, orphan, doomed, fresh>>
    BY <1>8 DEF ItemsDone, ScanRows, DropRow, RowsDone
  <2>2. CASE o = p
    <3>1. Targets(p)' = Targets(p)
      BY <2>1 DEF Targets
    <3>2. /\ phase'[p] \in {"rows", "drop", "done"}
          /\ phase[p] \in {"rows", "drop"} \/ (phase[p] = "items" /\ doomed[p] = {})
      BY <1>8, <2>2 DEF ItemsDone, ScanRows, DropRow, RowsDone, Typed
    <3> QED
      BY <1>0, <2>1, <3>1, <3>2 DEF Clearing
  <2>3. CASE o # p
    <3>1. phase'[p] = phase[p]
      BY <1>8, <2>3 DEF ItemsDone, ScanRows, DropRow, RowsDone, Typed
    <3> QED
      BY <1>3, <2>1, <2>3, <3>1
  <2> QED
    BY <2>2, <2>3
<1>9. ASSUME NEW o \in Operation, Crash(o) PROVE Clearing(p)'
  <2>1. UNCHANGED <<item, kind, fresh>>
    BY <1>9 DEF Crash
  <2>2. CASE o = p
    <3>1. phase'[p] = "dead"
      BY <1>9, <2>2 DEF Crash, Typed
    <3> QED
      BY <3>1 DEF Clearing
  <2>3. CASE o # p
    BY <1>3, <1>9, <2>1, <2>3 DEF Crash, Typed
  <2> QED
    BY <2>2, <2>3
<1> QED
  BY <1>1, <1>2, <1>4, <1>5, <1>6, <1>7, <1>8, <1>9, <1>10, StepCases

\* An operation that ended left no item of the requests it was to delete but
\* those written after its scan or so recently before that the scan need not
\* have seen them (rescue_request_repository.py:60-91).
THEOREM AllIsCleared == Spec => []NothingLeftBehind
<1>1. ClearingInv => NothingLeftBehind
  BY DEF ClearingInv, Clearing, NothingLeftBehind
<1> QED
  BY <1>1, ClearingInit, ClearingNext, TypedAlways, PTL DEF Spec

-----------------------------------------------------------------------------
(* Numbers and names.                                                      *)

\* Every row has a number of its own, and a name made of it.
Numbered(r) ==
  /\ \A i \in Rows(r) : r[i].sequence \in Nat \ {0} /\ r[i].name = ToAlpha(r[i].sequence)
  /\ \A i, j \in Rows(r) : r[i].sequence = r[j].sequence => i = j

\* What a sync has read agrees with the rows there are, and once it puts the
\* number it gives next is above all it knows of.
Reading(s) ==
  /\ Numbered(existing[s])
  /\ \A i \in Rows(row) : existing[s][i] = row[i]

NumberInv ==
  torn \/ /\ Numbered(row)
          /\ \A s \in Sync :
               /\ stage[s] = "query" => existing[s] = row
               /\ stage[s] = "put" => /\ Reading(s)
                                      /\ \A i \in Rows(existing[s]) : existing[s][i].sequence < next[s]

NumbersStay == torn' \/ \A i \in Rows(row) : i \in Rows(row') => row'[i] = row[i]

LEMMA NumberInit == Init => NumberInv
BY DEF Init, CatalogInit, NumberInv, Numbered, Rows

\* Deleting a row.
LEMMA NumberedLess ==
  ASSUME NEW r, NEW t, Numbered(r), \A i \in Rows(t) : i \in Rows(r) /\ t[i] = r[i]
  PROVE  Numbered(t)
BY DEF Numbered

\* Giving a number above the others.
LEMMA NumberedMore ==
  ASSUME NEW r \in [Incident -> Row], Numbered(r), NEW i \in Incident, NEW n \in Nat \ {0},
         \A j \in Rows(r) : r[j].sequence < n,
         NEW t, t = [r EXCEPT ![i] = [sequence |-> n, name |-> ToAlpha(n)]]
  PROVE  Numbered(t)
<1>1. t[i].sequence = n /\ t[i].name = ToAlpha(n)
  OBVIOUS
<1>2. \A j \in Rows(t) : j = i \/ (j \in Rows(r) /\ t[j] = r[j])
  BY DEF Rows
<1>3. \A j \in Rows(r) : r[j].sequence \in Nat /\ r[j].sequence # n
  BY DEF Numbered
<1>4. \A j \in Rows(t) : t[j].sequence \in Nat \ {0} /\ t[j].name = ToAlpha(t[j].sequence)
  BY <1>1, <1>2 DEF Numbered
<1>5. ASSUME NEW j \in Rows(t), NEW k \in Rows(t), t[j].sequence = t[k].sequence PROVE j = k
  BY <1>1, <1>2, <1>3, <1>5 DEF Numbered
<1> QED
  BY <1>4, <1>5 DEF Numbered

\* A step that keeps the rows and concerns one sync.
LEMMA NumberKept ==
  ASSUME CatalogTypeOK, NumberInv, row' = row, torn' = FALSE => torn = FALSE,
         \A s \in Sync :
           \/ UNCHANGED <<stage[s], existing[s], next[s]>>
           \/ stage'[s] \in {"idle", "scan"}
           \/ stage'[s] = "query" /\ (torn' \/ existing'[s] = row)
           \/ /\ stage[s] = "query" /\ stage'[s] = "put" /\ existing'[s] = existing[s]
              /\ torn' \/ \A i \in Rows(row) : row[i].sequence < next'[s]
  PROVE  NumberInv' /\ NumbersStay
<1>0. NumbersStay
  BY DEF NumbersStay
<1>1. CASE torn'
  BY <1>0, <1>1 DEF NumberInv
<1>2. CASE ~torn'
  <2>1. torn = FALSE
    BY <1>2 DEF CatalogTypeOK
  <2>2. Numbered(row)'
    BY <2>1 DEF NumberInv, Numbered
  <2>3. ASSUME NEW s \in Sync
        PROVE  /\ stage'[s] = "query" => existing'[s] = row'
               /\ stage'[s] = "put" =>
                    /\ Reading(s)'
                    /\ \A i \in Rows(existing'[s]) : existing'[s][i].sequence < next'[s]
    <3>1. CASE UNCHANGED <<stage[s], existing[s], next[s]>>
      BY <2>1, <3>1 DEF NumberInv, Reading, Numbered
    <3>2. CASE stage'[s] \in {"idle", "scan"}
      BY <3>2
    <3>3. CASE stage'[s] = "query" /\ existing'[s] = row
      BY <3>3
    <3>4. CASE /\ stage[s] = "query" /\ stage'[s] = "put" /\ existing'[s] = existing[s]
               /\ \A i \in Rows(row) : row[i].sequence < next'[s]
      <4>1. existing'[s] = row
        BY <2>1, <3>4 DEF NumberInv
      <4> QED
        BY <2>1, <2>2, <3>4, <4>1 DEF NumberInv, Reading, Numbered
    <3> QED
      BY <1>2, <3>1, <3>2, <3>3, <3>4
  <2> QED
    BY <1>0, <2>2, <2>3 DEF NumberInv
<1> QED
  BY <1>1, <1>2

LEMMA NumberPut ==
  ASSUME CatalogTypeOK, NumberInv, NEW s \in Sync, NEW i \in Incident,
         stage[s] = "put", stage' = stage, ~torn', torn = FALSE,
         \A t \in Sync \ {s} : stage[t] \notin {"query", "put"},
         row' = [row EXCEPT ![i] = RowFor(s, i)],
         existing' = [existing EXCEPT ![s][i] = RowFor(s, i)],
         next' = [next EXCEPT ![s] = IF existing[s][i] = NoRow THEN @ + 1 ELSE @]
  PROVE  NumberInv' /\ NumbersStay
<1> DEFINE e == existing[s]
           f == existing'[s]
<1>1. /\ e \in [Incident -> Row] /\ next[s] \in Nat \ {0}
      /\ row \in [Incident -> Row]
      /\ RowFor(s, i) \in Row
  BY RowForType DEF CatalogTypeOK
<1>2. /\ Numbered(e)
      /\ \A j \in Rows(row) : e[j] = row[j]
      /\ \A j \in Rows(e) : e[j].sequence < next[s]
  BY DEF NumberInv, Reading
<1>3. /\ f = [e EXCEPT ![i] = RowFor(s, i)]
      /\ next'[s] = IF e[i] = NoRow THEN next[s] + 1 ELSE next[s]
  BY DEF CatalogTypeOK
<1>4. Numbered(f) /\ \A j \in Rows(f) : f[j].sequence < next'[s]
  <2>1. CASE e[i] # NoRow
    <3>1. f = e /\ next'[s] = next[s]
      BY <1>1, <1>3, <2>1 DEF RowFor
    <3> QED
      BY <1>2, <3>1
  <2>2. CASE e[i] = NoRow
    <3>1. f = [e EXCEPT ![i] = [sequence |-> next[s], name |-> ToAlpha(next[s])]]
      BY <1>3, <2>2 DEF RowFor
    <3>2. Numbered(f)
      BY <1>1, <1>2, <3>1, NumberedMore
    <3>3. f[i].sequence = next[s]
      BY <1>1, <3>1
    <3>4. \A j \in Rows(f) : j = i \/ (j \in Rows(e) /\ f[j] = e[j])
      BY <1>1, <3>1 DEF Rows
    <3>5. \A j \in Rows(e) : e[j].sequence \in Nat
      BY <1>2 DEF Numbered
    <3>6. PICK n \in Nat : n = next[s] /\ next'[s] = n + 1
      BY <1>1, <1>3, <2>2
    <3>7. f[i].sequence < n + 1
      BY <3>3, <3>6
    <3>8. ASSUME NEW j \in Rows(e), f[j] = e[j] PROVE f[j].sequence < n + 1
      <4>1. PICK m \in Nat : m = e[j].sequence
        BY <3>5
      <4>2. m < n
        BY <1>2, <3>6, <4>1
      <4> QED
        BY <3>8, <4>1, <4>2
    <3> HIDE DEF e, f
    <3> QED
      BY <3>2, <3>4, <3>6, <3>7, <3>8
  <2> QED
    BY <2>1, <2>2
<1>5. \A j \in Rows(row') : j \in Rows(f) /\ row'[j] = f[j]
  BY <1>1, <1>2, <1>3 DEF Rows
<1>6. \A j \in Rows(row) : row'[j] = row[j]
  BY <1>1, <1>2 DEF Rows, RowFor
<1>7. Numbered(row)'
  <2>1. Numbered(row')
    BY <1>4, <1>5, NumberedLess
  <2> QED
    BY <2>1 DEF Numbered
<1>8. Reading(s)'
  <2>1. Numbered(f) /\ \A j \in Rows(row') : f[j] = row'[j]
    BY <1>4, <1>5
  <2> QED
    BY <2>1 DEF Reading, Numbered
<1>9. \A t \in Sync \ {s} : stage'[t] \notin {"query", "put"}
  OBVIOUS
<1>10. stage'[s] = "put" /\ \A j \in Rows(existing'[s]) : existing'[s][j].sequence < next'[s]
  BY <1>4
<1> HIDE DEF e, f
<1>11. NumbersStay
  BY <1>6 DEF NumbersStay
<1>12. ASSUME NEW t \in Sync
       PROVE  /\ stage'[t] = "query" => existing'[t] = row'
              /\ stage'[t] = "put" =>
                   /\ Reading(t)'
                   /\ \A j \in Rows(existing'[t]) : existing'[t][j].sequence < next'[t]
  BY <1>8, <1>9, <1>10
<1> QED
  BY <1>7, <1>11, <1>12 DEF NumberInv

LEMMA NumberStep ==
  ASSUME CatalogTypeOK, NumberInv, CatalogNext \/ UNCHANGED catalogVars
  PROVE  NumberInv' /\ NumbersStay
<1> USE DEF catalogVars
<1>0. torn \in BOOLEAN
  BY DEF CatalogTypeOK
<1>t. ASSUME torn' PROVE NumberInv' /\ NumbersStay
  BY <1>t DEF NumberInv, NumbersStay
<1>1. ASSUME NEW s \in Sync, Fetch(s) \/ Stop(s) PROVE NumberInv' /\ NumbersStay
  <2>1. row' = row /\ torn' = torn /\ stage'[s] \in {"idle", "scan"}
    BY <1>1 DEF Fetch, Stop, CatalogTypeOK
  <2>2. \A t \in Sync \ {s} : UNCHANGED <<stage[t], existing[t], next[t]>>
    BY <1>1 DEF Fetch, Stop, CatalogTypeOK
  <2> QED
    BY <2>1, <2>2, NumberKept
<1>2. ASSUME NEW s \in Sync, Scan(s) PROVE NumberInv' /\ NumbersStay
  <2>1. PICK v \in Views : /\ existing' = [existing EXCEPT ![s] = v]
                          /\ torn' = (torn \/ v # row)
    BY <1>2 DEF Scan
  <2>2. row' = row /\ stage'[s] = "query" /\ existing'[s] = v
    BY <1>2, <2>1 DEF Scan, CatalogTypeOK
  <2>3. \A t \in Sync \ {s} : UNCHANGED <<stage[t], existing[t], next[t]>>
    BY <1>2, <2>1 DEF Scan, CatalogTypeOK
  <2>4. (torn' = FALSE => torn = FALSE) /\ (torn' \/ v = row)
    BY <1>0, <2>1
  <2> QED
    BY <2>2, <2>3, <2>4, NumberKept
<1>3. ASSUME NEW s \in Sync, Query(s) PROVE NumberInv' /\ NumbersStay
  <2>1. PICK v \in Views, n \in 0 .. MaxSequence :
          /\ \A i \in Rows(v) : v[i].sequence < n
          /\ next' = [next EXCEPT ![s] = n]
          /\ torn' = (torn \/ v # row)
    BY <1>3 DEF Query, IsNext
  <2>2. /\ row' = row /\ stage[s] = "query" /\ stage'[s] = "put" /\ existing'[s] = existing[s]
        /\ next'[s] = n
    BY <1>3, <2>1 DEF Query, CatalogTypeOK
  <2>3. \A t \in Sync \ {s} : UNCHANGED <<stage[t], existing[t], next[t]>>
    BY <1>3, <2>1 DEF Query, CatalogTypeOK
  <2>4. /\ torn' = FALSE => torn = FALSE
        /\ torn' \/ \A i \in Rows(row) : row[i].sequence < next'[s]
    BY <1>0, <2>1, <2>2
  <2> QED
    BY <2>2, <2>3, <2>4, NumberKept
<1>4. ASSUME NEW s \in Sync, Put(s) PROVE NumberInv' /\ NumbersStay
  <2>1. feed[s] \in Seq(Incident \cup {None}) /\ feed[s] # <<>>
    BY <1>4 DEF Put, CatalogTypeOK
  <2>2. Head(feed[s]) \in Incident \cup {None}
    BY <2>1, HeadTailProperties
  <2>3. stage' = stage /\ stage[s] = "put"
    BY <1>4 DEF Put
  <2>4. CASE UNCHANGED <<row, existing, next, torn>>
    BY <2>3, <2>4, NumberKept
  <2>5. ASSUME NEW i \in Incident, WriteRow(i, RowFor(s, i)),
               existing' = [existing EXCEPT ![s][i] = RowFor(s, i)],
               next' = [next EXCEPT ![s] = IF existing[s][i] = NoRow THEN @ + 1 ELSE @],
               torn' = (torn \/ \E t \in Sync \ {s} : stage[t] \in {"query", "put"})
        PROVE  NumberInv' /\ NumbersStay
    <3>1. CASE ~torn'
      <4>1. torn = FALSE /\ \A t \in Sync \ {s} : stage[t] \notin {"query", "put"}
        BY <1>0, <2>5, <3>1
      <4>2. row' = [row EXCEPT ![i] = RowFor(s, i)]
        BY <2>5 DEF WriteRow
      <4> QED
        BY <2>3, <2>5, <3>1, <4>1, <4>2, NumberPut
    <3> QED
      BY <1>t, <3>1
  <2> QED
    BY <1>4, <2>2, <2>4, <2>5 DEF Put
<1>5. ASSUME NEW i \in Incident, DeleteRow(i) PROVE NumberInv' /\ NumbersStay
  <2>1. CASE ~torn'
    <3>1. torn = FALSE /\ \A s \in Sync : stage[s] # "query"
      BY <1>0, <1>5, <2>1 DEF DeleteRow
    <3>2. UNCHANGED <<stage, existing, next>> /\ row' = [row EXCEPT ![i] = NoRow]
      BY <1>5 DEF DeleteRow, WriteRow
    <3>3. \A j \in Rows(row') : j \in Rows(row) /\ row'[j] = row[j]
      BY <3>2 DEF Rows, CatalogTypeOK
    <3>4. Numbered(row)'
      <4>1. Numbered(row) /\ Numbered(row')
        BY <3>1, <3>3, NumberedLess DEF NumberInv
      <4> QED
        BY <4>1 DEF Numbered
    <3>5. \A s \in Sync : stage[s] = "put" =>
            /\ Reading(s)'
            /\ \A j \in Rows(existing[s]) : existing[s][j].sequence < next[s]
      <4> SUFFICES ASSUME NEW s \in Sync, stage[s] = "put"
                   PROVE  /\ Reading(s)'
                          /\ \A j \in Rows(existing[s]) : existing[s][j].sequence < next[s]
        OBVIOUS
      <4>1. /\ Numbered(existing[s])
            /\ \A j \in Rows(row) : existing[s][j] = row[j]
            /\ \A j \in Rows(existing[s]) : existing[s][j].sequence < next[s]
        BY <3>1 DEF NumberInv, Reading
      <4>2. \A j \in Rows(row') : existing'[s][j] = row'[j]
        BY <3>2, <3>3, <4>1
      <4>3. Numbered(existing[s])'
        BY <3>2, <4>1 DEF Numbered
      <4> QED
        BY <4>1, <4>2, <4>3 DEF Reading
    <3>6. NumbersStay
      BY <3>3 DEF NumbersStay
    <3> QED
      BY <3>1, <3>2, <3>4, <3>5, <3>6 DEF NumberInv
  <2> QED
    BY <1>t, <2>1
<1>6. CASE UNCHANGED <<row, stage, existing, next, torn>>
  BY <1>6, NumberKept
<1>7. ASSUME NEW i \in Incident, Settle(i) PROVE UNCHANGED <<row, stage, existing, next, torn>>
  BY <1>7 DEF Settle
<1> QED
  BY <1>1, <1>2, <1>3, <1>4, <1>5, <1>6, <1>7 DEF CatalogNext, SyncStep

\* No sync changes the number or the name of an incident, for any syncs,
\* incidents and deletions, unless what a sync read has been out of date
\* (sync_incident_catalog.py:36 and 43).
THEOREM NamesStay == Spec => NamesStable
<1>1. Typed /\ CatalogTypeOK /\ NumberInv /\ [Next]_vars =>
        /\ NumberInv'
        /\ [torn' \/ \A i \in Rows(row) : i \in Rows(row') => row'[i] = row[i]]_catalogVars
  BY CatalogSteps, NumberStep DEF NumbersStay
<1> QED
  BY <1>1, NumberInit, TypedAlways, CatalogTypeAlways, PTL DEF Spec, NamesStable

\* No two incidents have one number or one name, whatever syncs died halfway,
\* the tracking service repeats, and is deleted before, after or while a sync
\* puts, unless what a sync read has been out of date
\* (sync_incident_catalog.py:35-43).
THEOREM NamesDiffer == Spec => []NamesDistinct
<1>1. Typed /\ CatalogTypeOK /\ NumberInv /\ [Next]_vars => NumberInv'
  BY CatalogSteps, NumberStep
<1>2. ASSUME NumberInv PROVE NamesDistinct
  <2> SUFFICES ASSUME Numbered(row), NEW i \in Rows(row), NEW j \in Rows(row), i # j
               PROVE  row[i].sequence # row[j].sequence /\ row[i].name # row[j].name
    BY <1>2 DEF NumberInv, NamesDistinct
  <2>1. row[i].sequence # row[j].sequence
    BY DEF Numbered
  <2>2. row[i].sequence \in Nat \ {0} /\ row[j].sequence \in Nat \ {0}
    BY DEF Numbered
  <2>3. ToAlpha(row[i].sequence) # ToAlpha(row[j].sequence)
    BY <2>1, <2>2, NamesAreUnique
  <2> QED
    BY <2>1, <2>3 DEF Numbered
<1> QED
  BY <1>1, <1>2, NumberInit, CatalogTypeAlways, TypedAlways, PTL DEF Spec
=============================================================================
