-------------------------- MODULE IncidentCatalog --------------------------
(***************************************************************************)
(* The local catalog of incidents and its synchronization with the         *)
(* IncidentTracking service (application/usecases/                         *)
(* sync_incident_catalog.py, adapters/external/incident_tracking_client.py,*)
(* adapters/persistence/incident_catalog_repository.py).                   *)
(*                                                                         *)
(* A sync fetches the incidents, reads the catalog, asks the order index   *)
(* for the highest number given so far, and then puts the incidents one    *)
(* after the other: known ones keep number and name, new ones get the next *)
(* number and a name made of it.  It may die after any of these steps.     *)
(* Nothing keeps other syncs, or somebody who clears the catalog, apart.   *)
(*                                                                         *)
(* Neither the scan nor the index is read consistently, and a scan comes   *)
(* in pages: a row written or deleted lately may be read as it was before, *)
(* each row for itself, until it has settled, and nothing says when.       *)
(*                                                                         *)
(* Definitions whose name starts with Bug are wrong variants of the one    *)
(* that follows them; they are not part of the specification.              *)
(***************************************************************************)
EXTENDS Integers, Sequences, FiniteSets

CONSTANTS
  Incident,    \* incident identifiers
  Sync,        \* concurrent invocations of the sync
  None,
  Feed,        \* what the tracking service may answer: sequences of incidents,
               \* None for a row without a usable incident_id
  Letters,     \* letters of a name (26)
  MaxSequence  \* bound of the model: no incident is numbered higher

ASSUME CatalogAssumption ==
  /\ None \notin Incident
  /\ Feed \subseteq Seq(Incident \cup {None})
  /\ Letters \in Nat \ {0}
  /\ MaxSequence \in Nat

VARIABLES
  row,      \* IncidentCatalogTable
  older,    \* the rows a reader may still get instead
  stage,    \* where each sync is
  feed,     \* incidents it still has to put
  existing, \* the rows it knows of
  next,     \* the number it gives to the next new one
  torn      \* history: has what a sync read been out of date?  TRUE after a
            \* stale read, a deletion between the scan and the query of a sync,
            \* or a put by another sync between its scan and its end

catalogVars == <<row, older, stage, feed, existing, next, torn>>

-----------------------------------------------------------------------------
(* Numbers and names.                                                      *)

NoRow == [sequence |-> 0, name |-> <<>>]

\* The letters _to_alpha collects: numbers without a zero digit, A .. Z, AA,
\* AB ...; letters from 0.
Spell[n \in Nat] ==
  IF n = 0 THEN <<>> ELSE Append(Spell[(n - 1) \div Letters], (n - 1) % Letters)

\* _to_alpha: "A" if there are none.
ToAlpha(n) == IF Spell[n] = <<>> THEN <<0>> ELSE Spell[n]

Rows(r) == {i \in Incident : r[i] # NoRow}

BugCounted(n, r) == n = Cardinality(Rows(r)) + 1

BugFromZero(n, r) ==
  IF Rows(r) = {} THEN n = 0 ELSE n > 0 /\ \A i \in Rows(r) : r[i].sequence < n

\* get_next_incident_sequence: one more than the last number of the index.
IsNext(n, r) ==
  /\ n > 0
  /\ \A i \in Rows(r) : r[i].sequence < n
  /\ n = 1 \/ \E i \in Rows(r) : r[i].sequence = n - 1

Syncing == {s \in Sync : stage[s] # "idle"}

\* What a scan or the index may give.
Shown(i) == {row[i]} \cup older[i]

Views ==
  {v \in [Incident -> UNION {Shown(i) : i \in Incident}] : \A i \in Incident : v[i] \in Shown(i)}

CatalogInit ==
  /\ row = [i \in Incident |-> NoRow]
  /\ older = [i \in Incident |-> {}]
  /\ stage = [s \in Sync |-> "idle"]
  /\ feed = [s \in Sync |-> <<>>]
  /\ existing = [s \in Sync |-> [i \in Incident |-> NoRow]]
  /\ next = [s \in Sync |-> 1]
  /\ torn = FALSE

WriteRow(i, r) ==
  /\ row' = [row EXCEPT ![i] = r]
  /\ older' = [older EXCEPT ![i] = Shown(i) \ {r}]

\* Every reader gets row i now.
Settle(i) ==
  /\ older[i] # {}
  /\ older' = [older EXCEPT ![i] = {}]
  /\ UNCHANGED <<row, stage, feed, existing, next, torn>>

-----------------------------------------------------------------------------
(* One synchronization.                                                    *)

\* fetch_incidents.  Whatever fails in it ends the sync before it began.
Fetch(s) ==
  /\ stage[s] = "idle"
  /\ \E f \in Feed : feed' = [feed EXCEPT ![s] = f]
  /\ stage' = [stage EXCEPT ![s] = "scan"]
  /\ UNCHANGED <<row, older, existing, next, torn>>

\* list_all_incidents.
Scan(s) ==
  /\ stage[s] = "scan"
  /\ \E v \in Views :
       /\ existing' = [existing EXCEPT ![s] = v]
       /\ torn' = (torn \/ v # row)
  /\ stage' = [stage EXCEPT ![s] = "query"]
  /\ UNCHANGED <<row, older, feed, next>>

Query(s) ==
  /\ stage[s] = "query"
  /\ \E v \in Views, n \in 0 .. MaxSequence :
       /\ IsNext(n, v)
       /\ next' = [next EXCEPT ![s] = n]
       /\ torn' = (torn \/ v # row)
  /\ stage' = [stage EXCEPT ![s] = "put"]
  /\ UNCHANGED <<row, older, feed, existing>>

\* _resolve_sequence, and the name kept or built.
BugRenumber(s, i) ==
  [sequence |-> next[s], name |-> ToAlpha(next[s])]

RowFor(s, i) ==
  IF existing[s][i] # NoRow THEN existing[s][i]
  ELSE [sequence |-> next[s], name |-> ToAlpha(next[s])]

\* upsert_incident of the next fetched incident; a row without an id is skipped.
Put(s) ==
  LET i == Head(feed[s]) IN
  /\ stage[s] = "put"
  /\ feed[s] # <<>>
  /\ feed' = [feed EXCEPT ![s] = Tail(@)]
  /\ \/ /\ i = None
        /\ UNCHANGED <<row, older, existing, next, torn>>
     \/ /\ i # None
        /\ next[s] <= MaxSequence
        /\ WriteRow(i, RowFor(s, i))
        /\ existing' = [existing EXCEPT ![s][i] = RowFor(s, i)]
        /\ next' = [next EXCEPT ![s] = IF existing[s][i] = NoRow THEN @ + 1 ELSE @]
        /\ torn' = (torn \/ \E t \in Sync \ {s} : stage[t] \in {"query", "put"})
  /\ UNCHANGED stage

\* All is put, a call raised, or the invocation dies.
Stop(s) ==
  /\ s \in Syncing
  /\ stage' = [stage EXCEPT ![s] = "idle"]
  /\ feed' = [feed EXCEPT ![s] = <<>>]
  /\ existing' = [existing EXCEPT ![s] = [i \in Incident |-> NoRow]]
  /\ next' = [next EXCEPT ![s] = 1]
  /\ UNCHANGED <<row, older, torn>>

SyncStep(s) == Fetch(s) \/ Scan(s) \/ Query(s) \/ Put(s) \/ Stop(s)

\* One delete_item of delete_all_incidents.
DeleteRow(i) ==
  /\ WriteRow(i, NoRow)
  /\ torn' = (torn \/ \E s \in Sync : stage[s] = "query")
  /\ UNCHANGED <<stage, feed, existing, next>>

CatalogNext ==
  \/ \E s \in Sync : SyncStep(s)
  \/ \E i \in Incident : Settle(i) \/ DeleteRow(i)

CatalogSpec == CatalogInit /\ [][CatalogNext]_catalogVars

-----------------------------------------------------------------------------
(* Properties.                                                             *)

Row == [sequence : Nat, name : Seq(Nat)]

\* Every variable keeps its type (sync_incident_catalog.py:44-56).
CatalogTypeOK ==
  /\ row \in [Incident -> Row]
  /\ older \in [Incident -> SUBSET Row]
  /\ stage \in [Sync -> {"idle", "scan", "query", "put"}]
  /\ feed \in [Sync -> Seq(Incident \cup {None})]
  /\ existing \in [Sync -> [Incident -> Row]]
  /\ next \in [Sync -> Nat \ {0}]
  /\ torn \in BOOLEAN

\* No two incidents have one number or one name, whatever syncs died halfway,
\* the tracking service repeats, and is deleted before, after or while a sync
\* puts (sync_incident_catalog.py:35-43).  Once what a sync read has been out
\* of date (torn) two incidents may share both.
NamesDistinct ==
  torn \/ \A i, j \in Rows(row) :
    i # j => row[i].sequence # row[j].sequence /\ row[i].name # row[j].name

\* "Existing incident keeps existing incidentName and sequence"
\* (docs/AsynchronousFunctionContract.md:452): no put changes them, unless what
\* a sync read has been out of date (sync_incident_catalog.py:36 and 43).
NamesStable ==
  [][torn' \/ \A i \in Rows(row) : i \in Rows(row') => row'[i] = row[i]]_catalogVars
=============================================================================
