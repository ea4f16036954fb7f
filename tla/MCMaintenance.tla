--------------------------- MODULE MCMaintenance ---------------------------
(***************************************************************************)
(* Instance of Maintenance for TLC: MCMaintenance.cfg.  All of it at once  *)
(* is out of reach; the run explores the states in Scope, each part of     *)
(* which has one interplay in full and holds the others still.             *)
(***************************************************************************)
EXTENDS Maintenance, TLC

CONSTANTS i1, i2, y1, y2, q1, e1, u1, o1, o2, none

TwoIncidents == {i1, i2}
TwoSyncs == {y1, y2}
OneRequest == {q1}
OneEvent == {e1}
OneUpdate == {u1}
TwoOperations == {o1, o2}

\* One incident; both, with an unusable row and a repeated one.
Feeds == { <<i1>>, <<i2, none, i1, i2>> }

-----------------------------------------------------------------------------

OneSync == stage[y2] = "idle"

\* One sync, and one incident only.
OneIncident ==
  /\ OneSync
  /\ feed[y1] \in {<<>>, <<i1>>}
  /\ Shown(i2) = {NoRow}

OneOperation == phase[o2] = "idle"

\* Two syncs and a clearing of the catalog.
Catalogs ==
  /\ creating[q1] = "new"
  /\ kind[o1] = "catalog"
  /\ OneOperation

\* Orphans are deleted while two incidents are synced.
Listings ==
  /\ OneSync
  /\ kind[o1] = "orphaned"
  /\ OneOperation
  /\ used = {}

\* Orphans are deleted while the catalog is cleared and synced again.
Operations ==
  /\ OneIncident
  /\ kind[o1] = "orphaned"
  /\ used = {}

\* Every other operation; "all" deletes as "withRequests" does.
Clearings ==
  /\ OneIncident
  /\ kind[o1] # "all"
  /\ OneOperation
  /\ used = {}

\* Items are deleted while a writer changes the request; no sync runs after its creation.
Writers ==
  /\ OneIncident
  /\ creating[q1] = "new" \/ stage[y1] = "idle"
  /\ kind[o1] \in {"requests", "orphaned"}
  /\ OneOperation
  /\ Cardinality(used) <= 1

\* After a torn sync nothing is claimed of numbers and names, and to an
\* operation a row is a row whatever its number.
Scope ==
  /\ ~torn
  /\ incident[q1] = i1
  /\ kind[o2] = "catalog"
  /\ Catalogs \/ Listings \/ Operations \/ Clearings \/ Writers
=============================================================================
