------------------------------ MODULE MetricDB ------------------------------
(***************************************************************************)
(* The store of metrics, internal/metric/database/metric.go: one bbolt     *)
(* bucket per entity that maps the id of a metric to its row, and one      *)
(* bucket, "entity:keys:", that lists the entities.  Every operation is    *)
(* one transaction, so it is an operator from the store before to the      *)
(* store after; a transaction that fails leaves the store as it was.       *)
(*                                                                         *)
(* A metric is a record with (at least) the fields id, entity and status.  *)
(* Its id is a fresh UUID, so it belongs to one entity.  Store is not      *)
(* called by the program and is left out.                                  *)
(***************************************************************************)
EXTENDS Naturals, Sequences, FiniteSets

(* The empty database: no row, and no bucket of keys. *)
EmptyDB == [rows |-> {}, keys |-> {}]

Key(m) == <<m.entity, m.id>>

(* The values Put leaves behind when a batch is put in order: for every    *)
(* key, the last.                                                          *)
LastPut(batch) ==
  {batch[i] : i \in {i \in DOMAIN batch :
                       \A j \in DOMAIN batch :
                         Key(batch[j]) = Key(batch[i]) => j <= i}}

(* AppendMany puts every metric into the bucket of its entity.  The entity *)
(* is listed only by the call that creates the bucket of keys: when the    *)
(* bucket exists, nothing is put into it.                                  *)
AppendMany(db, batch) ==
  [rows |-> {r \in db.rows : \A i \in DOMAIN batch : Key(batch[i]) # Key(r)}
              \cup LastPut(batch),
   keys |-> IF db.keys = {} /\ batch # <<>> THEN {batch[1].entity} ELSE db.keys]

DeleteMany(db, metrics) ==
  [db EXCEPT !.rows = {r \in @ : \A m \in metrics : Key(m) # Key(r)}]

Delete(db, m) == DeleteMany(db, {m})

(* Keys and FindAll see the entities that are listed, FindByEntity and     *)
(* CountByEntity any entity; CountByEntity counts rows of every status.    *)
(* The filter of a caller is the set of the rows that pass it.             *)
Keys(db) == db.keys

FindAll(db) == {r \in db.rows : r.entity \in db.keys}

FindByEntity(db, e, wanted) == {r \in db.rows \cap wanted : r.entity = e}

CountByEntity(db, e) == Cardinality({r \in db.rows : r.entity = e})

(* Filters of the callers. *)
IsProcessed(m) == m.status = "processed"
IsNew(m) == m.status = "new"
=============================================================================
