---------------------------- MODULE DBScheduler ----------------------------
(***************************************************************************)
(* The clean-up of the store, internal/dispatcher/db_scheduler.go.  At     *)
(* every tick it goes through the listed entities twice: first it deletes  *)
(* the oldest metrics of every entity that has more than maxItemsStored,   *)
(* then the metrics older than maxStorageTime.  Each pass is a sequence of *)
(* separate transactions, while workers and flushes change the store.      *)
(***************************************************************************)
EXTENDS MetricDB

CONSTANTS Metric,          \* the ids of the metrics
          EntityOf,        \* the entity of a metric
          CreatedAt,       \* its creation time, which the client chooses
          MaxItemsStored,  \* 0: no limit
          MaxStorageTime,  \* 0: no limit
          MaxFaults,       \* bound: how many calls of the store fail
          MaxNow           \* bound: the last instant

ASSUME LimitsAssumption == /\ MaxItemsStored \in Nat
                           /\ MaxStorageTime \in Nat
ASSUME MetricAssumption == CreatedAt \in [Metric -> Nat]

VARIABLES
  db,       \* the store
  pc,       \* where schedule is
  pass,     \* the pass it makes: "size" or "outdated"
  todo,     \* the entities it did not process yet in this pass
  entity,   \* the entity it processes
  metrics,  \* the metrics it fetched
  stored,   \* for each metric, what other goroutines did to its row so far
  now,      \* the clock
  faults    \* how many calls failed

vars == <<db, pc, pass, todo, entity, metrics, stored, now, faults>>

NoEntity == "none"
Entities == {EntityOf[m] : m \in Metric}

(* "tick": waiting for the ticker; "keys", "count", "fetch", "delete":     *)
(* about to make this call; "next": at the head of the loop over entities; *)
(* "panic": the process died of a panic in this goroutine.                 *)
Row(m, s) == [id |-> m, entity |-> EntityOf[m], status |-> s,
              at |-> CreatedAt[m]]

Init == /\ db = EmptyDB
        /\ pc = "tick"
        /\ pass = "size"
        /\ todo = {}
        /\ entity = NoEntity
        /\ metrics = {}
        /\ stored = [m \in Metric |-> {}]
        /\ now = 0
        /\ faults = 0

-----------------------------------------------------------------------------
(* What the other goroutines do to the store.                              *)

Alive == pc # "panic"

(* A flush appends a metric: as new, as processed or both, each once.  The *)
(* goroutines that flush are not ordered, so the row that says new may     *)
(* come after the one that says processed and overwrite it, or come after  *)
(* the metric was deleted and bring it back.                               *)
Store(m, s) ==
  /\ Alive
  /\ s \notin stored[m]
  /\ s = "processed" => "discarded" \notin stored[m]
  /\ stored' = [stored EXCEPT ![m] = @ \cup {s}]
  /\ db' = AppendMany(db, <<Row(m, s)>>)
  /\ UNCHANGED <<pc, pass, todo, entity, metrics, now, faults>>

(* process deletes a metric that it does not add to the dataset, whether   *)
(* its row reached the store yet or still waits in a buffer.               *)
Discard(m) ==
  /\ Alive
  /\ stored[m] \cap {"processed", "discarded"} = {}
  /\ stored' = [stored EXCEPT ![m] = @ \cup {"discarded"}]
  /\ db' = Delete(db, Row(m, "new"))
  /\ UNCHANGED <<pc, pass, todo, entity, metrics, now, faults>>

Clock == /\ Alive
         /\ now < MaxNow
         /\ now' = now + 1
         /\ UNCHANGED <<db, pc, pass, todo, entity, metrics, stored, faults>>

-----------------------------------------------------------------------------
(* The goroutine schedule.                                                 *)

(* case <-ticker.C: the passes that the configuration asks for. *)
Tick == /\ pc = "tick"
        /\ MaxItemsStored > 0 \/ MaxStorageTime > 0
        /\ pass' = IF MaxItemsStored > 0 THEN "size" ELSE "outdated"
        /\ pc' = "keys"
        /\ UNCHANGED <<db, todo, entity, metrics, stored, now, faults>>

(* Mutant: the pass over ages only runs when the one over sizes does not. *)
EndPassStops == /\ pc' = "tick"
                /\ UNCHANGED pass
                /\ todo' = {}
                /\ entity' = NoEntity
                /\ metrics' = {}

(* The end of a pass, after its last entity or its first error.            *)
EndPass == /\ IF pass = "size" /\ MaxStorageTime > 0
                THEN pass' = "outdated" /\ pc' = "keys"
                ELSE UNCHANGED pass /\ pc' = "tick"
           /\ todo' = {}
           /\ entity' = NoEntity
           /\ metrics' = {}

FetchKeys == /\ pc = "keys"
             /\ todo' = Keys(db)
             /\ pc' = "next"
             /\ UNCHANGED <<db, pass, entity, metrics, stored, now, faults>>

(* for i := range keys, in an order that is left open *)
NextEntity == /\ pc = "next"
              /\ \E e \in todo :
                   /\ entity' = e
                   /\ todo' = todo \ {e}
                   /\ pc' = IF pass = "size" THEN "count" ELSE "fetch"
              /\ UNCHANGED <<db, pass, metrics, stored, now, faults>>

LastEntity == /\ pc = "next"
              /\ todo = {}
              /\ EndPass
              /\ UNCHANGED <<db, stored, now, faults>>

(* All rows count, whatever their status. *)
Count == /\ pc = "count"
         /\ pc' = IF CountByEntity(db, entity) > MaxItemsStored
                    THEN "fetch" ELSE "next"
         /\ UNCHANGED <<db, pass, todo, entity, metrics, stored, now, faults>>

(* Mutant: the limit itself counts as outdated. *)
IsOutdatedEarly(r) == IsProcessed(r) /\ now - r.at >= MaxStorageTime

IsOutdated(r) == IsProcessed(r) /\ now - r.at > MaxStorageTime

Processed(d) == {r \in d.rows : IsProcessed(r)}
Outdated(d) == {r \in d.rows : IsOutdated(r)}

(* Mutant: no filter on the status. *)
FetchAny == /\ pc = "fetch"
            /\ metrics' = {r \in db.rows :
                             r.entity = entity /\ (pass = "size" \/ IsOutdated(r))}
            /\ pc' = "delete"
            /\ UNCHANGED <<db, pass, todo, entity, stored, now, faults>>

Fetch == /\ pc = "fetch"
         /\ metrics' = IF pass = "size"
                         THEN FindByEntity(db, entity, Processed(db))
                         ELSE FindByEntity(db, entity, Outdated(db))
         /\ pc' = "delete"
         /\ UNCHANGED <<db, pass, todo, entity, stored, now, faults>>

(* Mutant: the sort is the other way round. *)
Newest(n) == {d \in SUBSET metrics :
                /\ Cardinality(d) = n
                /\ \A r \in d, k \in metrics \ d : r.at >= k.at}

(* The n oldest of the fetched metrics; the sort is not stable, so metrics *)
(* of one instant come in any order.                                       *)
Oldest(n) == {d \in SUBSET metrics :
                /\ Cardinality(d) = n
                /\ \A r \in d, k \in metrics \ d : r.at <= k.at}

DeleteOldest == /\ pc = "delete"
                /\ pass = "size"
                /\ Cardinality(metrics) >= MaxItemsStored
                /\ \E d \in Oldest(Cardinality(metrics) - MaxItemsStored) :
                     db' = DeleteMany(db, d)
                /\ metrics' = {}
                /\ pc' = "next"
                /\ UNCHANGED <<pass, todo, entity, stored, now, faults>>

(* metrics[:len(metrics)-maxItemsStored] with a negative bound. *)
SlicePanic == /\ pc = "delete"
              /\ pass = "size"
              /\ Cardinality(metrics) < MaxItemsStored
              /\ pc' = "panic"
              /\ UNCHANGED <<db, pass, todo, entity, metrics, stored, now, faults>>

DeleteOutdated == /\ pc = "delete"
                  /\ pass = "outdated"
                  /\ db' = DeleteMany(db, metrics)
                  /\ metrics' = {}
                  /\ pc' = "next"
                  /\ UNCHANGED <<pass, todo, entity, stored, now, faults>>

(* Any call of the store may fail; the error ends the pass.  The slice is  *)
(* taken before the call that deletes.                                     *)
CallFails == /\ pc \in {"keys", "count", "fetch", "delete"}
             /\ pc = "delete" /\ pass = "size"
                  => Cardinality(metrics) >= MaxItemsStored
             /\ faults < MaxFaults
             /\ faults' = faults + 1
             /\ EndPass
             /\ UNCHANGED <<db, stored, now>>

Schedule == \/ Tick \/ FetchKeys \/ NextEntity \/ LastEntity \/ Count \/ Fetch
            \/ DeleteOldest \/ SlicePanic \/ DeleteOutdated \/ CallFails

Next == \/ Schedule
        \/ \E m \in Metric : (\E s \in {"new", "processed"} : Store(m, s))
                             \/ Discard(m)
        \/ Clock

Spec == Init /\ [][Next]_vars

(* The goroutine runs, the ticker ticks and bbolt answers. *)
FairSpec == Spec /\ WF_vars(Schedule)

-----------------------------------------------------------------------------
(* Properties.                                                             *)

Rows == [id : Metric, entity : Entities, status : {"new", "processed"}, at : Nat]

TypeOK == /\ db \in [rows : SUBSET Rows, keys : SUBSET Entities]
          /\ pc \in {"tick", "keys", "next", "count", "fetch", "delete", "panic"}
          /\ pass \in {"size", "outdated"}
          /\ todo \subseteq Entities
          /\ entity \in Entities \cup {NoEntity}
          /\ metrics \subseteq Rows
          /\ stored \in [Metric -> SUBSET {"new", "processed", "discarded"}]
          /\ now \in Nat
          /\ faults \in Nat

ProcessedOf(e, d) == FindByEntity(d, e, Processed(d))

(* The rows of the metrics of an entity that were stored as processed,     *)
(* whatever the rows say by now.                                           *)
WasProcessed(r) == "processed" \in stored[r.id]
KeptOf(e, d) == {r \in d.rows : r.entity = e /\ WasProcessed(r)}

(* The clean-up deletes only metrics whose processed row reached the       *)
(* store: a metric that still waits in the queue, and has to be read back  *)
(* at a restart, is never lost.  The row that is deleted may be one that   *)
(* says new and came late.                                                 *)
OnlyProcessedDeleted ==
  [][DeleteOldest \/ DeleteOutdated =>
       \A r \in db.rows \ db'.rows : WasProcessed(r)]_vars

(* The pass over sizes leaves an entity with at least maxItemsStored       *)
(* metrics that were processed, and of those it fetched with the newest,   *)
(* though flushes write and overwrite rows between its three transactions. *)
KeepsNewest ==
  [][DeleteOldest =>
       /\ Cardinality(KeptOf(entity, db')) >= MaxItemsStored
       /\ \A r \in db.rows \ db'.rows, k \in metrics :
            k.at < r.at => \A left \in db'.rows : Key(left) # Key(k)]_vars

(* The pass over ages deletes nothing that is not older than the limit.    *)
DeletesOnlyOutdated ==
  [][DeleteOutdated =>
       \A r \in db.rows \ db'.rows : now - r.at > MaxStorageTime]_vars

(* The limits hold in the end for every listed entity. *)
TooMany(e) == /\ MaxItemsStored > 0
              /\ Cardinality(ProcessedOf(e, db)) > MaxItemsStored
TooOld(e) == /\ MaxStorageTime > 0
             /\ \E r \in db.rows : r.entity = e /\ IsOutdated(r)

LimitsEnforced ==
  \A e \in Entities :
    (e \in db.keys /\ (TooMany(e) \/ TooOld(e))) ~>
      (~TooMany(e) \/ pc = "panic") /\ (~TooOld(e) \/ pc = "panic")

(* "It can maintain the required amount of data in the DB or delete old    *)
(* data depending on the configuration."                                   *)
NeverPanics == pc # "panic"
=============================================================================
