------------------------- MODULE DBSchedulerProofs --------------------------
(***************************************************************************)
(* What the clean-up of the store never does, for all metrics, entities,   *)
(* creation times and limits, however many metrics are stored while it     *)
(* runs.                                                                   *)
(*                                                                         *)
(* Between the fetch and the deletion the store changes.  FetchedInv says  *)
(* what stays of the fetched rows: their metrics were stored as processed, *)
(* so no one else deletes them, but a late row may say new again.          *)
(***************************************************************************)
EXTENDS DBScheduler, FiniteSetTheorems, TLAPS

(* Rows are equal to what was written; a row says processed only of a      *)
(* metric that was stored as processed.                                    *)
StoreInv ==
  /\ IsFiniteSet(db.rows)
  /\ \A r \in db.rows :
       /\ r.id \in Metric
       /\ r = Row(r.id, r.status)
       /\ IsProcessed(r) => WasProcessed(r)

(* The row that the store holds for the metric of r, if any. *)
Has(d, r) == \E x \in d.rows : Key(x) = Key(r)

FetchedInv ==
  pc = "delete" =>
    /\ IsFiniteSet(metrics)
    /\ \A r \in metrics :
         /\ r.id \in Metric
         /\ r = Row(r.id, "processed")
         /\ r.entity = entity
         /\ WasProcessed(r)
         /\ Has(db, r)
    /\ pass = "outdated" => \A r \in metrics : now - r.at > MaxStorageTime

Inv == TypeOK /\ StoreInv /\ FetchedInv

LEMMA RowFacts ==
  ASSUME NEW m \in Metric, NEW s \in {"new", "processed"}
  PROVE  /\ Row(m, s) \in Rows
         /\ Row(m, s).id = m /\ Row(m, s).status = s
         /\ Row(m, s).entity = EntityOf[m] /\ EntityOf[m] \in Entities
         /\ Row(m, s).at = CreatedAt[m] /\ CreatedAt[m] \in Nat
BY MetricAssumption DEF Row, Rows, Entities

(* A key names one metric.                                                 *)
LEMMA KeysAreIds ==
  ASSUME NEW m \in Metric, NEW n \in Metric, NEW s, NEW t
  PROVE  /\ Key(Row(m, s)) = Key(Row(n, t)) <=> m = n
         /\ Row(m, s).id = m /\ Row(m, s).entity = EntityOf[m]
         /\ Row(m, s).at = CreatedAt[m]
BY DEF Key, Row

LEMMA DeleteManyFacts ==
  ASSUME TypeOK, StoreInv, NEW d, db' = DeleteMany(db, d)
  PROVE  /\ db' \in [rows : SUBSET Rows, keys : SUBSET Entities]
         /\ db'.rows = {r \in db.rows : \A m \in d : Key(m) # Key(r)}
         /\ db'.rows \subseteq db.rows /\ IsFiniteSet(db'.rows)
<1> DEFINE kept == {r \in db.rows : \A m \in d : Key(m) # Key(r)}
<1>1. db' = [db EXCEPT !.rows = kept]
  BY DEF DeleteMany
<1>2. db \in [rows : SUBSET Rows, keys : SUBSET Entities] /\ kept \subseteq Rows
      /\ kept \subseteq db.rows
  BY DEF TypeOK
<1>3. IsFiniteSet(kept)
  BY <1>2, FS_Subset DEF StoreInv
<1>4. /\ db' \in [rows : SUBSET Rows, keys : SUBSET Entities] /\ db'.rows = kept
  <2> HIDE DEF kept
  <2> QED BY <1>1, <1>2
<1> QED BY <1>2, <1>3, <1>4

LEMMA InitInv == Init => Inv
<1> SUFFICES ASSUME Init PROVE Inv
  OBVIOUS
<1>1. db = [rows |-> {}, keys |-> {}]
  BY DEF Init, EmptyDB
<1>2. TypeOK
  BY <1>1 DEF Init, TypeOK, NoEntity
<1>3. StoreInv
  BY <1>1, FS_EmptySet DEF StoreInv
<1> QED BY <1>2, <1>3 DEF Init, Inv, FetchedInv

-----------------------------------------------------------------------------
(* What the other goroutines do.                                           *)

LEMMA StoreFacts ==
  ASSUME Inv, NEW m \in Metric, NEW s \in {"new", "processed"}, Store(m, s)
  PROVE  /\ db' \in [rows : SUBSET Rows, keys : SUBSET Entities]
         /\ IsFiniteSet(db'.rows)
         /\ Row(m, s) \in db'.rows
         /\ \A r \in db'.rows : r = Row(m, s) \/ r \in db.rows
         /\ \A r \in db.rows : Key(r) # Key(Row(m, s)) => r \in db'.rows
<1> DEFINE b == <<Row(m, s)>>
           kept == {r \in db.rows : \A i \in DOMAIN b : Key(b[i]) # Key(r)}
<1>1. DOMAIN b = {1} /\ b[1] = Row(m, s) /\ b # <<>>
  OBVIOUS
<1>2. LastPut(b) = {Row(m, s)}
  BY <1>1 DEF LastPut
<1>3. /\ db'.rows = kept \cup {Row(m, s)}
      /\ db'.keys = IF db.keys = {} THEN {EntityOf[m]} ELSE db.keys
      /\ db' = [rows |-> db'.rows, keys |-> db'.keys]
  <2>1. db' = AppendMany(db, b)
    BY DEF Store
  <2>2. db' = [rows |-> kept \cup LastPut(b),
               keys |-> IF db.keys = {} /\ b # <<>> THEN {b[1].entity} ELSE db.keys]
    BY <2>1, Zenon DEF AppendMany
  <2> HIDE DEF b, kept
  <2>3. /\ db'.rows = kept \cup LastPut(b)
        /\ db'.keys = IF db.keys = {} /\ b # <<>> THEN {b[1].entity} ELSE db.keys
        /\ db' = [rows |-> db'.rows, keys |-> db'.keys]
    BY <2>2
  <2>4. b[1].entity = EntityOf[m]
    BY <1>1, RowFacts
  <2> QED BY <1>1, <1>2, <2>3, <2>4
<1>4. kept = {r \in db.rows : Key(Row(m, s)) # Key(r)}
  BY <1>1
<1>5. IsFiniteSet(db'.rows)
  <2>1. IsFiniteSet(kept)
    BY FS_Subset DEF Inv, StoreInv
  <2> QED BY <1>3, <2>1, FS_AddElement
<1>6. db'.rows \subseteq Rows /\ db'.keys \subseteq Entities
  BY <1>3, RowFacts DEF Inv, TypeOK
<1> QED BY <1>3, <1>4, <1>5, <1>6

LEMMA StoreStep ==
  ASSUME Inv, NEW m \in Metric, NEW s \in {"new", "processed"}, Store(m, s)
  PROVE  Inv'
<1>1. /\ stored' = [stored EXCEPT ![m] = @ \cup {s}]
      /\ stored \in [Metric -> SUBSET {"new", "processed", "discarded"}]
      /\ UNCHANGED <<pc, pass, todo, entity, metrics, now, faults>>
  BY DEF Store, Inv, TypeOK
<1>2. /\ \A n \in Metric : stored[n] \subseteq stored'[n]
      /\ s \in stored'[m]
      /\ stored' \in [Metric -> SUBSET {"new", "processed", "discarded"}]
  BY <1>1
<1>3. TypeOK'
  BY <1>1, <1>2, StoreFacts DEF Inv, TypeOK
<1>4. ASSUME NEW r \in db'.rows
      PROVE  r.id \in Metric /\ r = Row(r.id, r.status)
             /\ (IsProcessed(r) => "processed" \in stored'[r.id])
  <2>1. CASE r = Row(m, s)
    BY <1>2, <2>1, RowFacts DEF IsProcessed
  <2>2. CASE r \in db.rows
    BY <1>2, <2>2 DEF Inv, StoreInv, WasProcessed
  <2> QED BY <2>1, <2>2, StoreFacts
<1>5. StoreInv'
  BY <1>4, StoreFacts DEF StoreInv, WasProcessed
<1>6. ASSUME NEW r, Has(db, r) PROVE Has(db, r)'
  <2>1. PICK x \in db.rows : Key(x) = Key(r)
    BY <1>6 DEF Has
  <2>2. CASE Key(x) = Key(Row(m, s))
    BY <2>1, <2>2, StoreFacts DEF Has
  <2> QED BY <2>1, <2>2, StoreFacts DEF Has
<1>7. FetchedInv'
  BY <1>1, <1>2, <1>6 DEF Inv, FetchedInv, WasProcessed
<1> QED BY <1>3, <1>5, <1>7 DEF Inv

(* What is discarded was not processed, so it is not among the fetched.    *)
LEMMA DiscardStep ==
  ASSUME Inv, NEW m \in Metric, Discard(m)
  PROVE  Inv'
<1>1. /\ "processed" \notin stored[m]
      /\ stored' = [stored EXCEPT ![m] = @ \cup {"discarded"}]
      /\ stored \in [Metric -> SUBSET {"new", "processed", "discarded"}]
      /\ UNCHANGED <<pc, pass, todo, entity, metrics, now, faults>>
  BY DEF Discard, Inv, TypeOK
<1>2. db' = DeleteMany(db, {Row(m, "new")})
  BY DEF Discard, Delete
<1>3. /\ db' \in [rows : SUBSET Rows, keys : SUBSET Entities]
      /\ db'.rows = {r \in db.rows : \A x \in {Row(m, "new")} : Key(x) # Key(r)}
      /\ db'.rows \subseteq db.rows /\ IsFiniteSet(db'.rows)
  BY <1>2, DeleteManyFacts DEF Inv
<1>4. /\ \A n \in Metric : stored[n] \subseteq stored'[n]
      /\ stored' \in [Metric -> SUBSET {"new", "processed", "discarded"}]
  BY <1>1
<1>5. TypeOK' /\ StoreInv'
  BY <1>1, <1>3, <1>4 DEF Inv, TypeOK, StoreInv, WasProcessed
<1>6. ASSUME NEW r \in metrics, pc = "delete" PROVE Has(db, r)'
  <2>1. r.id \in Metric /\ r = Row(r.id, "processed") /\ WasProcessed(r) /\ Has(db, r)
    BY <1>6 DEF Inv, FetchedInv
  <2>2. PICK x \in db.rows : Key(x) = Key(r)
    BY <2>1 DEF Has
  <2>3. r.id # m
    BY <1>1, <2>1 DEF WasProcessed
  <2>4. Key(Row(m, "new")) # Key(r)
    BY <2>1, <2>3, KeysAreIds
  <2> QED BY <1>3, <2>2, <2>4 DEF Has
<1>7. FetchedInv'
  BY <1>1, <1>4, <1>6 DEF Inv, FetchedInv, WasProcessed
<1> QED BY <1>5, <1>7 DEF Inv

LEMMA ClockStep == Inv /\ Clock => Inv'
<1> SUFFICES ASSUME Inv, Clock PROVE Inv'
  OBVIOUS
<1>1. now' = now + 1 /\ now \in Nat /\ MaxStorageTime \in Nat
      /\ UNCHANGED <<db, pc, pass, todo, entity, metrics, stored, faults>>
  BY LimitsAssumption DEF Clock, Inv, TypeOK
<1>2. \A r \in metrics : r.at \in Nat
  BY DEF Inv, TypeOK, Rows
<1>3. \A r \in metrics : now - r.at > MaxStorageTime => now' - r.at > MaxStorageTime
  BY <1>1, <1>2
<1> QED BY <1>1, <1>3 DEF Inv, TypeOK, StoreInv, FetchedInv, WasProcessed, Has

-----------------------------------------------------------------------------
(* What the clean-up does.                                                 *)

LEMMA EndPassFacts ==
  ASSUME Inv, EndPass
  PROVE  /\ pc' \in {"keys", "tick"} /\ pass' \in {"size", "outdated"}
         /\ todo' = {} /\ entity' = NoEntity /\ metrics' = {}
BY DEF EndPass, Inv, TypeOK

LEMMA FetchStep == Inv /\ Fetch => Inv'
<1> SUFFICES ASSUME Inv, Fetch PROVE Inv'
  OBVIOUS
<1>1. /\ UNCHANGED <<db, pass, todo, entity, stored, now, faults>> /\ pc' = "delete"
      /\ metrics' = IF pass = "size" THEN FindByEntity(db, entity, Processed(db))
                                     ELSE FindByEntity(db, entity, Outdated(db))
  BY DEF Fetch
<1>2. \A r \in metrics' : r \in db.rows /\ IsProcessed(r) /\ r.entity = entity
  BY <1>1 DEF FindByEntity, Processed, Outdated, IsOutdated
<1>3. pass # "size" => \A r \in metrics' : now - r.at > MaxStorageTime
  BY <1>1 DEF FindByEntity, Outdated, IsOutdated
<1>4. TypeOK'
  BY <1>1, <1>2 DEF Inv, TypeOK
<1>5. StoreInv'
  BY <1>1 DEF Inv, StoreInv, WasProcessed
<1>6. IsFiniteSet(metrics')
  <2>1. metrics' \subseteq db.rows
    BY <1>2
  <2> QED BY <2>1, FS_Subset DEF Inv, StoreInv
<1>7. ASSUME NEW r \in metrics'
      PROVE  /\ r.id \in Metric /\ r = Row(r.id, "processed") /\ r.entity = entity
             /\ WasProcessed(r) /\ Has(db, r)
  <2>1. /\ r.id \in Metric /\ r = Row(r.id, r.status) /\ WasProcessed(r)
        /\ r.status = "processed"
    BY <1>2 DEF Inv, StoreInv, IsProcessed
  <2> QED BY <1>2, <2>1 DEF Has
<1>8. FetchedInv'
  BY <1>1, <1>3, <1>6, <1>7 DEF Inv, FetchedInv, WasProcessed, Has
<1> QED BY <1>4, <1>5, <1>8 DEF Inv

LEMMA DeletionStep ==
  ASSUME Inv, NEW d, db' = DeleteMany(db, d),
         pc' = "next", metrics' = {}, UNCHANGED <<pass, todo, entity, stored, now, faults>>
  PROVE  Inv'
<1>1. /\ db' \in [rows : SUBSET Rows, keys : SUBSET Entities]
      /\ db'.rows \subseteq db.rows /\ IsFiniteSet(db'.rows)
  BY DeleteManyFacts DEF Inv
<1> QED BY <1>1 DEF Inv, TypeOK, StoreInv, FetchedInv, WasProcessed

LEMMA InvStep == Inv /\ [Next]_vars => Inv'
<1> SUFFICES ASSUME Inv, [Next]_vars PROVE Inv'
  OBVIOUS
<1>1. CASE Tick
  BY <1>1 DEF Tick, Inv, TypeOK, StoreInv, FetchedInv, WasProcessed
<1>2. CASE FetchKeys
  BY <1>2 DEF FetchKeys, Keys, Inv, TypeOK, StoreInv, FetchedInv, WasProcessed
<1>3. CASE NextEntity
  BY <1>3 DEF NextEntity, Inv, TypeOK, StoreInv, FetchedInv, WasProcessed
<1>4. CASE LastEntity
  BY <1>4, EndPassFacts DEF LastEntity, Inv, TypeOK, StoreInv, FetchedInv, WasProcessed
<1>5. CASE Count
  BY <1>5 DEF Count, Inv, TypeOK, StoreInv, FetchedInv, WasProcessed
<1>6. CASE Fetch
  BY <1>6, FetchStep
<1>7. CASE DeleteOldest
  BY <1>7, DeletionStep DEF DeleteOldest
<1>8. CASE SlicePanic
  BY <1>8 DEF SlicePanic, Inv, TypeOK, StoreInv, FetchedInv, WasProcessed
<1>9. CASE DeleteOutdated
  BY <1>9, DeletionStep DEF DeleteOutdated
<1>10. CASE CallFails
  BY <1>10, EndPassFacts DEF CallFails, Inv, TypeOK, StoreInv, FetchedInv, WasProcessed
<1>11. ASSUME NEW m \in Metric, (\E s \in {"new", "processed"} : Store(m, s)) \/ Discard(m)
       PROVE  Inv'
  BY <1>11, StoreStep, DiscardStep
<1>12. CASE Clock
  BY <1>12, ClockStep
<1>13. CASE UNCHANGED vars
  BY <1>13 DEF vars, Inv, TypeOK, StoreInv, FetchedInv, WasProcessed, Has
<1> QED BY <1>1, <1>2, <1>3, <1>4, <1>5, <1>6, <1>7, <1>8, <1>9, <1>10, <1>11,
           <1>12, <1>13 DEF Next, Schedule

LEMMA InvAlways == Spec => []Inv
BY InitInv, InvStep, PTL DEF Spec

(* The variables keep their types.                                         *)
THEOREM TypeCorrect == Spec => []TypeOK
<1>1. Inv => TypeOK
  BY DEF Inv
<1> QED BY <1>1, InvAlways, PTL

-----------------------------------------------------------------------------
(* What is deleted.                                                        *)

(* The rows that are deleted are those of the metrics in d.                *)
LEMMA Deleted ==
  ASSUME Inv, NEW d, d \subseteq metrics, pc = "delete", db' = DeleteMany(db, d)
  PROVE  /\ db'.rows = {r \in db.rows : \A m \in d : Key(m) # Key(r)}
         /\ \A r \in db.rows \ db'.rows :
              \E m \in d : m.id = r.id /\ m.at = r.at /\ WasProcessed(r)
<1>1. db'.rows = {r \in db.rows : \A m \in d : Key(m) # Key(r)}
  BY DeleteManyFacts DEF Inv
<1>2. ASSUME NEW r \in db.rows \ db'.rows
      PROVE  \E m \in d : m.id = r.id /\ m.at = r.at /\ WasProcessed(r)
  <2>1. PICK m \in d : Key(m) = Key(r)
    BY <1>1
  <2>2. /\ m.id \in Metric /\ m = Row(m.id, "processed") /\ WasProcessed(m)
        /\ r.id \in Metric /\ r = Row(r.id, r.status)
    BY <2>1 DEF Inv, FetchedInv, StoreInv
  <2>3. m.id = r.id
    BY <2>1, <2>2, KeysAreIds
  <2>4. m.at = CreatedAt[m.id] /\ r.at = CreatedAt[r.id]
    BY <2>2, KeysAreIds
  <2> QED BY <2>2, <2>3, <2>4 DEF WasProcessed
<1> QED BY <1>1, <1>2

LEMMA OldestDeleted ==
  ASSUME Inv, DeleteOldest
  PROVE  \E d \in Oldest(Cardinality(metrics) - MaxItemsStored) :
           d \subseteq metrics /\ db' = DeleteMany(db, d)
BY DEF DeleteOldest, Oldest

(* A metric that waits, in the store or in the queue, to be processed is   *)
(* never deleted by the clean-up, though it fetches and deletes in two     *)
(* transactions and flushes write, and overwrite, rows in between.         *)
THEOREM WaitingIsNeverDeleted == Spec => OnlyProcessedDeleted
<1>1. Inv /\ [Next]_vars =>
        [DeleteOldest \/ DeleteOutdated => \A r \in db.rows \ db'.rows : WasProcessed(r)]_vars
  <2> SUFFICES ASSUME Inv, DeleteOldest \/ DeleteOutdated, NEW r \in db.rows \ db'.rows
               PROVE  WasProcessed(r)
    OBVIOUS
  <2>1. PICK d : d \subseteq metrics /\ db' = DeleteMany(db, d)
    BY OldestDeleted DEF DeleteOutdated
  <2>2. pc = "delete"
    BY DEF DeleteOldest, DeleteOutdated
  <2> QED BY <2>1, <2>2, Deleted
<1> QED BY <1>1, InvAlways, PTL DEF Spec, OnlyProcessedDeleted

(* What the pass over ages deletes is older than the limit.                *)
THEOREM YoungAreNotDeleted == Spec => DeletesOnlyOutdated
<1>1. Inv /\ [Next]_vars =>
        [DeleteOutdated => \A r \in db.rows \ db'.rows : now - r.at > MaxStorageTime]_vars
  <2> SUFFICES ASSUME Inv, DeleteOutdated, NEW r \in db.rows \ db'.rows
               PROVE  now - r.at > MaxStorageTime
    OBVIOUS
  <2>1. PICK m \in metrics : m.at = r.at
    BY Deleted DEF DeleteOutdated
  <2> QED BY <2>1 DEF Inv, FetchedInv, DeleteOutdated
<1> QED BY <1>1, InvAlways, PTL DEF Spec, DeletesOnlyOutdated

(* Every metric that was fetched and is not in d keeps a row.         *)
LEMMA KeptHaveRows ==
  ASSUME Inv, DeleteOldest, NEW d, d \subseteq metrics, db' = DeleteMany(db, d),
         NEW k \in metrics \ d
  PROVE  \E x \in KeptOf(entity, db') : x.id = k.id
<1>1. /\ k.id \in Metric /\ k = Row(k.id, "processed") /\ k.entity = entity
      /\ WasProcessed(k) /\ Has(db, k)
  BY DEF DeleteOldest, Inv, FetchedInv
<1>2. PICK x \in db.rows : Key(x) = Key(k)
  BY <1>1 DEF Has
<1>3. x.id \in Metric /\ x = Row(x.id, x.status)
  BY <1>2 DEF Inv, StoreInv
<1>4. x.id = k.id
  BY <1>1, <1>2, <1>3, KeysAreIds
<1>5. x.entity = entity
  BY <1>1, <1>3, <1>4, KeysAreIds
<1>6. ASSUME NEW m \in d PROVE Key(m) # Key(x)
  <2>1. m.id \in Metric /\ m = Row(m.id, "processed")
    BY DEF DeleteOldest, Inv, FetchedInv
  <2>2. m.id # k.id
    BY <1>1, <2>1
  <2> QED BY <1>3, <1>4, <2>1, <2>2, KeysAreIds
<1>7. x \in db'.rows
  BY <1>6, Deleted DEF DeleteOldest
<1> QED BY <1>1, <1>4, <1>5, <1>7 DEF KeptOf, WasProcessed

(* Rows of one metric among the fetched are one row. *)
LEMMA FetchedAreDistinct ==
  ASSUME Inv, pc = "delete", NEW r \in metrics, NEW k \in metrics, r.id = k.id
  PROVE  r = k
BY DEF Inv, FetchedInv

(* The pass over sizes leaves at least maxItemsStored processed metrics,   *)
(* and of those it fetched the newest.                                     *)
THEOREM NewestAreKept == Spec => KeepsNewest
<1>1. ASSUME Inv, DeleteOldest
      PROVE  /\ Cardinality(KeptOf(entity, db')) >= MaxItemsStored
             /\ \A r \in db.rows \ db'.rows, k \in metrics :
                  k.at < r.at => \A left \in db'.rows : Key(left) # Key(k)
  <2> DEFINE n == Cardinality(metrics) - MaxItemsStored
             kept == KeptOf(entity, db')
  <2>1. PICK d \in Oldest(n) : d \subseteq metrics /\ db' = DeleteMany(db, d)
    BY <1>1, OldestDeleted
  <2>2. pc = "delete" /\ IsFiniteSet(metrics)
    BY <1>1 DEF DeleteOldest, Inv, FetchedInv
  <2>3. /\ Cardinality(metrics) \in Nat
        /\ MaxItemsStored \in Nat /\ Cardinality(d) = n
    BY <2>2, FS_CardinalityType, LimitsAssumption DEF Oldest
  <2>4. Cardinality(metrics \ d) = MaxItemsStored
    <3>1. metrics \cap d = d
      BY <2>1
    <3>2. Cardinality(metrics \ d) = Cardinality(metrics) - Cardinality(metrics \cap d)
      BY <2>2, FS_Difference
    <3>3. \A c, k \in Nat : c - (c - k) = k
      OBVIOUS
    <3>4. Cardinality(metrics \ d) = Cardinality(metrics) - (Cardinality(metrics) - MaxItemsStored)
      BY <2>3, <3>1, <3>2, Zenon
    <3> QED BY <2>3, <3>3, <3>4, Zenon
  <2>5. IsFiniteSet(kept)
    <3>1. IsFiniteSet(db'.rows)
      BY <1>1, <2>1, DeleteManyFacts DEF Inv
    <3>2. kept \subseteq db'.rows
      BY DEF KeptOf
    <3> QED BY <3>1, <3>2, FS_Subset
  <2>6. Cardinality(kept) >= MaxItemsStored
    <3> DEFINE f == [k \in metrics \ d |-> CHOOSE x \in kept : x.id = k.id]
    <3>1. \A k \in metrics \ d : f[k] \in kept /\ f[k].id = k.id
      BY <1>1, <2>1, KeptHaveRows
    <3>2. f \in [metrics \ d -> kept]
      BY <3>1
    <3>3. \A r, k \in metrics \ d : f[r] = f[k] => r = k
      BY <1>1, <2>2, <3>1, FetchedAreDistinct
    <3>4. f \in Injection(metrics \ d, kept)
      <4> HIDE DEF f
      <4> QED BY <3>2, <3>3 DEF Injection, IsInjective
    <3>5. Cardinality(metrics \ d) <= Cardinality(kept)
      <4> HIDE DEF f, kept
      <4> QED BY <2>5, <3>4, FS_Injection
    <3>6. Cardinality(kept) \in Nat
      BY <2>5, FS_CardinalityType
    <3> QED BY <2>3, <2>4, <3>5, <3>6
  <2>7. ASSUME NEW r \in db.rows \ db'.rows, NEW k \in metrics, k.at < r.at,
               NEW left \in db'.rows
        PROVE  Key(left) # Key(k)
    <3>1. PICK m \in d : m.at = r.at
      BY <1>1, <2>1, <2>2, Deleted
    <3>2. m.at \in Nat /\ k.at \in Nat
      BY <1>1, <2>1 DEF Inv, TypeOK, Rows
    <3>3. k \notin d => m.at <= k.at
      BY <3>1 DEF Oldest
    <3>4. k \in d
      BY <2>7, <3>1, <3>2, <3>3
    <3> QED BY <1>1, <2>1, <2>2, <3>4, Deleted
  <2> QED BY <2>6, <2>7
<1>2. Inv /\ [Next]_vars =>
        [DeleteOldest =>
           /\ Cardinality(KeptOf(entity, db')) >= MaxItemsStored
           /\ \A r \in db.rows \ db'.rows, k \in metrics :
                k.at < r.at => \A left \in db'.rows : Key(left) # Key(k)]_vars
  BY <1>1
<1> QED BY <1>2, InvAlways, PTL DEF Spec, KeepsNewest

=============================================================================
