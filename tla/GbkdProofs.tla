----------------------------- MODULE GbkdProofs -----------------------------
(* Proofs about the dataset of a predictor: for every set of data points,  *)
(* workers and clients, what is searched and what is retained differ only  *)
(* by what the counter of removals knows of, and the index never runs      *)
(* empty under a search.                                                   *)
EXTENDS Gbkd, FiniteSetTheorems, TLAPS

(* A set of data points is finite, and smaller than a set around it. *)
LEMMA Finite ==
  ASSUME NEW S \in SUBSET Item
  PROVE  /\ IsFiniteSet(S)
         /\ Cardinality(S) \in Nat
         /\ Cardinality(S) = 0 <=> S = {}
         /\ \A T \in SUBSET S : Cardinality(T) <= Cardinality(S)
<1>1. IsFiniteSet(S)
  BY FS_Subset, ItemAssumption
<1>2. Cardinality(S) \in Nat
  BY <1>1, FS_CardinalityType
<1>3. Cardinality(S) = 0 <=> S = {}
  BY <1>1, FS_EmptySet
<1>4. \A T \in SUBSET S : Cardinality(T) <= Cardinality(S)
  BY <1>1, FS_Subset
<1>5. QED
  BY <1>1, <1>2, <1>3, <1>4

-----------------------------------------------------------------------------
(* Types.                                                                  *)

(* A worker that waits for the lock has a data point in its hands, and     *)
(* Balance only drops points: without these TypeOK is not inductive.       *)
HoldsItem == \A w \in Worker : work[w].at = "lock" => work[w].item \in Item
BalancesPoints == sched = "balance" => snap \subseteq points
Types == TypeOK /\ HoldsItem /\ BalancesPoints

LEMMA InitTypes == Init => Types
<1> SUFFICES ASSUME Init
             PROVE  Types
  OBVIOUS
<1>1. Cardinality(Built) \in Nat /\ Cardinality(Built) <= Cardinality(Built)
  BY Finite, ItemAssumption
<1>2. TypeOK
  BY <1>1, ItemAssumption DEF Init, TypeOK, SchedAt
<1>3. HoldsItem /\ BalancesPoints
  BY DEF Init, HoldsItem, BalancesPoints
<1>4. QED
  BY <1>2, <1>3 DEF Types

LEMMA NextTypes == Types /\ [Next]_vars => Types'
<1> SUFFICES ASSUME Types, [Next]_vars
             PROVE  Types'
  OBVIOUS
<1> USE DEF Types
<1>1. ASSUME NEW w \in Worker, NEW i \in Item, AppendItem(w, i)
      PROVE  Types'
  BY <1>1 DEF TypeOK, HoldsItem, BalancesPoints, AppendItem
<1>2. ASSUME NEW w \in Worker, Insert(w)
      PROVE  Types'
  <2>1. work[w].item \in Item
    BY <1>2 DEF HoldsItem, Insert
  <2>2. points' = points \cup {work[w].item} /\ points' \subseteq Item
    BY <1>2, <2>1 DEF TypeOK, Insert
  <2>3. Cardinality(points') <= Cardinality(points) + 1
    <3>1. IsFiniteSet(points) /\ Cardinality(points) \in Nat
      BY Finite DEF TypeOK
    <3>2. Cardinality(points \cup {work[w].item}) <= Cardinality(points) + 1
      BY <3>1, FS_AddElement
    <3>3. QED
      BY <2>2, <3>2
  <2>4. Cardinality(points) \in Nat /\ Cardinality(points') \in Nat
    BY <2>2, Finite DEF TypeOK
  <2>5. len' \in Nat /\ Cardinality(points') <= len'
    BY <1>2, <2>3, <2>4 DEF TypeOK, Insert
  <2>6. TypeOK'
    BY <1>2, <2>1, <2>2, <2>5 DEF TypeOK, Insert
  <2>7. HoldsItem' /\ BalancesPoints'
    BY <1>2 DEF TypeOK, HoldsItem, BalancesPoints, Insert
  <2>8. QED
    BY <2>6, <2>7
<1>3. ASSUME NEW w \in Worker, Count(w)
      PROVE  Types'
  BY <1>3 DEF TypeOK, HoldsItem, BalancesPoints, Count
<1>4. ASSUME NEW c \in Client, Predict(c) \/ KNN(c) \/ KNNFails(c)
      PROVE  Types'
  <2>1. UNCHANGED <<times, points, len, snap, sched, work, appendCnt, removeCnt,
                    appended>>
    BY <1>4 DEF Predict, KNN, KNNFails, Searching
  <2>2. search' \in [Client -> {"idle", "knn", "failed"}]
    BY <1>4 DEF TypeOK, Predict, KNN, KNNFails, Searching
  <2>3. leaked' \subseteq Client
    BY <1>4 DEF TypeOK, Predict, KNN, KNNFails, Searching
  <2>4. QED
    BY <2>1, <2>2, <2>3 DEF TypeOK, HoldsItem, BalancesPoints
<1>5. ASSUME NEW R \in SUBSET times, Removal(R), Sched(sched, "select")
      PROVE  Types'
  <2>1. removeCnt + Cardinality(R) \in Nat
    BY Finite DEF TypeOK
  <2>2. TypeOK'
    BY <1>5, <2>1 DEF TypeOK, Removal, Sched, SchedAt
  <2>3. QED
    BY <1>5, <2>2 DEF HoldsItem, BalancesPoints, Removal, Sched
<1>6. ASSUME RebuildOutdated \/ RebuildSize
      PROVE  Types'
  <2>1. \E R \in SUBSET times : Removal(R) /\ Sched(sched, "select")
    BY <1>6 DEF RebuildOutdated, RebuildSize, Sched
  <2>2. QED
    BY <1>5, <2>1
<1>7. ASSUME TickOutdated \/ TickSize \/ TickBalance \/ TickBuild
      PROVE  Types'
  BY <1>7 DEF TypeOK, HoldsItem, BalancesPoints, TickOutdated, TickSize,
              TickBalance, TickBuild, Sched, SchedAt
<1>8. ASSUME Balance
      PROVE  Types'
  <2>1. snap \subseteq points
    BY <1>8 DEF BalancesPoints, Balance, Sched
  <2>2. Cardinality(snap) <= Cardinality(points) /\ Cardinality(snap) \in Nat
        /\ Cardinality(points) \in Nat
    BY <2>1, Finite DEF TypeOK
  <2>3. Cardinality(snap) <= len
    BY <2>2 DEF TypeOK
  <2>4. TypeOK'
    BY <1>8, <2>3 DEF TypeOK, Balance, Sched, SchedAt
  <2>5. QED
    BY <1>8, <2>4 DEF HoldsItem, BalancesPoints, Balance, Sched
<1>9. ASSUME Build
      PROVE  Types'
  <2>1. Cardinality(snap) \in Nat /\ Cardinality(snap) <= Cardinality(snap)
    BY Finite DEF TypeOK
  <2>2. TypeOK'
    BY <1>9, <2>1 DEF TypeOK, Build, Sched, SchedAt
  <2>3. QED
    BY <1>9, <2>2 DEF HoldsItem, BalancesPoints, Build, Sched
<1>10. CASE UNCHANGED vars
  BY <1>10 DEF TypeOK, HoldsItem, BalancesPoints, vars
<1>11. QED
  BY <1>1, <1>2, <1>3, <1>4, <1>6, <1>7, <1>8, <1>9, <1>10 DEF Next, Schedule

LEMMA TypesInvariant == Spec => []Types
BY InitTypes, NextTypes, PTL DEF Spec

(* The variables keep their types, and Len never reports fewer points than *)
(* the searched tree holds, though Balance works without the lock.         *)
THEOREM TypeCorrect == Spec => []TypeOK
<1>1. Types => TypeOK
  BY DEF Types
<1>2. QED
  BY <1>1, TypesInvariant, PTL

-----------------------------------------------------------------------------
(* Removals that are not yet effective are counted.                        *)

(* Between the copy and the switch nothing is removed: one goroutine does  *)
(* both.  So what is built is retained. *)
BuildsRetained == sched = "build" => snap \subseteq times
Counted == StaleIsCounted /\ BuildsRetained

LEMMA NextCounted == Types /\ Counted /\ [Next]_vars => Counted'
<1> SUFFICES ASSUME Types, Counted, [Next]_vars
             PROVE  Counted'
  OBVIOUS
<1> USE DEF Counted
<1>1. ASSUME NEW w \in Worker, (\E i \in Item : AppendItem(w, i)) \/ Count(w)
      PROVE  Counted'
  BY <1>1 DEF StaleIsCounted, BuildsRetained, AppendItem, Count
<1>2. ASSUME NEW w \in Worker, Insert(w)
      PROVE  Counted'
  BY <1>2 DEF StaleIsCounted, BuildsRetained, Insert
<1>3. ASSUME NEW c \in Client, Predict(c) \/ KNN(c) \/ KNNFails(c)
      PROVE  Counted'
  BY <1>3 DEF StaleIsCounted, BuildsRetained, Predict, KNN, KNNFails, Searching
<1>4. ASSUME NEW R \in SUBSET times, Removal(R), Sched(sched, "select")
      PROVE  Counted'
  <2>1. BuildsRetained'
    BY <1>4 DEF BuildsRetained, Sched
  <2>2. /\ Cardinality(R) \in Nat
        /\ Cardinality(R) = 0 <=> R = {}
    BY Finite DEF Types, TypeOK
  <2>3. CASE R = {}
    BY <1>4, <2>1, <2>2, <2>3 DEF StaleIsCounted, Removal, Types, TypeOK
  <2>4. CASE R # {}
    <3>1. removeCnt' # 0
      BY <1>4, <2>2, <2>4 DEF Removal, Types, TypeOK
    <3>2. QED
      BY <2>1, <3>1 DEF StaleIsCounted
  <2>5. QED
    BY <2>3, <2>4
<1>5. ASSUME RebuildOutdated \/ RebuildSize
      PROVE  Counted'
  <2>1. \E R \in SUBSET times : Removal(R) /\ Sched(sched, "select")
    BY <1>5 DEF RebuildOutdated, RebuildSize, Sched
  <2>2. QED
    BY <1>4, <2>1
<1>6. ASSUME TickOutdated \/ TickSize \/ TickBalance \/ TickBuild
      PROVE  Counted'
  BY <1>6 DEF StaleIsCounted, BuildsRetained, TickOutdated, TickSize,
              TickBalance, TickBuild, Sched
<1>7. ASSUME Balance
      PROVE  Counted'
  BY <1>7 DEF StaleIsCounted, BuildsRetained, Balance, Sched, Types,
              BalancesPoints
<1>8. ASSUME Build
      PROVE  Counted'
  BY <1>8 DEF StaleIsCounted, BuildsRetained, Build, Sched
<1>9. CASE UNCHANGED vars
  BY <1>9 DEF StaleIsCounted, BuildsRetained, vars
<1>10. QED
  BY <1>1, <1>2, <1>3, <1>5, <1>6, <1>7, <1>8, <1>9 DEF Next, Schedule

(* As long as a removed point is searched, removeOpCnt is positive, so the *)
(* next tick that is old enough builds the tree without it.                *)
THEOREM StaleIsAlwaysCounted == Spec => []StaleIsCounted
<1>1. Init => Counted
  BY DEF Init, Counted, StaleIsCounted, BuildsRetained
<1>2. Spec => []Counted
  BY <1>1, NextCounted, TypesInvariant, PTL DEF Spec
<1>3. Counted => StaleIsCounted
  BY DEF Counted
<1>4. QED
  BY <1>2, <1>3, PTL

-----------------------------------------------------------------------------
(* The lock is released.                                                   *)

(* Once a data point that does not age is retained, one always is, and so  *)
(* no tree is ever empty; ...                                              *)
NeverEmpty == /\ times \ Ages # {}
              /\ points # {}
              /\ sched \in {"balance", "build"} => snap # {}
              /\ leaked \subseteq Strange

(* ... before that, Len is zero and nobody searches. *)
NothingYet == /\ Ages = {}
              /\ times = {}
              /\ points = {}
              /\ len = 0
              /\ sched = "select"
              /\ \A c \in Client : search[c] # "knn"
              /\ leaked = {}

(* The oldest that exceed the maximum are not all that do not age. *)
LEMMA SizeKeepsFresh ==
  ASSUME Types, NeverEmpty, RebuildSize
  PROVE  times' \ Ages # {}
<1>1. PICK R \in SUBSET times : /\ Oldest(R)
                                /\ Cardinality(times \ R) = MaxItems
                                /\ Removal(R)
  BY DEF RebuildSize
<1>2. times \ R # {}
  <2>1. times \ R \in SUBSET Item
    BY DEF Types, TypeOK
  <2>2. Cardinality(times \ R) # 0
    BY <1>1, MaxItemsAssumption
  <2>3. QED
    BY <2>1, <2>2, Finite
<1>3. PICK k \in times \ R : TRUE
  BY <1>2
<1>4. CASE k \in Ages
  <2>1. PICK f \in times \ Ages : TRUE
    BY DEF NeverEmpty
  <2>2. k \in Item /\ f \in Item
    BY DEF Types, TypeOK
  <2>3. ~(TimeOf[f] <= TimeOf[k])
    BY <1>4, <2>1, <2>2, AgesAssumption
  <2>4. f \notin R
    BY <1>1, <1>3, <2>3 DEF Oldest
  <2>5. QED
    BY <1>1, <2>1, <2>4 DEF Removal
<1>5. CASE k \notin Ages
  BY <1>1, <1>3, <1>5 DEF Removal
<1>6. QED
  BY <1>4, <1>5

LEMMA NextNeverEmpty == Types /\ NeverEmpty /\ [Next]_vars => NeverEmpty'
<1> SUFFICES ASSUME Types, NeverEmpty, [Next]_vars
             PROVE  NeverEmpty'
  OBVIOUS
<1>1. ASSUME NEW w \in Worker, (\E i \in Item : AppendItem(w, i)) \/ Count(w)
      PROVE  NeverEmpty'
  BY <1>1 DEF NeverEmpty, AppendItem, Count
<1>2. ASSUME NEW w \in Worker, Insert(w)
      PROVE  NeverEmpty'
  BY <1>2 DEF NeverEmpty, Insert
<1>3. ASSUME NEW c \in Client, Predict(c) \/ KNN(c)
      PROVE  NeverEmpty'
  BY <1>3 DEF NeverEmpty, Predict, KNN, Searching
<1>4. ASSUME NEW c \in Client, KNNFails(c)
      PROVE  NeverEmpty'
  <2>1. c \in Strange
    BY <1>4 DEF NeverEmpty, KNNFails
  <2>2. QED
    BY <1>4, <2>1 DEF NeverEmpty, KNNFails, Searching
<1>5. ASSUME RebuildOutdated
      PROVE  NeverEmpty'
  <2>1. PICK R \in SUBSET (times \cap Ages) : Removal(R)
    BY <1>5 DEF RebuildOutdated
  <2>2. times' \ Ages = times \ Ages
    BY <2>1 DEF Removal
  <2>3. QED
    BY <1>5, <2>1, <2>2 DEF NeverEmpty, RebuildOutdated, Removal, Sched
<1>6. ASSUME RebuildSize
      PROVE  NeverEmpty'
  <2>1. times' \ Ages # {}
    BY <1>6, SizeKeepsFresh
  <2>2. QED
    BY <1>6, <2>1 DEF NeverEmpty, RebuildSize, Removal, Sched
<1>7. ASSUME TickOutdated \/ TickSize \/ TickBalance \/ TickBuild
      PROVE  NeverEmpty'
  BY <1>7 DEF NeverEmpty, TickOutdated, TickSize, TickBalance, TickBuild, Sched
<1>8. ASSUME Balance \/ Build
      PROVE  NeverEmpty'
  BY <1>8 DEF NeverEmpty, Balance, Build, Sched
<1>9. CASE UNCHANGED vars
  BY <1>9 DEF NeverEmpty, vars
<1>10. QED
  BY <1>1, <1>2, <1>3, <1>4, <1>5, <1>6, <1>7, <1>8, <1>9 DEF Next, Schedule

LEMMA NextNothingYet ==
  Types /\ NothingYet /\ [Next]_vars => NothingYet' \/ NeverEmpty'
<1> SUFFICES ASSUME Types, NothingYet, [Next]_vars
             PROVE  NothingYet' \/ NeverEmpty'
  OBVIOUS
<1>1. ASSUME NEW w \in Worker, (\E i \in Item : AppendItem(w, i)) \/ Count(w)
      PROVE  NothingYet'
  BY <1>1 DEF NothingYet, AppendItem, Count
<1>2. ASSUME NEW w \in Worker, Insert(w)
      PROVE  NeverEmpty'
  BY <1>2 DEF NothingYet, NeverEmpty, Insert
<1>3. ASSUME NEW c \in Client, Predict(c) \/ KNN(c) \/ KNNFails(c)
      PROVE  FALSE
  BY <1>3 DEF NothingYet, Predict, KNN, KNNFails, Searching
<1>4. ASSUME Schedule
      PROVE  FALSE
  <2>1. Cardinality(times) = 0
    BY Finite DEF NothingYet
  <2>2. ~TickSize
    BY <2>1, MaxItemsAssumption DEF TickSize
  <2>3. QED
    BY <1>4, <2>2 DEF NothingYet, Schedule, TickOutdated, RebuildOutdated,
       RebuildSize, TickBalance, Balance, TickBuild, Build, Sched
<1>5. CASE UNCHANGED vars
  BY <1>5 DEF NothingYet, vars
<1>6. QED
  BY <1>1, <1>2, <1>3, <1>4, <1>5 DEF Next

(* Among clients that send vectors of the right dimension, none finds the  *)
(* tree empty after it found Len positive, and none keeps the read lock,   *)
(* if nothing ages or the predictor was built with a point that does not.  *)
THEOREM LockIsAlwaysReleased == Spec => []LockIsReleased
<1> DEFINE Safe == NothingYet \/ NeverEmpty
<1>1. Types /\ Safe /\ [Next]_vars => Safe'
  BY NextNeverEmpty, NextNothingYet
<1>2. Safe => LockIsReleased
  BY DEF NeverEmpty, NothingYet, LockIsReleased
<1>3. CASE Ages = {} \/ Built \ Ages # {}
  <2>1. Init => Safe
    <3>1. Cardinality({}) = 0
      BY FS_EmptySet
    <3>2. QED
      BY <1>3, <3>1 DEF Init, NeverEmpty, NothingYet
  <2>2. QED
    BY <1>1, <1>2, <2>1, TypesInvariant, PTL DEF Spec
<1>4. CASE ~(Ages = {} \/ Built \ Ages # {})
  <2>1. LockIsReleased
    BY <1>4 DEF LockIsReleased
  <2>2. QED
    BY <2>1, PTL
<1>5. QED
  BY <1>3, <1>4

-----------------------------------------------------------------------------
(* Gbkd implements Dataset.                                                *)

(* What is retained, searched or copied was appended, and what a worker    *)
(* has in its hands is in none of these yet; a build goes on only as long  *)
(* as removals are counted. *)
Known == times \cup points \cup snap \subseteq appended
HandsFresh ==
  \A w \in Worker : work[w].at = "lock" =>
    /\ work[w].item \in appended \ (times \cup points \cup snap)
    /\ \A v \in Worker : work[v].at = "lock" /\ work[v].item = work[w].item => v = w
BuildIsDue == sched = "build" => removeCnt > 0
Fresh == Known /\ HandsFresh /\ BuildIsDue

LEMMA InitFresh == Init => Fresh
BY DEF Init, Fresh, Known, HandsFresh, BuildIsDue

LEMMA NextFresh == Types /\ Fresh /\ [Next]_vars => Fresh'
<1> SUFFICES ASSUME Types, Fresh, [Next]_vars
             PROVE  Fresh'
  OBVIOUS
<1> USE DEF Fresh
<1>1. ASSUME NEW w \in Worker, NEW i \in Item, AppendItem(w, i)
      PROVE  Fresh'
  <2>1. i \notin times \cup points \cup snap
    BY <1>1 DEF AppendItem, Known
  <2>2. \A v \in Worker : work'[v] = IF v = w THEN [at |-> "lock", item |-> i] ELSE work[v]
    BY <1>1 DEF AppendItem, Types, TypeOK
  <2>3. HandsFresh'
    BY <1>1, <2>1, <2>2 DEF AppendItem, HandsFresh
  <2>4. QED
    BY <1>1, <2>3 DEF AppendItem, Known, BuildIsDue
<1>2. ASSUME NEW w \in Worker, Insert(w)
      PROVE  Fresh'
  <2>1. work[w].item \in appended
    BY <1>2 DEF Insert, HandsFresh
  <2>2. \A v \in Worker : /\ v # w => work'[v] = work[v]
                          /\ work'[w].at = "count"
    BY <1>2 DEF Insert, Types, TypeOK
  <2>3. \A v \in Worker \ {w} : work[v].at = "lock" => work[v].item # work[w].item
    BY <1>2 DEF Insert, HandsFresh
  <2>4. HandsFresh'
    BY <1>2, <2>2, <2>3 DEF Insert, HandsFresh
  <2>5. QED
    BY <1>2, <2>1, <2>4 DEF Insert, Known, BuildIsDue
<1>3. ASSUME NEW w \in Worker, Count(w)
      PROVE  Fresh'
  <2>1. \A v \in Worker : work'[v].at = "lock" => work'[v] = work[v]
    BY <1>3 DEF Count, Types, TypeOK
  <2>2. QED
    BY <1>3, <2>1 DEF Count, Known, HandsFresh, BuildIsDue
<1>4. ASSUME NEW c \in Client, Predict(c) \/ KNN(c) \/ KNNFails(c)
      PROVE  Fresh'
  <2>1. UNCHANGED <<times, points, snap, sched, work, removeCnt, appended>>
    BY <1>4 DEF Predict, KNN, KNNFails, Searching
  <2>2. QED
    BY <2>1 DEF Known, HandsFresh, BuildIsDue
<1>5. ASSUME Schedule
      PROVE  Fresh'
  <2>1. /\ UNCHANGED <<work, appended>>
        /\ times' \subseteq times
        /\ points' \cup snap' \subseteq times \cup points \cup snap
    BY <1>5 DEF Schedule, TickOutdated, RebuildOutdated, TickSize, RebuildSize,
       TickBalance, Balance, TickBuild, Build, Sched, Removal
  <2>2. sched' = "build" => removeCnt' > 0
    BY <1>5 DEF Schedule, TickOutdated, RebuildOutdated, TickSize, RebuildSize,
       TickBalance, Balance, TickBuild, Build, Sched
  <2>3. QED
    BY <2>1, <2>2 DEF Known, HandsFresh, BuildIsDue
<1>6. CASE UNCHANGED vars
  BY <1>6 DEF vars, Known, HandsFresh, BuildIsDue
<1>7. QED
  BY <1>1, <1>2, <1>3, <1>4, <1>5, <1>6 DEF Next

(* A worker takes a data point in its hands, which is not added yet; the   *)
(* insertion adds it. *)
LEMMA AppendIsStutter ==
  ASSUME Types, Fresh, NEW w \in Worker, NEW i \in Item, AppendItem(w, i)
  PROVE  UNCHANGED D!vars
<1>1. \A v \in Worker : work'[v] = IF v = w THEN [at |-> "lock", item |-> i] ELSE work[v]
  BY DEF AppendItem, Types, TypeOK
<1>2. InHands' = InHands \cup {i}
  BY <1>1 DEF InHands, AppendItem
<1>3. appended' \ InHands' = appended \ InHands
  BY <1>2 DEF AppendItem
<1>4. Late' = Late
  BY DEF Late, AppendItem
<1>5. QED
  BY <1>3, <1>4 DEF D!vars, AppendItem

LEMMA InsertAdds ==
  ASSUME Types, Fresh, NEW w \in Worker, Insert(w)
  PROVE  work[w].item \in Item /\ D!Add(work[w].item)
<1> DEFINE i == work[w].item
<1>1. i \in Item /\ i \in InHands /\ i \in appended /\ i \notin times \cup points \cup snap
  BY DEF Insert, InHands, Fresh, HandsFresh, Types, HoldsItem
<1>2. \A v \in Worker : /\ v # w => work'[v] = work[v]
                        /\ work'[w].at = "count"
  BY DEF Insert, Types, TypeOK
<1>3. \A v \in Worker \ {w} : work[v].at = "lock" => work[v].item # i
  BY DEF Insert, Fresh, HandsFresh
<1>4. InHands' = InHands \ {i}
  BY <1>2, <1>3 DEF InHands
<1>5. appended' \ InHands' = (appended \ InHands) \cup {i}
  BY <1>1, <1>4 DEF Insert
<1>6. Late' = IF sched \in {"build", "balance"} THEN Late \cup {i} ELSE Late
  BY <1>1 DEF Late, Insert
<1>7. UNCHANGED <<sched, removeCnt>>
  BY DEF Insert
<1>8. QED
  BY <1>1, <1>5, <1>6, <1>7 DEF D!Add, Insert

LEMMA CountIsStutter ==
  ASSUME Types, NEW w \in Worker, Count(w)
  PROVE  UNCHANGED D!vars
<1>1. \A v \in Worker : /\ v # w => work'[v] = work[v]
                        /\ work'[w].at = "idle"
  BY DEF Count, Types, TypeOK
<1>2. InHands' = InHands
  BY <1>1 DEF InHands, Count
<1>3. Late' = Late
  BY DEF Late, Count
<1>4. QED
  BY <1>2, <1>3 DEF D!vars, Count

(* Without a build under way, removals are removals. *)
LEMMA RemovalRemoves ==
  ASSUME Types, NEW R \in SUBSET times, Removal(R),
         sched \in {"outdated", "size"}, Sched(sched, "select")
  PROVE  D!Next \/ UNCHANGED D!vars
<1>1. InHands' = InHands /\ UNCHANGED <<appended, points>>
  BY DEF InHands, Sched, Removal
<1>2. Late = {} /\ Late' = {}
  BY DEF Late, Sched
<1>3. /\ Cardinality(R) \in Nat
      /\ Cardinality(R) = 0 <=> R = {}
  BY Finite DEF Types, TypeOK
<1>4. removeCnt \in Nat
  BY DEF Types, TypeOK
<1>5. CASE R = {}
  <2>1. UNCHANGED <<times, removeCnt>>
    BY <1>3, <1>4, <1>5 DEF Removal
  <2>2. QED
    BY <1>1, <1>2, <2>1 DEF D!vars, Sched
<1>6. CASE R # {}
  <2>1. removeCnt' > 0
    BY <1>3, <1>4, <1>6 DEF Removal
  <2>2. sched \notin {"build", "balance"} /\ sched' \notin {"build", "balance"}
    BY DEF Sched
  <2>3. D!Remove(R)
    BY <1>1, <1>2, <2>1, <2>2 DEF D!Remove, Removal
  <2>4. QED
    BY <1>6, <2>3 DEF D!Next
<1>7. QED
  BY <1>5, <1>6

(* The copies start a build of the abstract dataset, the switches end it.  *)
LEMMA ScheduleImplements ==
  ASSUME Types, Counted, Fresh, Schedule
  PROVE  D!Next \/ UNCHANGED D!vars
<1>1. InHands' = InHands /\ UNCHANGED appended
  BY DEF InHands, Schedule, TickOutdated, RebuildOutdated, TickSize, RebuildSize,
     TickBalance, Balance, TickBuild, Build, Sched
<1>2. CASE TickOutdated \/ TickSize
  <2>1. Late' = Late
    BY <1>2 DEF Late, TickOutdated, TickSize, Sched
  <2>2. QED
    BY <1>1, <1>2, <2>1 DEF D!vars, TickOutdated, TickSize, Sched
<1>3. CASE RebuildOutdated \/ RebuildSize
  <2>1. \E R \in SUBSET times : /\ Removal(R)
                                /\ sched \in {"outdated", "size"}
                                /\ Sched(sched, "select")
    BY <1>3 DEF RebuildOutdated, RebuildSize, Sched
  <2>2. QED
    BY <2>1, RemovalRemoves
<1>4. CASE TickBalance \/ TickBuild
  <2>1. Late = {} /\ Late' = {}
    BY <1>4 DEF Late, TickBalance, TickBuild, Sched
  <2>2. D!Start
    BY <1>1, <1>4, <2>1 DEF D!Start, TickBalance, TickBuild, Sched
  <2>3. QED
    BY <2>2 DEF D!Next
<1>5. CASE Balance
  <2>1. Late' = {} /\ points' = points \ Late
    BY <1>5 DEF Late, Balance, Sched, Types, BalancesPoints
  <2>2. D!Rebalance
    BY <1>1, <1>5, <2>1 DEF D!Rebalance, D!Finish, Balance, Sched
  <2>3. QED
    BY <2>2 DEF D!Next
<1>6. CASE Build
  <2>1. Late' = {} /\ points' = times \ Late
    BY <1>6 DEF Late, Build, Sched, Counted, BuildsRetained
  <2>2. removeCnt > 0 /\ ~(removeCnt' > 0)
    BY <1>6 DEF Fresh, BuildIsDue, Build, Sched
  <2>3. D!Refresh
    BY <1>1, <1>6, <2>1, <2>2 DEF D!Refresh, D!Finish, Build, Sched
  <2>4. QED
    BY <2>3 DEF D!Next
<1>7. QED
  BY <1>2, <1>3, <1>4, <1>5, <1>6 DEF Schedule

LEMMA NextImplements ==
  Types /\ Counted /\ Fresh /\ [Next]_vars => [D!Next]_(D!vars)
<1> SUFFICES ASSUME Types, Counted, Fresh, [Next]_vars
             PROVE  D!Next \/ UNCHANGED D!vars
  OBVIOUS
<1>1. ASSUME NEW w \in Worker, NEW i \in Item, AppendItem(w, i)
      PROVE  UNCHANGED D!vars
  BY <1>1, AppendIsStutter
<1>2. ASSUME NEW w \in Worker, Insert(w)
      PROVE  D!Next
  BY <1>2, InsertAdds DEF D!Next
<1>3. ASSUME NEW w \in Worker, Count(w)
      PROVE  UNCHANGED D!vars
  BY <1>3, CountIsStutter
<1>4. ASSUME NEW c \in Client, Predict(c) \/ KNN(c) \/ KNNFails(c)
      PROVE  UNCHANGED D!vars
  <2>1. UNCHANGED <<times, points, snap, sched, work, removeCnt, appended>>
    BY <1>4 DEF Predict, KNN, KNNFails, Searching
  <2>2. QED
    BY <2>1 DEF D!vars, InHands, Late
<1>5. CASE UNCHANGED vars
  BY <1>5 DEF vars, D!vars, InHands, Late
<1>6. QED
  BY <1>1, <1>2, <1>3, <1>4, <1>5, ScheduleImplements DEF Next

LEMMA InvariantFresh == Spec => [](Types /\ Counted /\ Fresh)
<1>1. Init => Counted
  BY DEF Init, Counted, StaleIsCounted, BuildsRetained
<1>2. QED
  BY <1>1, NextCounted, InitFresh, NextFresh, TypesInvariant, PTL DEF Spec

(* The dataset of a predictor implements the abstract dataset, however     *)
(* appends, searches and the duties of the scheduler goroutine interleave: *)
(* what leaves the search though it is retained came in between copy and   *)
(* switch, and what is searched though it was removed is refreshed.        *)
THEOREM GbkdImplementsDataset == Spec => ImplementsDataset
<1>1. Init => D!Init
  <2> SUFFICES ASSUME Init
               PROVE  D!Init
    OBVIOUS
  <2>1. InHands = {} /\ Late = {}
    BY DEF Init, InHands, Late
  <2>2. QED
    BY <2>1 DEF Init, D!Init
<1>2. QED
  BY <1>1, NextImplements, InvariantFresh, PTL DEF Spec, ImplementsDataset, D!Spec

(* Neither retained nor searched any more. *)
Gone == appended \ (InHands \cup times \cup points)

(* A data point that was removed and has left the search never comes back, *)
(* neither by a build from an older copy nor by Balance: what has aged, or *)
(* was one too many, cannot become a neighbour again.                      *)
THEOREM RemovedNeverReturns == Spec => [][Gone \subseteq Gone']_vars
<1>1. Types /\ Counted /\ Fresh /\ [Next]_vars => [Gone \subseteq Gone']_vars
  <2> SUFFICES ASSUME Types, Counted, Fresh, [Next]_vars
               PROVE  Gone \subseteq Gone'
    OBVIOUS
  <2>1. D!Next \/ UNCHANGED D!vars
    BY NextImplements
  <2>2. CASE UNCHANGED D!vars
    BY <2>2 DEF Gone, D!vars
  <2>3. CASE D!Next
    BY <2>3 DEF Gone, D!Next, D!Add, D!Remove, D!Start, D!Refresh, D!Rebalance, D!Finish
  <2>4. QED
    BY <2>1, <2>2, <2>3
<1>2. QED
  BY <1>1, InvariantFresh, PTL DEF Spec
=============================================================================
