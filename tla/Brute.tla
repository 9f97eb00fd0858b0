------------------------------- MODULE Brute --------------------------------
(***************************************************************************)
(* internal/predictor/knn/brute: the data points of one predictor in an    *)
(* AVL tree, searched one after the other, and the scheduler goroutine     *)
(* that removes the oldest when there are too many and the outdated ones.  *)
(*                                                                         *)
(* Every operation works on the tree under b.mtx from beginning to end     *)
(* (knn copies the points under the lock and searches the copy), so each   *)
(* is one step.  Reset is in the interface, but nothing calls it.          *)
(***************************************************************************)
EXTENDS AVLTree, PQueue, Functions

CONSTANTS
  MaxItems,        \* opts.maxItemsStored, positive
  MaxStorageTime,  \* opts.maxStorageTime; zero switches rebuildOutdated off
  KNum,            \* the k of the searches
  Vec,             \* the vectors that clients send, in order: numbers
  MaxNow,          \* bound: the clock stops
  MaxAppends       \* bound: the number of data points

ASSUME BruteAssumption == /\ MaxItems \in Nat \ {0}
                          /\ MaxStorageTime \in Nat
                          /\ KNum \in Nat \ {0}
                          /\ MaxNow \in Nat \ {0}
                          /\ MaxAppends \in Nat
                          /\ Vec \in [1 .. MaxAppends -> Nat]

VARIABLES
  data,       \* the AVL tree
  createdAt,  \* when rebuildOutdated last ran; never set by NewBruteAlg
  now,        \* the clock
  appended    \* the number of data points so far

vars == <<data, createdAt, now, appended>>

Never == 0

(* A data point has a time and a number, which tells it from all others    *)
(* and gives its vector.  Clients choose the times: equal, out of order,   *)
(* ahead.  In one dimension all distances of geom are the same.            *)
DataPoint == [t : 1 .. MaxNow, v : 1 .. MaxAppends]

Init == data = New /\ createdAt = Never /\ now = 1 /\ appended = 0

(* Build at the creation of a predictor adds its points in the same way. *)
AppendItem(t) ==
  /\ appended < MaxAppends
  /\ appended' = appended + 1
  /\ data' = Add(data, [t |-> t, v |-> appended'])
  /\ UNCHANGED <<createdAt, now>>

RemoveAll(list) ==
  LET rest[j \in 0 .. Len(list)] ==
        IF j = 0 THEN data ELSE Remove(rest[j - 1], list[j])
  IN rest[Len(list)]

(* Mutant: the newest go. *)
RebuildSizeNewest ==
  LET sub == data.len - MaxItems IN
  /\ sub > 0
  /\ data' = RemoveAll(SubSeq(Points(data), data.len - sub + 1, data.len))
  /\ UNCHANGED <<createdAt, now, appended>>

RebuildSize ==
  LET sub == data.len - MaxItems IN
  /\ sub > 0
  /\ data' = RemoveAll(SubSeq(Points(data), 1, sub))
  /\ UNCHANGED <<createdAt, now, appended>>

(* The filter is the wrong way round: it lists what is not yet outdated. *)
Listed(i) == now - i.t < MaxStorageTime

RebuildOutdated ==
  /\ MaxStorageTime > 0
  /\ createdAt = Never \/ now - createdAt > MaxStorageTime
  /\ data' = RemoveAll(Filter(data, {i \in DataPoint : Listed(i)}))
  /\ createdAt' = now
  /\ UNCHANGED <<now, appended>>

Clock == now < MaxNow /\ now' = now + 1 /\ UNCHANGED <<data, createdAt, appended>>

Next == \/ \E t \in 1 .. MaxNow : AppendItem(t)
        \/ RebuildSize
        \/ RebuildOutdated
        \/ Clock

Spec == Init /\ [][Next]_vars

(* The search for the k nearest to vec in a copy of the points; "error"    *)
(* when there are fewer.                                                   *)
Dist(a, b) == IF a < b THEN b - a ELSE a - b
KNN(list, vec, k) ==
  LET Offer(i) == Entry(Vec[i.v], Dist(vec, Vec[i.v]))
      pq[j \in 0 .. Len(list)] ==
        IF j = 0 THEN <<>> ELSE Push(pq[j - 1], k, Offer(list[j]))
      nearest == pq[Len(list)]
  IN IF Len(nearest) < k THEN "error" ELSE PopAll(nearest)

-----------------------------------------------------------------------------
(* Properties.                                                             *)

Times(tree) == LET points == Points(tree) IN [j \in DOMAIN points |-> points[j].t]
Distinct(s) == \A i, j \in DOMAIN s : i # j => s[i] # s[j]
LastOf(s, n) == SubSeq(s, Len(s) - n + 1, Len(s))

(* The items and the stored heights of the tree are what they should be:   *)
(* a rotation that forgets one would unbalance the tree for ever.  And the *)
(* length, kept apart, is the number of items: Predict compares it with    *)
(* skipItems, and rebuildSize cuts by it.                                  *)
TypeOK == /\ data.root \in Tree[data.root.height + 1]
          /\ LET points == Points(data) IN
             data.len = Len(points) /\ Range(points) \subseteq DataPoint
          /\ createdAt \in 0 .. MaxNow
          /\ now \in 1 .. MaxNow
          /\ appended \in 0 .. MaxAppends

(* Whatever was added and removed, and though equal times are found on     *)
(* both sides of a node after rotations, the walk through the tree is in   *)
(* the order of the times: rebuildSize relies on it to find the oldest.    *)
InTimeOrder == LET points == Points(data) IN
  \A i, j \in DOMAIN points : i < j => points[i].t <= points[j].t

(* rebuildSize leaves as many as are allowed, with the latest times; and   *)
(* when the times are distinct, it leaves these very items.                *)
OldestGo ==
  [][RebuildSize =>
       /\ Times(data') = LastOf(Times(data), MaxItems)
       /\ Distinct(Times(data)) =>
            Points(data') = LastOf(Points(data), MaxItems)]_vars

(* A search returns the vectors of k of the points, nearest first, and     *)
(* none of the others is nearer, whenever there are k points: each counts  *)
(* as often as it is in the tree.                                          *)
NearestFound ==
  LET list == Points(data) IN
  \A vec \in Range(Vec) :
    LET found == KNN(list, vec, KNum) IN
    IF data.len < KNum THEN found = "error"
    ELSE /\ \A a, b \in 1 .. KNum :
              a < b => Dist(vec, found[a]) <= Dist(vec, found[b])
         /\ \E of \in [1 .. KNum -> DOMAIN list] :
              /\ IsInjective(of)
              /\ \A a \in 1 .. KNum : found[a] = Vec[list[of[a]].v]
              /\ \A a \in 1 .. KNum, j \in DOMAIN list \ Range(of) :
                   Dist(vec, found[a]) <= Dist(vec, Vec[list[j].v])

-----------------------------------------------------------------------------
(* A statement that the code does not satisfy, kept for reference; no run  *)
(* checks it (see README, observations).                                   *)

(* "automatically maintains the actual required range of the sample data": *)
(* what rebuildOutdated removes is older than the storage time.            *)
OutdatedGo ==
  [][RebuildOutdated =>
       \A i \in Range(Points(data)) \ Range(Points(data')) :
         now - i.t > MaxStorageTime]_vars

=============================================================================
