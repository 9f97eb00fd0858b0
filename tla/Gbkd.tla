-------------------------------- MODULE Gbkd --------------------------------
(***************************************************************************)
(* internal/predictor/knn/gbkd with internal/predictor/lof: the dataset of *)
(* one predictor.  timesTree holds what is retained, in the order of time; *)
(* a k-d tree holds what is searched.  Appending adds to both; the         *)
(* scheduler goroutine removes from timesTree only and, later, builds a    *)
(* second k-d tree from it and switches to that one, without the lock.     *)
(*                                                                         *)
(* Data points have distinct times here; KDTree and AVLTree, with Brute,   *)
(* look inside the trees.  Reset and Close are not called by the program.  *)
(***************************************************************************)
EXTENDS Naturals, FiniteSets

CONSTANTS
  Item,      \* the data points
  TimeOf,    \* their times
  Built,     \* the data points given to Build when the predictor is created
  Ages,      \* the data points that get older than maxStorageTime
  MaxItems,  \* opts.maxItemsStored, positive
  Worker,    \* the goroutines that append
  Client,    \* the goroutines that search
  Strange    \* clients whose vectors have another dimension than the data,
             \* one with which the search returns an error: fewer, but some

ASSUME ItemAssumption == /\ IsFiniteSet(Item)
                         /\ TimeOf \in [Item -> Nat]
                         /\ Built \subseteq Item
ASSUME AgesAssumption == /\ Ages \subseteq Item
                         /\ \A i \in Ages, j \in Item :
                              TimeOf[j] <= TimeOf[i] => j \in Ages
ASSUME MaxItemsAssumption == MaxItems \in Nat \ {0}
ASSUME ClientAssumption == Strange \subseteq Client

VARIABLES
  times,     \* timesTree
  points,    \* what the tree that is searched holds ...
  len,       \* ... and its len, which Balance does not touch
  snap,      \* the points that the scheduler goroutine builds a tree from
  sched,     \* where the scheduler goroutine is
  work,      \* worker -> where it is, and its data point
  search,    \* client -> where its call of Predict is
  leaked,    \* the clients that returned with the read lock held
  appendCnt, \* appendOpCnt
  removeCnt, \* removeOpCnt
  appended   \* the data points that were given to Append or Build

vars == <<times, points, len, snap, sched, work, search, leaked, appendCnt,
          removeCnt, appended>>

None == "none"

Init == /\ times = Built
        /\ points = Built
        /\ len = Cardinality(Built)
        /\ snap = {}
        /\ sched = "select"
        /\ work = [w \in Worker |-> [at |-> "idle", item |-> None]]
        /\ search = [c \in Client |-> "idle"]
        /\ leaked = {}
        /\ appendCnt = 0
        /\ removeCnt = 0
        /\ appended = Built

(* b.mtx.  Every other section ends in the step that begins it, so the     *)
(* lock is only kept by a search that returned its error without           *)
(* unlocking.  A writer that waits keeps new readers out.                  *)
WriterWaits == \/ \E w \in Worker : work[w].at = "lock"
               \/ sched \in {"outdated", "size"}
MayLock == leaked = {}
MayRLock == leaked = {} \/ ~WriterWaits

-----------------------------------------------------------------------------
(* append, in a worker of the dispatcher.                                  *)

AppendItem(w, i) ==
  /\ work[w].at = "idle"
  /\ i \notin appended
  /\ appended' = appended \cup {i}
  /\ work' = [work EXCEPT ![w] = [at |-> "lock", item |-> i]]
  /\ UNCHANGED <<times, points, len, snap, sched, search, leaked, appendCnt,
                 removeCnt>>

(* Mutant: during a build the data point goes to the other tree. *)
InsertOther(w) ==
  /\ work[w].at = "lock"
  /\ MayLock
  /\ points' = IF sched = "build" THEN points ELSE points \cup {work[w].item}
  /\ len' = len + 1
  /\ times' = times \cup {work[w].item}
  /\ work' = [work EXCEPT ![w].at = "count"]
  /\ UNCHANGED <<snap, sched, search, leaked, appendCnt, removeCnt, appended>>

Insert(w) ==
  /\ work[w].at = "lock"
  /\ MayLock
  /\ points' = points \cup {work[w].item}
  /\ len' = len + 1
  /\ times' = times \cup {work[w].item}
  /\ work' = [work EXCEPT ![w].at = "count"]
  /\ UNCHANGED <<snap, sched, search, leaked, appendCnt, removeCnt, appended>>

Count(w) == /\ work[w].at = "count"
            /\ appendCnt' = appendCnt + 1
            /\ work' = [work EXCEPT ![w] = [at |-> "idle", item |-> None]]
            /\ UNCHANGED <<times, points, len, snap, sched, search, leaked,
                           removeCnt, appended>>

-----------------------------------------------------------------------------
(* lof.Predict: Len first, then searches, each with the lock of its own.   *)

Searching(c, from, to) ==
  /\ search[c] = from
  /\ MayRLock
  /\ search' = [search EXCEPT ![c] = to]
  /\ UNCHANGED <<times, points, len, snap, sched, work, appendCnt, removeCnt,
                 appended>>

Predict(c) == len > 0 /\ Searching(c, "idle", "knn") /\ UNCHANGED leaked

(* The root is nil, or no distance to the vector of a strange client: the  *)
(* error is returned with the read lock held.  (A vector with none or more *)
(* dimensions than the data may index out of range instead: a panic, which *)
(* ends the process and is left out here.)                                 *)
KNNFails(c) == /\ points = {} \/ c \in Strange
               /\ Searching(c, "knn", "failed")
               /\ leaked' = leaked \cup {c}

(* One search follows the other until the density is known. *)
KNN(c) == /\ points # {}
          /\ c \notin Strange
          /\ \E to \in {"knn", "idle"} : Searching(c, "knn", to)
          /\ UNCHANGED leaked

-----------------------------------------------------------------------------
(* The scheduler goroutine.                                                *)

Sched(from, to) ==
  /\ sched = from
  /\ sched' = to
  /\ UNCHANGED <<work, search, leaked, appended>>

(* Removes the data points R from timesTree, under the lock. *)
Removal(R) == /\ MayLock
              /\ times' = times \ R
              /\ removeCnt' = removeCnt + Cardinality(R)
              /\ UNCHANGED <<points, len, snap, appendCnt>>

TickOutdated == /\ Ages # {}
                /\ Sched("select", "outdated")
                /\ UNCHANGED <<times, points, len, snap, appendCnt, removeCnt>>

(* Any of the data points that age may be outdated by now. *)
RebuildOutdated == /\ Sched("outdated", "select")
                   /\ \E R \in SUBSET (times \cap Ages) : Removal(R)

(* Mutant: one more than allowed is tolerated. *)
TickSizeLate == /\ Cardinality(times) > MaxItems + 1
                /\ Sched("select", "size")
                /\ UNCHANGED <<times, points, len, snap, appendCnt, removeCnt>>

(* The size is read without the lock and may grow until the removal. *)
TickSize == /\ Cardinality(times) > MaxItems
            /\ Sched("select", "size")
            /\ UNCHANGED <<times, points, len, snap, appendCnt, removeCnt>>

(* R holds the oldest of the retained data points. *)
Oldest(R) == \A i \in R, j \in times \ R : TimeOf[i] <= TimeOf[j]

(* Mutants: an off-by-one; the removals are not counted. *)
RebuildSizeDeep ==
  /\ Sched("size", "select")
  /\ \E R \in SUBSET times :
       /\ Oldest(R)
       /\ Cardinality(times \ R) = MaxItems - 1
       /\ Removal(R)

RebuildSizeUncounted ==
  /\ Sched("size", "select")
  /\ MayLock
  /\ \E R \in SUBSET times :
       /\ Oldest(R)
       /\ Cardinality(times \ R) = MaxItems
       /\ times' = times \ R
  /\ UNCHANGED <<points, len, snap, appendCnt, removeCnt>>

RebuildSize ==
  /\ Sched("size", "select")
  /\ \E R \in SUBSET times :
       /\ Oldest(R)
       /\ Cardinality(times \ R) = MaxItems
       /\ Removal(R)

(* balanceKDTree: Points reads the tree and its root is set afterwards,    *)
(* both without the lock.  How many appends are enough depends on the time. *)
TickBalance == /\ len > 0
               /\ appendCnt > 0
               /\ MayRLock
               /\ Sched("select", "balance")
               /\ snap' = points
               /\ UNCHANGED <<times, points, len, appendCnt, removeCnt>>

Balance == /\ Sched("balance", "select")
           /\ points' = snap
           /\ snap' = {}
           /\ appendCnt' = 0
           /\ UNCHANGED <<times, len, removeCnt>>

(* buildGBTree: the retained points are copied under the read lock; the    *)
(* tree that is not searched is built from them, and state is switched,    *)
(* without it. *)
TickBuild == /\ len > 0
             /\ removeCnt > 0
             /\ MayRLock
             /\ Sched("select", "build")
             /\ snap' = times
             /\ UNCHANGED <<times, points, len, appendCnt, removeCnt>>

(* Mutant: the counter is reset but state is not switched. *)
BuildUnswitched == /\ Sched("build", "select")
                   /\ snap' = {}
                   /\ removeCnt' = 0
                   /\ UNCHANGED <<times, points, len, appendCnt>>

Build == /\ Sched("build", "select")
         /\ points' = snap
         /\ len' = Cardinality(snap)
         /\ snap' = {}
         /\ removeCnt' = 0
         /\ UNCHANGED <<times, appendCnt>>

Schedule == TickOutdated \/ RebuildOutdated \/ TickSize \/ RebuildSize
              \/ TickBalance \/ Balance \/ TickBuild \/ Build

Next == \/ \E w \in Worker : \/ \E i \in Item : AppendItem(w, i)
                             \/ Insert(w) \/ Count(w)
        \/ \E c \in Client : Predict(c) \/ KNN(c) \/ KNNFails(c)
        \/ Schedule

Spec == Init /\ [][Next]_vars

(* The goroutine runs on, and select chooses at random among the tickers   *)
(* that are due, so none of them is passed over for ever.                  *)
FairSpec == /\ Spec
            /\ WF_vars(RebuildOutdated \/ RebuildSize \/ Balance \/ Build)
            /\ SF_vars(TickSize)
            /\ SF_vars(TickBuild)

-----------------------------------------------------------------------------
(* Properties.                                                             *)

SchedAt == {"select", "outdated", "size", "balance", "build"}

(* Also: Len reports no fewer points than the tree holds.  (It may report  *)
(* more: Balance drops what was inserted since it read the tree.)          *)
TypeOK == /\ times \subseteq Item
          /\ points \subseteq Item
          /\ len \in Nat /\ Cardinality(points) <= len
          /\ snap \subseteq Item
          /\ sched \in SchedAt
          /\ work \in [Worker -> [at : {"idle", "lock", "count"},
                                  item : Item \cup {None}]]
          /\ search \in [Client -> {"idle", "knn", "failed"}]
          /\ leaked \subseteq Client
          /\ appendCnt \in Nat
          /\ removeCnt \in Nat
          /\ appended \subseteq Item

(* A point that was removed but is still searched is known to needGBBuild: *)
(* were its removal not counted, it would be searched for ever.            *)
StaleIsCounted == removeCnt = 0 => points \subseteq times

(* When nothing ages, which is the default, or as long as the predictor    *)
(* was built with a data point that does not, a search of the right        *)
(* dimension never finds the tree empty after Len was positive, and so     *)
(* never returns with the lock held.  The data are taken to have one       *)
(* dimension; the first metrics of an entity are appended without a look   *)
(* at theirs.                                                              *)
LockIsReleased ==
  (Ages = {} \/ Built \ Ages # {}) => leaked \subseteq Strange

(* What is removed is soon not searched any more, ...                      *)
RemovedLeaves ==
  [](leaked = {}) =>
    \A i \in Item : (i \in points \ times) ~> (i \notin points)

(* ... and the size of what is retained comes down to the maximum, however *)
(* appends and the other duties of the goroutine interleave.               *)
SizeIsEnforced ==
  [](leaked = {}) =>
    (Cardinality(times) > MaxItems) ~> (Cardinality(times) <= MaxItems)

(* The dataset implements the abstract one.  What is in the hands of a     *)
(* worker is not added yet; what is not in the copy that the scheduler     *)
(* goroutine works on comes too late; needGBBuild knows that a build is    *)
(* due from the counter.                                                   *)
InHands == {work[w].item : w \in {v \in Worker : work[v].at = "lock"}}
Late == {i \in times : sched = "build" /\ i \notin snap}
          \cup {i \in points : sched = "balance" /\ i \notin snap}
D == INSTANCE Dataset WITH Initial <- Built, added <- appended \ InHands,
                           retained <- times, searched <- points,
                           building <- sched \in {"build", "balance"},
                           late <- Late, due <- removeCnt > 0
ImplementsDataset == D!Spec

(* "automatically maintains the actual required range of the sample data": *)
(* when the scheduler has nothing to do, what is retained is searched.     *)
RetainedIsSearched ==
  (sched = "select" /\ removeCnt = 0 /\ \A w \in Worker : work[w].at = "idle")
    => times \subseteq points

=============================================================================
