------------------------------- MODULE KDTree -------------------------------
(***************************************************************************)
(* pkg/kdtree with pkg/pqueue: the tree that a predictor searches by       *)
(* default.  The place of a node is the way to it from the root, and a     *)
(* tree maps its data points to their places.  A node splits along one     *)
(* dimension, the next level along the next one.                           *)
(*                                                                         *)
(* gbkd calls Insert for a data point, Balance from time to time, and      *)
(* Build with what is retained after data points were removed.  A lock     *)
(* keeps Insert out of a search.  It does not keep out Balance and Build,  *)
(* but these make new nodes, and a search goes on in those it has begun    *)
(* with; so here one operation ends before the next begins.  Inserts       *)
(* between the copy of the points and the new root are in Gbkd.  Nothing   *)
(* calls RangeSearch.                                                      *)
(***************************************************************************)
EXTENDS PQueue, Geom, SequencesExt

CONSTANTS
  Item,     \* the data points
  Vec,      \* their vectors
  Query,    \* the vectors that are searched for
  Ks,       \* the k of the searches
  DistFns   \* the distance functions

ASSUME KDAssumption == /\ Vec \in [Item -> Vector]
                       /\ Query \subseteq Vector
                       /\ Ks \subseteq Nat \ {0}
                       /\ DistFns \subseteq Functions

VARIABLES
  root,     \* the tree: data point -> place
  len,      \* the number of points, counted apart from them
  stored,   \* history: the points that the tree should hold
  op,       \* the operation under way: "none", "balance", "build", "knn"
  built,    \* the tree being built: data point -> the place of its slice
  query,    \* the vector, k and distance function of the search
  at,       \* the place it is at
  path,     \* the nodes it has yet to come back to
  queue     \* the nearest so far

treeVars == <<root, len, stored, built>>
searchVars == <<query, at, path, queue>>
vars == <<op, treeVars, searchVars>>

Empty == <<>>
Dim(s) == (Len(s) % Dimensions) + 1

(* The sides of the node of i on which v belongs and does not belong.      *)
Left(t, i) == Append(t[i], "left")
Right(t, i) == Append(t[i], "right")
Before(v, t, i) == v[Dim(t[i])] < Vec[i][Dim(t[i])]
Near(v, t, i) == IF Before(v, t, i) THEN Left(t, i) ELSE Right(t, i)
Far(v, t, i) == IF Before(v, t, i) THEN Right(t, i) ELSE Left(t, i)

Init == /\ root = Empty /\ len = 0 /\ stored = {}
        /\ op = "none" /\ built = Empty
        /\ query = Empty /\ at = <<>> /\ path = <<>> /\ queue = <<>>

-----------------------------------------------------------------------------
(* Changing the tree.                                                      *)

Vacant == {<<>>} \cup {Left(root, j) : j \in DOMAIN root}
                 \cup {Right(root, j) : j \in DOMAIN root}

(* Mutant: the dimension stays the same down the tree. *)
LeadsFlat(v, s) == \A j \in DOMAIN root :
  IsStrictPrefix(root[j], s) =>
    IsPrefix(IF v[1] < Vec[j][1] THEN Left(root, j) ELSE Right(root, j), s)

(* The walk of Insert ends at the vacant place that lies on the right side *)
(* of every node above it.                                                 *)
Leads(v, s) == \A j \in DOMAIN root :
                 IsStrictPrefix(root[j], s) => IsPrefix(Near(v, root, j), s)

InsertPoint(i) ==
  /\ op = "none"
  /\ i \notin stored
  /\ \E s \in Vacant \ Range(root) :
       /\ Leads(Vec[i], s)
       /\ root' = [j \in DOMAIN root \cup {i} |-> IF j = i THEN s ELSE root[j]]
  /\ len' = len + 1
  /\ stored' = stored \cup {i}
  /\ UNCHANGED <<op, built, searchVars>>

(* buildTreeRecursive begins with one slice, ... *)
Start(o, S) == /\ op = "none"
               /\ op' = o
               /\ built' = [i \in S |-> <<>>]
               /\ stored' = S
               /\ UNCHANGED <<root, searchVars>>

Balance == Start("balance", DOMAIN root) /\ UNCHANGED len

Build(S) == Start("build", S) /\ len' = Cardinality(S)

Slice(s) == {i \in DOMAIN built : built[i] = s}

(* Mutant: the slice after the middle begins one too late. *)
CutLate(s, m, L) ==
  LET R == Slice(s) \ (L \cup {m})
      lost == IF R = {} THEN {} ELSE {CHOOSE i \in R : TRUE}
  IN [i \in DOMAIN built \ lost |-> CASE i \in L -> Append(s, "left")
                                     [] i \in R -> Append(s, "right")
                                     [] OTHER -> built[i]]

Cut(s, m, L) ==
  [i \in DOMAIN built |->
     IF i \in L THEN Append(s, "left")
     ELSE IF i \in Slice(s) \ {m} THEN Append(s, "right") ELSE built[i]]

(* ... sorts a slice by one coordinate, with equal ones in any order,      *)
(* keeps the middle m for the node, and goes on with the slices before it  *)
(* and after it.  They are disjoint, so their order does not matter.       *)
Halve(s) ==
  LET d == Dim(s) IN
  /\ op \in {"balance", "build"}
  /\ \E m \in Slice(s) : \E L \in SUBSET (Slice(s) \ {m}) :
       /\ Slice(s) # {m}
       /\ Cardinality(L) = Cardinality(Slice(s)) \div 2
       /\ \A i \in L : Vec[i][d] <= Vec[m][d]
       /\ \A i \in Slice(s) \ (L \cup {m}) : Vec[m][d] <= Vec[i][d]
       /\ built' = Cut(s, m, L)
  /\ UNCHANGED <<root, len, stored, op, searchVars>>

Switch == /\ op \in {"balance", "build"}
          /\ IsInjective(built)
          /\ root' = built
          /\ op' = "none" /\ built' = Empty
          /\ UNCHANGED <<len, stored, searchVars>>

-----------------------------------------------------------------------------
(* Searching.                                                              *)

Dist(i) == Distance(query.fn, query.vec, Vec[i])

(* Mutant: the last distance counts before k are found. *)
CloserThanLast(x, q) == q = <<>> \/ x < Last(q).prior

(* x is less than getKthOrLastDistance(q, k - 1), which is infinite as     *)
(* long as there are fewer than k.                                         *)
Closer(x, q) == Len(q) < query.k \/ x < q[query.k].prior

Offer(i) == IF Closer(Dist(i), queue) THEN Push(queue, query.k, Entry(i, Dist(i)))
                                      ELSE queue

KNN(v, k, fn) ==
  /\ op = "none"
  /\ root # Empty
  /\ op' = "knn"
  /\ query' = [vec |-> v, k |-> k, fn |-> fn]
  /\ UNCHANGED <<at, path, queue, treeVars>>

(* knn walks down on the near side to where no node is, ... *)
Down == /\ op = "knn"
        /\ \E i \in DOMAIN root : /\ root[i] = at
                                  /\ path' = Append(path, i)
                                  /\ at' = Near(query.vec, root, i)
        /\ UNCHANGED <<op, query, queue, treeVars>>

(* ... offers the last node it has been at, and calls itself for the far   *)
(* side if that may hold something nearer than the k-th found so far.      *)
Back == /\ op = "knn"
        /\ at \notin Range(root)
        /\ path # <<>>
        /\ LET i == Last(path)
               gap == Along(query.fn, query.vec, Vec[i], Dim(root[i]))
           IN /\ queue' = Offer(i)
              /\ at' = IF Closer(gap, queue') THEN Far(query.vec, root, i) ELSE at
        /\ path' = Front(path)
        /\ UNCHANGED <<op, query, treeVars>>

Finished == op = "knn" /\ at \notin Range(root) /\ path = <<>>

Return == /\ Finished
          /\ op' = "none" /\ query' = Empty
          /\ at' = <<>> /\ path' = <<>> /\ queue' = <<>>
          /\ UNCHANGED treeVars

Next == \/ \E i \in Item : InsertPoint(i)
        \/ Balance \/ (\E S \in SUBSET Item : IsFiniteSet(S) /\ Build(S))
        \/ (\E s \in Range(built) : Halve(s)) \/ Switch
        \/ \E v \in Query, k \in Ks, fn \in DistFns : KNN(v, k, fn)
        \/ Down \/ Back \/ Return

Spec == Init /\ [][Next]_vars

-----------------------------------------------------------------------------
(* Properties.                                                             *)

(* Every node but the root has a node above it, and along its dimension    *)
(* nothing on its left is beyond it and nothing on its right before it.    *)
IsKDTree(t) ==
  /\ \A i \in DOMAIN t : \A n \in 0 .. Len(t[i]) : SubSeq(t[i], 1, n) \in Range(t)
  /\ \A i, j \in DOMAIN t :
       LET d == Dim(t[i]) IN
       /\ IsPrefix(Left(t, i), t[j]) => Vec[j][d] <= Vec[i][d]
       /\ IsPrefix(Right(t, i), t[j]) => Vec[i][d] <= Vec[j][d]

TypeOK == /\ \A t \in {root, built} : IsKDTree(t)
          /\ IsInjective(root)

(* Inserting, balancing and building lose and duplicate no point, and the  *)
(* length, which is counted apart, is the number of points: Predict relies *)
(* on it before it searches.                                               *)
HoldsStored == /\ len = Cardinality(stored)
               /\ op # "build" => DOMAIN root = stored
               /\ op \in {"balance", "build"} => DOMAIN built = stored

(* A search finds k of the points, or all of them, nearest first, and none *)
(* that it leaves out is nearer, for every distance function, though it    *)
(* leaves out whole sides of the tree.                                     *)
NearestFound ==
  Finished =>
    LET found == PopAll(queue) IN
    /\ IsInjective(found) /\ Range(found) \subseteq DOMAIN root
    /\ Len(found) <= query.k
    /\ Len(found) < query.k => Range(found) = DOMAIN root
    /\ \A a \in DOMAIN found :
         /\ \A b \in DOMAIN found : a < b => Dist(found[a]) <= Dist(found[b])
         /\ \A i \in DOMAIN root \ Range(found) : Dist(found[a]) <= Dist(i)

=============================================================================
