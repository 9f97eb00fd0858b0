---------------------------- MODULE BruteProofs ----------------------------
(***************************************************************************)
(* Proofs about knn/brute, the AVL tree it keeps its data points in, and   *)
(* the verdict of lof on them, for any number of data points, any times    *)
(* and vectors: the walk through the tree stays in the order of the times, *)
(* the oldest go, a search returns the nearest, a vector far from all is   *)
(* an outlier and one that is stored often enough is not.                  *)
(***************************************************************************)
EXTENDS Lof, FiniteSetTheorems, SequenceTheorems, WellFoundedInduction, TLAPS

-----------------------------------------------------------------------------
(* Induction.                                                              *)

(* A set that holds 0 and the successor of each of its numbers holds all   *)
(* of them: in the smallest interval 0 .. k with a number outside it, k is *)
(* that number, and k - 1 is another.                                      *)
LEMMA Successors ==
  ASSUME NEW Good, 0 \in Good, \A n \in Nat : n \in Good => n + 1 \in Good
  PROVE  Nat \subseteq Good
<1> SUFFICES ASSUME NEW m \in Nat, m \notin Good PROVE FALSE
  OBVIOUS
<1> DEFINE S == 0 .. m
           Bad == {k \in S : k \notin Good}
           T == {D \in SUBSET S : \E k \in Bad : D = 0 .. k}
<1>1. IsWellFoundedOn(StrictSubsetOrdering(S), FiniteSubsetsOf(S))
  BY FS_StrictSubsetOrderingWellFounded
<1>2. T \subseteq FiniteSubsetsOf(S)
  <2>1. IsFiniteSet(S)
    BY FS_Interval
  <2> QED BY <2>1, FS_Subset DEF FiniteSubsetsOf
<1>3. S \in T
  BY DEF T
<1>4. PICK D \in T : \A E \in T : <<E, D>> \notin StrictSubsetOrdering(S)
  <2> HIDE DEF T
  <2> QED BY <1>1, <1>2, <1>3, WFMin
<1>5. PICK k \in Bad : D = 0 .. k
  BY <1>4
<1>6. k # 0 /\ k - 1 \in Nat /\ k - 1 \in S
  OBVIOUS
<1>7. k - 1 \in Bad
  BY <1>6
<1>8. 0 .. (k - 1) \in T
  BY <1>6, <1>7
<1>9. <<0 .. (k - 1), D>> \in StrictSubsetOrdering(S)
  <2>1. 0 .. (k - 1) \subseteq D /\ 0 .. (k - 1) # D
    <3>1. k \in 0 .. k /\ k \notin 0 .. (k - 1)
      BY <1>6
    <3> QED BY <1>5, <1>6, <3>1
  <2>2. 0 .. (k - 1) \in SUBSET S /\ D \in SUBSET S
    BY <1>4, <1>8 DEF T
  <2> QED BY <2>1, <2>2 DEF StrictSubsetOrdering
<1> QED BY <1>4, <1>8, <1>9

(* The trees of a height of at most h, over those below.                   *)
Grown(T, h) ==
  {Nil} \cup {n \in [item : Item, left : T, right : T, height : 0 .. h] :
                n = Node(n.item, n.left, n.right)}

(* Tree, level by level: what is defined by its predecessors exists.       *)
LEMMA Levels == Tree[0] = {Nil} /\ \A h \in Nat : Tree[h + 1] = Grown(Tree[h], h)
<1> DEFINE P(n, g) == g[0] = {Nil} /\ \A k \in 0 .. n - 1 : g[k + 1] = Grown(g[k], k)
           Has(n) == \E g : P(n, g)
<1>1. ASSUME NEW n \in Nat, Has(n) PROVE Has(n + 1)
  <2>1. PICK g : P(n, g)
    BY <1>1
  <2> DEFINE f == [k \in 0 .. n + 1 |-> IF k <= n THEN g[k] ELSE Grown(g[n], n)]
  <2> HIDE DEF Grown
  <2>2. f[0] = {Nil}
    BY <2>1
  <2>3. ASSUME NEW k \in 0 .. n PROVE f[k + 1] = Grown(f[k], k)
    <3>1. CASE k < n
      BY <2>1, <3>1
    <3>2. CASE k = n
      BY <3>2
    <3> QED BY <3>1, <3>2
  <2>4. 0 .. (n + 1) - 1 = 0 .. n
    OBVIOUS
  <2> HIDE DEF f
  <2>5. P(n + 1, f)
    BY <2>2, <2>3, <2>4
  <2> QED BY <2>5
<1>2. ASSUME NEW n \in Nat PROVE Has(n)
  <2> DEFINE Good == {m \in Nat : Has(m)}
  <2>1. Has(0)
    <3> P(0, [k \in 0 .. 0 |-> {Nil}])
      OBVIOUS
    <3> QED OBVIOUS
  <2>2. 0 \in Good /\ \A m \in Nat : m \in Good => m + 1 \in Good
    <3> HIDE DEF Has
    <3> QED BY <1>1, <2>1
  <2> HIDE DEF Good
  <2>3. n \in Good
    BY <2>2, Successors
  <2> HIDE DEF Has
  <2> QED BY <2>3 DEF Good
<1>3. ASSUME NEW n \in Nat, NEW g, NEW m \in Nat, NEW f, P(n, g), P(m, f), n <= m
      PROVE  g[n] = f[n]
  <2> DEFINE Good == {k \in Nat : k <= n => g[k] = f[k]}
  <2> HIDE DEF Grown
  <2>1. 0 \in Good
    BY <1>3
  <2>2. ASSUME NEW k \in Nat, k \in Good PROVE k + 1 \in Good
    BY <1>3, <2>2
  <2> HIDE DEF Good
  <2>3. n \in Good
    BY <2>1, <2>2, Successors
  <2> QED BY <2>3 DEF Good
<1> DEFINE of(n) == CHOOSE g : P(n, g)
           t == [n \in Nat |-> of(n)[n]]
<1>4. \A n \in Nat : P(n, of(n))
  <2> TAKE n \in Nat
  <2>1. \E g : P(n, g)
    BY <1>2
  <2> HIDE DEF P
  <2> QED BY <2>1
<1> HIDE DEF of
<1>5. t[0] = {Nil}
  BY <1>4
<1>6. ASSUME NEW n \in Nat PROVE t[n + 1] = Grown(t[n], n)
  <2>1. P(n, of(n)) /\ P(n + 1, of(n + 1))
    BY <1>4
  <2>2. of(n)[n] = of(n + 1)[n]
    <3> HIDE DEF P
    <3> QED BY <1>3, <2>1
  <2>3. of(n + 1)[n + 1] = Grown(of(n + 1)[n], n)
    <3> HIDE DEF Grown
    <3> QED BY <2>1
  <2> HIDE DEF Grown
  <2> QED BY <2>2, <2>3
<1> DEFINE Body(f) == [h \in Nat |-> IF h = 0 THEN {Nil} ELSE Grown(f[h - 1], h - 1)]
<1>7. t = Body(t)
  <2> HIDE DEF Grown
  <2>1. \A h \in Nat : t[h] = IF h = 0 THEN {Nil} ELSE Grown(t[h - 1], h - 1)
    <3> TAKE h \in Nat
    <3> HIDE DEF t
    <3>1. CASE h = 0
      BY <1>5, <3>1
    <3>2. CASE h # 0
      <4>1. h - 1 \in Nat /\ (h - 1) + 1 = h
        BY <3>2
      <4> QED BY <1>6, <3>2, <4>1
    <3> QED BY <3>1, <3>2
  <2> QED BY <2>1
<1>8. Tree = CHOOSE f : f = Body(f)
  BY DEF Tree, Grown
<1>9. Tree = Body(Tree)
  <2> HIDE DEF Body, t
  <2> QED BY <1>7, <1>8
<1> HIDE DEF Grown
<1> QED BY <1>9, SMTT(30)

AllTrees == UNION {Tree[h] : h \in Nat}

LEMMA InTree == \A h \in Nat : Tree[h] \subseteq AllTrees
BY DEF AllTrees

LEMMA NilMeans == Nil \in AllTrees /\ Nil.height = -1
BY Levels, InTree DEF Nil

(* What is a tree of a height below h is one of a height below h + 1.      *)
LEMMA Nested == \A h \in Nat : Tree[h] \subseteq Tree[h + 1]
<1> DEFINE Good == {h \in Nat : Tree[h] \subseteq Tree[h + 1]}
<1>1. 0 \in Good
  BY Levels DEF Grown
<1>2. ASSUME NEW h \in Nat, h \in Good PROVE h + 1 \in Good
  <2>1. Tree[h + 1] = Grown(Tree[h], h) /\ Tree[(h + 1) + 1] = Grown(Tree[h + 1], h + 1)
    BY Levels
  <2>2. Tree[h] \subseteq Tree[h + 1]
    BY <1>2
  <2>3. ASSUME NEW S, NEW T, S \subseteq T PROVE Grown(S, h) \subseteq Grown(T, h + 1)
    BY <2>3 DEF Grown
  <2>4. Tree[h + 1] \subseteq Tree[(h + 1) + 1]
    BY <2>1, <2>2, <2>3
  <2> QED BY <2>4
<1> HIDE DEF Good
<1>3. Nat \subseteq Good
  BY <1>1, <1>2, Successors
<1> QED BY <1>3 DEF Good

LEMMA NestedFar == \A h \in Nat, d \in Nat : Tree[h] \subseteq Tree[h + d]
<1> SUFFICES ASSUME NEW h \in Nat PROVE \A d \in Nat : Tree[h] \subseteq Tree[h + d]
  OBVIOUS
<1> DEFINE Good == {d \in Nat : Tree[h] \subseteq Tree[h + d]}
<1>1. 0 \in Good
  OBVIOUS
<1>2. ASSUME NEW d \in Nat, d \in Good PROVE d + 1 \in Good
  <2>1. Tree[h] \subseteq Tree[h + d] /\ h + d \in Nat /\ (h + d) + 1 = h + (d + 1)
    BY <1>2
  <2>2. Tree[h + d] \subseteq Tree[(h + d) + 1]
    BY <2>1, Nested
  <2> QED BY <2>1, <2>2
<1> HIDE DEF Good
<1>3. Nat \subseteq Good
  BY <1>1, <1>2, Successors
<1> QED BY <1>3 DEF Good

(* A tree is empty, or a node over two trees ... *)
LEMMA Parts ==
  ASSUME NEW h \in Nat, NEW n \in Tree[h], n # Nil
  PROVE  /\ h - 1 \in Nat /\ n.height \in 0 .. h - 1
         /\ n.item \in Item /\ n.left \in Tree[h - 1] /\ n.right \in Tree[h - 1]
         /\ n = Node(n.item, n.left, n.right)
<1>1. h # 0
  BY Levels
<1>2. h - 1 \in Nat /\ (h - 1) + 1 = h
  BY <1>1
<1>3. n \in Grown(Tree[h - 1], h - 1)
  BY <1>2, Levels
<1> QED BY <1>2, <1>3 DEF Grown

LEMMA HeightMeans == \A h \in Nat : \A n \in Tree[h] : n.height \in -1 .. h - 1
<1> SUFFICES ASSUME NEW h \in Nat, NEW n \in Tree[h] PROVE n.height \in -1 .. h - 1
  OBVIOUS
<1>1. CASE n = Nil
  BY <1>1, NilMeans
<1>2. CASE n # Nil
  BY <1>2, Parts
<1> QED BY <1>1, <1>2

LEMMA Fields ==
  ASSUME NEW i, NEW l \in AllTrees, NEW r \in AllTrees
  PROVE  /\ Node(i, l, r).item = i /\ Node(i, l, r).left = l /\ Node(i, l, r).right = r
         /\ l.height \in Int /\ r.height \in Int /\ -1 <= l.height /\ -1 <= r.height
         /\ Node(i, l, r).height = 1 + IF l.height < r.height THEN r.height ELSE l.height
         /\ Node(i, l, r) # Nil
<1>1. PICK a \in Nat, b \in Nat : l \in Tree[a] /\ r \in Tree[b]
  BY DEF AllTrees
<1>2. l.height \in Int /\ r.height \in Int /\ -1 <= l.height /\ -1 <= r.height
  BY <1>1, HeightMeans
<1> QED BY <1>2 DEF Node, Nil

(* ... that is less high than h + 1 if both are less high than h, ...      *)
LEMMA NodeIn ==
  ASSUME NEW h \in Nat, NEW i \in Item, NEW l \in Tree[h], NEW r \in Tree[h]
  PROVE  Node(i, l, r) \in Tree[h + 1]
<1> DEFINE n == Node(i, l, r)
<1>1. n.item = i /\ n.left = l /\ n.right = r
  BY DEF Node
<1>2. n \in [item : Item, left : Tree[h], right : Tree[h], height : 0 .. h]
  <2>1. l.height \in -1 .. h - 1 /\ r.height \in -1 .. h - 1
    BY HeightMeans
  <2> QED BY <2>1 DEF Node
<1>3. n \in Grown(Tree[h], h)
  <2>1. n = Node(n.item, n.left, n.right)
    BY <1>1
  <2> HIDE DEF n
  <2> QED BY <1>2, <2>1 DEF Grown
<1> QED BY <1>3, Levels

(* ... and of exactly the height that it stores.                           *)
LEMMA OwnHeight == \A n \in AllTrees : n.height + 1 \in Nat /\ n \in Tree[n.height + 1]
<1> DEFINE Good == {h \in Nat : \A n \in Tree[h] :
                        n.height + 1 \in Nat /\ n \in Tree[n.height + 1]}
<1>1. 0 \in Good
  BY Levels, NilMeans
<1>2. ASSUME NEW h \in Nat, h \in Good PROVE h + 1 \in Good
  <2> SUFFICES ASSUME NEW n \in Tree[h + 1], n # Nil
               PROVE  n.height + 1 \in Nat /\ n \in Tree[n.height + 1]
    BY Levels, NilMeans
  <2>1. /\ n.height \in 0 .. h /\ n.item \in Item /\ n.left \in Tree[h] /\ n.right \in Tree[h]
        /\ n = Node(n.item, n.left, n.right)
    <3>1. (h + 1) - 1 = h
      OBVIOUS
    <3> QED BY <3>1, Parts
  <2> DEFINE k == n.height
  <2>2. /\ n.left.height \in Int /\ n.right.height \in Int
        /\ k = 1 + IF n.left.height < n.right.height THEN n.right.height ELSE n.left.height
        /\ -1 <= n.left.height /\ -1 <= n.right.height
    BY <2>1, InTree, Fields
  <2>3. ASSUME NEW c \in Tree[h], c.height <= k - 1, c.height \in Int, -1 <= c.height
        PROVE c \in Tree[k]
    <3>1. c \in Tree[c.height + 1] /\ c.height + 1 \in Nat
      BY <1>2
    <3>2. k - (c.height + 1) \in Nat /\ (c.height + 1) + (k - (c.height + 1)) = k
      BY <2>1, <2>3
    <3> QED BY <3>1, <3>2, NestedFar
  <2>4. n.left \in Tree[k] /\ n.right \in Tree[k]
    BY <2>1, <2>2, <2>3
  <2>5. k \in Nat
    BY <2>1
  <2>6. Node(n.item, n.left, n.right) \in Tree[k + 1]
    BY <2>1, <2>4, <2>5, NodeIn
  <2> QED BY <2>1, <2>5, <2>6
<1> HIDE DEF Good
<1>3. Nat \subseteq Good
  BY <1>1, <1>2, Successors
<1> QED BY <1>3 DEF Good, AllTrees

LEMMA NodeOf ==
  ASSUME NEW i \in Item, NEW l \in AllTrees, NEW r \in AllTrees
  PROVE  Node(i, l, r) \in AllTrees
<1>1. PICK a \in Nat, b \in Nat : l \in Tree[a] /\ r \in Tree[b]
  BY DEF AllTrees
<1>2. l \in Tree[a + b] /\ r \in Tree[a + b]
  <2>1. b + a = a + b
    OBVIOUS
  <2> QED BY <1>1, <2>1, NestedFar
<1>3. a + b \in Nat /\ (a + b) + 1 \in Nat
  OBVIOUS
<1> QED BY <1>2, <1>3, NodeIn, InTree

LEMMA PartsOf ==
  ASSUME NEW n \in AllTrees, n # Nil
  PROVE  /\ n.item \in Item /\ n.left \in AllTrees /\ n.right \in AllTrees
         /\ n = Node(n.item, n.left, n.right)
<1>1. PICK h \in Nat : n \in Tree[h]
  BY DEF AllTrees
<1> QED BY <1>1, Parts, InTree

(* What holds of the empty tree, and of a node when it holds of both of    *)
(* its children, holds of every tree.                                      *)
LEMMA TreeInduction ==
  ASSUME NEW Good, Nil \in Good,
         \A i \in Item, l, r \in AllTrees : l \in Good /\ r \in Good => Node(i, l, r) \in Good
  PROVE  AllTrees \subseteq Good
<1> DEFINE Level == {h \in Nat : Tree[h] \subseteq Good}
<1>1. 0 \in Level
  BY Levels
<1>2. ASSUME NEW h \in Nat, h \in Level PROVE h + 1 \in Level
  <2> SUFFICES ASSUME NEW n \in Tree[h + 1], n # Nil PROVE n \in Good
    OBVIOUS
  <2>1. (h + 1) - 1 = h
    OBVIOUS
  <2>2. /\ n.item \in Item /\ n.left \in Tree[h] /\ n.right \in Tree[h]
        /\ n = Node(n.item, n.left, n.right)
    BY <2>1, Parts
  <2>3. Tree[h] \subseteq Good /\ Tree[h] \subseteq AllTrees
    BY <1>2, InTree
  <2> QED BY <2>2, <2>3
<1> HIDE DEF Level
<1>3. Nat \subseteq Level
  BY <1>1, <1>2, Successors
<1> QED BY <1>3 DEF Level, AllTrees

Steps(V) == [AllTrees -> [V -> [V -> V]]]

Folds(f, b, S) == /\ f[Nil] = b
                  /\ \A n \in AllTrees \ {Nil} : f[n] = S[n][f[n.left]][f[n.right]]

(* A function of trees that is defined by its values for the children      *)
(* exists: on the trees of every level, where it is unique, and so on all  *)
(* of them.                                                                *)
LEMMA Fold ==
  ASSUME NEW V, NEW b \in V, NEW S \in Steps(V)
  PROVE  \E f \in [AllTrees -> V] : Folds(f, b, S)
<1> USE DEF Steps
<1> DEFINE Eqs(f, T) == /\ f[Nil] = b
                        /\ \A n \in T \ {Nil} : f[n] = S[n][f[n.left]][f[n.right]]
           Has(h) == \E f \in [Tree[h] -> V] : Eqs(f, Tree[h])
<1>0. ASSUME NEW h \in Nat, NEW n \in Tree[h + 1] \ {Nil}
      PROVE  n.left \in Tree[h] /\ n.right \in Tree[h] /\ n \in AllTrees
  <2>1. (h + 1) - 1 = h /\ h + 1 \in Nat
    OBVIOUS
  <2> QED BY <2>1, Parts, InTree
<1>1. ASSUME NEW h \in Nat, Has(h) PROVE Has(h + 1)
  <2>1. PICK f \in [Tree[h] -> V] : Eqs(f, Tree[h])
    BY <1>1
  <2> DEFINE g == [n \in Tree[h + 1] |-> IF n = Nil THEN b ELSE S[n][f[n.left]][f[n.right]]]
  <2>2. g \in [Tree[h + 1] -> V]
    <3> SUFFICES ASSUME NEW n \in Tree[h + 1], n # Nil PROVE S[n][f[n.left]][f[n.right]] \in V
      OBVIOUS
    <3>1. f[n.left] \in V /\ f[n.right] \in V /\ S[n] \in [V -> [V -> V]]
      BY <1>0
    <3> QED BY <3>1
  <2>3. Nil \in Tree[h + 1] /\ Tree[h] \subseteq Tree[h + 1]
    BY Levels, Nested DEF Grown
  <2>4. \A n \in Tree[h] : g[n] = f[n]
    BY <2>1, <2>3
  <2>5. Eqs(g, Tree[h + 1])
    <3>1. ASSUME NEW n \in Tree[h + 1] \ {Nil} PROVE g[n] = S[n][g[n.left]][g[n.right]]
      <4>1. g[n.left] = f[n.left] /\ g[n.right] = f[n.right]
        BY <1>0, <2>4
      <4> QED BY <4>1
    <3> QED BY <2>3, <3>1
  <2> QED BY <2>2, <2>5
<1>2. ASSUME NEW h \in Nat PROVE Has(h)
  <2> DEFINE Good == {k \in Nat : Has(k)}
  <2>1. Has(0)
    <3> DEFINE g == [n \in Tree[0] |-> b]
    <3>1. g \in [Tree[0] -> V] /\ Eqs(g, Tree[0])
      BY Levels
    <3> QED BY <3>1
  <2>2. 0 \in Good /\ \A k \in Nat : k \in Good => k + 1 \in Good
    <3> HIDE DEF Has
    <3> QED BY <1>1, <2>1
  <2> HIDE DEF Good
  <2>3. h \in Good
    BY <2>2, Successors
  <2> HIDE DEF Has
  <2> QED BY <2>3 DEF Good
<1>3. ASSUME NEW h \in Nat, NEW f, Eqs(f, Tree[h]), NEW g, Eqs(g, Tree[h]),
             NEW n \in Tree[h]
      PROVE  f[n] = g[n]
  <2> DEFINE Good == {k \in Nat : k <= h => \A c \in Tree[k] : f[c] = g[c]}
  <2>1. 0 \in Good
    BY <1>3, Levels
  <2>2. ASSUME NEW k \in Nat, k \in Good PROVE k + 1 \in Good
    <3> SUFFICES ASSUME k + 1 <= h, NEW c \in Tree[k + 1], c # Nil PROVE f[c] = g[c]
      BY <1>3
    <3>1. c \in Tree[h]
      <4>1. h - (k + 1) \in Nat /\ (k + 1) + (h - (k + 1)) = h
        OBVIOUS
      <4> QED BY <4>1, NestedFar
    <3>2. f[c.left] = g[c.left] /\ f[c.right] = g[c.right]
      <4>1. k <= h /\ c.left \in Tree[k] /\ c.right \in Tree[k]
        BY <1>0
      <4> QED BY <2>2, <4>1
    <3> QED BY <1>3, <3>1, <3>2
  <2> HIDE DEF Good
  <2>3. h \in Good
    BY <2>1, <2>2, Successors
  <2> QED BY <1>3, <2>3 DEF Good
<1> DEFINE of(h) == CHOOSE f \in [Tree[h] -> V] : Eqs(f, Tree[h])
           t == [n \in AllTrees |-> of(n.height + 1)[n]]
<1>4. \A h \in Nat : of(h) \in [Tree[h] -> V] /\ Eqs(of(h), Tree[h])
  <2> TAKE h \in Nat
  <2>1. \E f \in [Tree[h] -> V] : Eqs(f, Tree[h])
    BY <1>2
  <2> HIDE DEF Eqs
  <2> QED BY <2>1
<1> HIDE DEF of
<1>5. t \in [AllTrees -> V]
  BY <1>4, OwnHeight
<1>6. t[Nil] = b
  BY <1>4, NilMeans, OwnHeight
<1>7. ASSUME NEW h \in Nat, NEW n \in Tree[h] PROVE t[n] = of(h)[n]
  <2> DEFINE k == n.height + 1
  <2>1. n \in AllTrees /\ k \in Nat /\ n \in Tree[k] /\ k <= h
    BY InTree, OwnHeight, HeightMeans
  <2> HIDE DEF k
  <2>2. Tree[k] \subseteq Tree[h]
    <3>1. h - k \in Nat /\ k + (h - k) = h
      BY <2>1
    <3> QED BY <2>1, <3>1, NestedFar
  <2>3. Eqs(of(h), Tree[k])
    BY <1>4, <2>2
  <2>4. Eqs(of(k), Tree[k])
    BY <1>4, <2>1
  <2>5. of(k)[n] = of(h)[n]
    <3> HIDE DEF Eqs
    <3> QED BY <1>3, <2>1, <2>3, <2>4
  <2> QED BY <2>1, <2>5 DEF k
<1>8. ASSUME NEW n \in AllTrees \ {Nil} PROVE t[n] = S[n][t[n.left]][t[n.right]]
  <2>1. PICK h \in Nat : n \in Tree[h]
    BY DEF AllTrees
  <2>2. n.left \in Tree[h] /\ n.right \in Tree[h]
    <3>1. h - 1 \in Nat /\ n.left \in Tree[h - 1] /\ n.right \in Tree[h - 1] /\ (h - 1) + 1 = h
      BY <2>1, Parts
    <3> QED BY <3>1, Nested
  <2>3. of(h)[n] = S[n][of(h)[n.left]][of(h)[n.right]]
    BY <1>4, <2>1
  <2> HIDE DEF t
  <2> QED BY <1>7, <2>1, <2>2, <2>3
<1> QED BY <1>5, <1>6, <1>8 DEF Folds

(* A function of levels and trees that follows the same equations is this  *)
(* function of trees, whatever the level.                                  *)
LEMMA SameAtLevels ==
  ASSUME NEW V, NEW b \in V, NEW S \in Steps(V),
         NEW f \in [AllTrees -> V], Folds(f, b, S),
         NEW g, \A h \in Nat : \A m \in Tree[h] :
                  IF m = Nil THEN g[h][m] = b
                  ELSE g[h - 1][m.left] \in V /\ g[h - 1][m.right] \in V
                         => g[h][m] = S[m][g[h - 1][m.left]][g[h - 1][m.right]]
  PROVE  \A h \in Nat : \A m \in Tree[h] : g[h][m] = f[m]
<1> DEFINE Good == {h \in Nat : \A n \in Tree[h] : g[h][n] = f[n]}
<1>1. 0 \in Good
  BY Levels DEF Folds
<1>2. ASSUME NEW h \in Nat, h \in Good PROVE h + 1 \in Good
  <2> SUFFICES ASSUME NEW n \in Tree[h + 1] PROVE g[h + 1][n] = f[n]
    OBVIOUS
  <2>0. (h + 1) - 1 = h /\ h + 1 \in Nat
    OBVIOUS
  <2>1. CASE n = Nil
    BY <2>0, <2>1 DEF Folds
  <2>2. CASE n # Nil
    <3>1. n.left \in Tree[h] /\ n.right \in Tree[h] /\ n \in AllTrees
      BY <2>0, <2>2, Parts, InTree
    <3>2. /\ g[h][n.left] = f[n.left] /\ f[n.left] \in V
          /\ g[h][n.right] = f[n.right] /\ f[n.right] \in V
      BY <1>2, <3>1, InTree
    <3>3. g[h + 1][n] = S[n][f[n.left]][f[n.right]]
      BY <2>0, <2>2, <3>2
    <3> QED BY <2>2, <3>1, <3>3 DEF Folds
  <2> QED BY <2>1, <2>2
<1> HIDE DEF Good
<1>3. Nat \subseteq Good
  BY <1>1, <1>2, Successors
<1> QED BY <1>3 DEF Good

-----------------------------------------------------------------------------
(* The walk through a tree.                                                *)

One(i, W) == IF i \in W THEN <<i>> ELSE <<>>

Around(x, i, y, W) == x \o One(i, W) \o y

LEMMA WalkMeans ==
  ASSUME NEW W
  PROVE  /\ InOrder(Nil, W) = <<>>
         /\ \A n \in AllTrees : InOrder(n, W) \in Seq(Item)
         /\ \A i \in Item, l \in AllTrees, r \in AllTrees :
              InOrder(Node(i, l, r), W) = Around(InOrder(l, W), i, InOrder(r, W), W)
<1> DEFINE V == Seq(Item)
           S == [n \in AllTrees |-> [x \in V |-> [y \in V |->
                   IF n = Nil THEN <<>> ELSE Around(x, n.item, y, W)]]]
<1>1. S \in Steps(V) /\ <<>> \in V
  <2> SUFFICES ASSUME NEW n \in AllTrees, n # Nil, NEW x \in V, NEW y \in V
               PROVE  Around(x, n.item, y, W) \in V
    BY DEF Steps
  <2>1. n.item \in Item
    BY PartsOf
  <2> QED BY <2>1 DEF Around, One
<1> HIDE DEF V
<1>2. PICK f \in [AllTrees -> V] : Folds(f, <<>>, S)
  <2> HIDE DEF S
  <2> QED BY <1>1, Fold
<1>3. \A n \in AllTrees \ {Nil} : f[n] = Around(f[n.left], n.item, f[n.right], W)
  BY <1>2, PartsOf DEF Folds
<1> DEFINE Body(g) == [h \in Nat |-> [m \in Tree[h] |->
             IF m = Nil THEN <<>>
             ELSE Around(g[h - 1][m.left], m.item, g[h - 1][m.right], W)]]
           walk == CHOOSE g : g = Body(g)
           t == [h \in Nat |-> [m \in Tree[h] |-> f[m]]]
<1>4. t = Body(t)
  <2>1. ASSUME NEW h \in Nat, NEW m \in Tree[h], m # Nil
        PROVE  f[m] = Around(t[h - 1][m.left], m.item, t[h - 1][m.right], W)
    <3>1. h - 1 \in Nat /\ m.left \in Tree[h - 1] /\ m.right \in Tree[h - 1] /\ m \in AllTrees
      BY <2>1, Parts, InTree
    <3>2. t[h - 1][m.left] = f[m.left] /\ t[h - 1][m.right] = f[m.right]
      BY <3>1
    <3> QED BY <1>3, <2>1, <3>1, <3>2
  <2> DEFINE U(h) == [m \in Tree[h] |->
               IF m = Nil THEN <<>>
               ELSE Around(t[h - 1][m.left], m.item, t[h - 1][m.right], W)]
  <2>2. ASSUME NEW h \in Nat PROVE [m \in Tree[h] |-> f[m]] = U(h)
    <3> HIDE DEF t
    <3> QED BY <1>2, <2>1 DEF Folds
  <2>3. Body(t) = [h \in Nat |-> U(h)]
    OBVIOUS
  <2> HIDE DEF U, Body
  <2> QED BY <2>2, <2>3
<1>5. walk = Body(walk)
  <2> HIDE DEF Body, t
  <2> QED BY <1>4
<1> HIDE DEF t, walk
<1>6. \A h \in Nat : \A m \in Tree[h] : walk[h][m] = f[m]
  <2>1. ASSUME NEW h \in Nat, NEW m \in Tree[h]
        PROVE  IF m = Nil THEN walk[h][m] = <<>>
               ELSE walk[h - 1][m.left] \in V /\ walk[h - 1][m.right] \in V
                      => walk[h][m] = S[m][walk[h - 1][m.left]][walk[h - 1][m.right]]
    <3>1. walk[h] = Body(walk)[h]
      <4> HIDE DEF Body
      <4> QED BY <1>5
    <3>2. walk[h][m] = IF m = Nil THEN <<>>
                       ELSE Around(walk[h - 1][m.left], m.item, walk[h - 1][m.right], W)
      BY <3>1
    <3>3. m \in AllTrees
      BY InTree
    <3> QED BY <3>2, <3>3
  <2> HIDE DEF S, Body
  <2> QED BY <1>1, <1>2, <2>1, SameAtLevels
<1>7. ASSUME NEW n \in AllTrees PROVE InOrder(n, W) = f[n]
  <2>1. InOrder(n, W) = walk[n.height + 1][n]
    BY DEF InOrder, walk, Around, One
  <2> QED BY <1>6, <2>1, OwnHeight
<1>8. InOrder(Nil, W) = <<>>
  BY <1>2, <1>7, NilMeans DEF Folds
<1>9. \A n \in AllTrees : InOrder(n, W) \in V
  BY <1>7
<1>10. ASSUME NEW i \in Item, NEW l \in AllTrees, NEW r \in AllTrees
       PROVE  InOrder(Node(i, l, r), W) = Around(InOrder(l, W), i, InOrder(r, W), W)
  <2>1. Node(i, l, r) \in AllTrees \ {Nil}
    BY NodeOf, Fields
  <2> DEFINE n == Node(i, l, r)
  <2>2. n.left = l /\ n.item = i /\ n.right = r
    BY Fields
  <2>3. f[n] = Around(f[n.left], n.item, f[n.right], W)
    <3> HIDE DEF n
    <3> QED BY <1>3, <2>1 DEF n
  <2> QED BY <1>7, <2>1, <2>2, <2>3
<1> QED BY <1>8, <1>9, <1>10 DEF V

LEMMA WalkTyped == ASSUME NEW n \in AllTrees, NEW W PROVE InOrder(n, W) \in Seq(Item)
BY WalkMeans

LEMMA WalkNode ==
  ASSUME NEW i \in Item, NEW l \in AllTrees, NEW r \in AllTrees, NEW n, n = Node(i, l, r), NEW W
  PROVE  InOrder(n, W) = Around(InOrder(l, W), i, InOrder(r, W), W)
BY WalkMeans

Items == Seq(Item)
Cat(x, y) == x \o y

LEMMA CatClosed == \A x, y \in Items : Cat(x, y) \in Items
BY ConcatProperties DEF Items, Cat

LEMMA CatAssoc == \A x, y, z \in Items : Cat(Cat(x, y), z) = Cat(x, Cat(y, z))
BY ConcatAssociative DEF Items, Cat

LEMMA Regroup ==
  ASSUME NEW a \in Items, NEW b \in Items, NEW c \in Items,
         NEW x \in Item, NEW y \in Item, NEW W
  PROVE  Around(Around(a, x, b, W), y, c, W) = Around(a, x, Around(b, y, c, W), W)
<1> DEFINE s == One(x, W)
           u == One(y, W)
<1>1. s \in Items /\ u \in Items
  BY DEF One, Items
<1>2. \A d \in Items, e \in Items : Around(d, x, e, W) = Cat(Cat(d, s), e)
  BY DEF Around, Cat
<1>3. \A d \in Items, e \in Items : Around(d, y, e, W) = Cat(Cat(d, u), e)
  BY DEF Around, Cat
<1> HIDE DEF s, u
<1>4. Cat(a, s) \in Items /\ Cat(Cat(a, s), b) \in Items
  BY <1>1, CatClosed
<1>5. Cat(b, u) \in Items /\ Cat(Cat(b, u), c) \in Items
  BY <1>1, CatClosed
<1>6. Cat(Cat(Cat(Cat(a, s), b), u), c) = Cat(Cat(a, s), Cat(Cat(b, u), c))
  <2>1. Cat(Cat(Cat(a, s), b), u) = Cat(Cat(a, s), Cat(b, u))
    BY <1>1, <1>4, CatAssoc
  <2>2. Cat(Cat(Cat(a, s), Cat(b, u)), c) = Cat(Cat(a, s), Cat(Cat(b, u), c))
    BY <1>4, <1>5, CatAssoc
  <2> QED BY <2>1, <2>2
<1>7. Around(a, x, b, W) = Cat(Cat(a, s), b)
  BY <1>2
<1>8. Around(b, y, c, W) = Cat(Cat(b, u), c)
  BY <1>3
<1>9. Around(Cat(Cat(a, s), b), y, c, W) = Cat(Cat(Cat(Cat(a, s), b), u), c)
  BY <1>3, <1>4
<1>10. Around(a, x, Cat(Cat(b, u), c), W) = Cat(Cat(a, s), Cat(Cat(b, u), c))
  BY <1>2, <1>5
<1> QED BY <1>6, <1>7, <1>8, <1>9, <1>10

(* A rotation keeps the walk. *)
LEMMA RotateRightKeeps ==
  ASSUME NEW n \in AllTrees \ {Nil}, n.left # Nil
  PROVE  /\ RotateRight(n) \in AllTrees \ {Nil}
         /\ \A W : InOrder(RotateRight(n), W) = InOrder(n, W)
<1> DEFINE l == n.left
<1>1. /\ n.item \in Item /\ l \in AllTrees /\ n.right \in AllTrees
      /\ n = Node(n.item, l, n.right)
  BY PartsOf
<1>2. /\ l.item \in Item /\ l.left \in AllTrees /\ l.right \in AllTrees
      /\ l = Node(l.item, l.left, l.right)
  BY <1>1, PartsOf
<1> HIDE DEF l
<1>3. Node(n.item, l.right, n.right) \in AllTrees
  BY <1>1, <1>2, NodeOf
<1>4. RotateRight(n) = Node(l.item, l.left, Node(n.item, l.right, n.right))
  BY DEF RotateRight, l
<1>5. RotateRight(n) \in AllTrees \ {Nil}
  BY <1>2, <1>3, <1>4, NodeOf, Fields
<1>6. ASSUME NEW W PROVE InOrder(RotateRight(n), W) = InOrder(n, W)
  <2> DEFINE I(c) == InOrder(c, W)
  <2>1. I(n) = Around(I(l), n.item, I(n.right), W)
    BY <1>1, WalkNode
  <2>2. I(l) = Around(I(l.left), l.item, I(l.right), W)
    BY <1>2, WalkNode
  <2>3. I(RotateRight(n)) = Around(I(l.left), l.item, I(Node(n.item, l.right, n.right)), W)
    BY <1>2, <1>3, <1>4, WalkNode
  <2>4. I(Node(n.item, l.right, n.right)) = Around(I(l.right), n.item, I(n.right), W)
    BY <1>1, <1>2, WalkNode
  <2>5. I(l.left) \in Items /\ I(l.right) \in Items /\ I(n.right) \in Items
    BY <1>1, <1>2, WalkTyped DEF Items
  <2> HIDE DEF I
  <2>6. Around(Around(I(l.left), l.item, I(l.right), W), n.item, I(n.right), W)
          = Around(I(l.left), l.item, Around(I(l.right), n.item, I(n.right), W), W)
    BY <1>1, <1>2, <2>5, Regroup
  <2>7. I(RotateRight(n)) = I(n)
    BY <2>1, <2>2, <2>3, <2>4, <2>6
  <2> QED BY <2>7 DEF I
<1> QED BY <1>5, <1>6

LEMMA RotateLeftKeeps ==
  ASSUME NEW n \in AllTrees \ {Nil}, n.right # Nil
  PROVE  /\ RotateLeft(n) \in AllTrees \ {Nil}
         /\ \A W : InOrder(RotateLeft(n), W) = InOrder(n, W)
<1> DEFINE r == n.right
<1>1. /\ n.item \in Item /\ n.left \in AllTrees /\ r \in AllTrees
      /\ n = Node(n.item, n.left, r)
  BY PartsOf
<1>2. /\ r.item \in Item /\ r.left \in AllTrees /\ r.right \in AllTrees
      /\ r = Node(r.item, r.left, r.right)
  BY <1>1, PartsOf
<1> HIDE DEF r
<1>3. Node(n.item, n.left, r.left) \in AllTrees
  BY <1>1, <1>2, NodeOf
<1>4. RotateLeft(n) = Node(r.item, Node(n.item, n.left, r.left), r.right)
  BY DEF RotateLeft, r
<1>5. RotateLeft(n) \in AllTrees \ {Nil}
  BY <1>2, <1>3, <1>4, NodeOf, Fields
<1>6. ASSUME NEW W PROVE InOrder(RotateLeft(n), W) = InOrder(n, W)
  <2> DEFINE I(c) == InOrder(c, W)
  <2>1. I(n) = Around(I(n.left), n.item, I(r), W)
    BY <1>1, WalkNode
  <2>2. I(r) = Around(I(r.left), r.item, I(r.right), W)
    BY <1>2, WalkNode
  <2>3. I(RotateLeft(n)) = Around(I(Node(n.item, n.left, r.left)), r.item, I(r.right), W)
    BY <1>2, <1>3, <1>4, WalkNode
  <2>4. I(Node(n.item, n.left, r.left)) = Around(I(n.left), n.item, I(r.left), W)
    BY <1>1, <1>2, WalkNode
  <2>5. I(n.left) \in Items /\ I(r.left) \in Items /\ I(r.right) \in Items
    BY <1>1, <1>2, WalkTyped DEF Items
  <2> HIDE DEF I
  <2>6. Around(Around(I(n.left), n.item, I(r.left), W), r.item, I(r.right), W)
          = Around(I(n.left), n.item, Around(I(r.left), r.item, I(r.right), W), W)
    BY <1>1, <1>2, <2>5, Regroup
  <2>7. I(RotateLeft(n)) = I(n)
    BY <2>1, <2>2, <2>3, <2>4, <2>6
  <2> QED BY <2>7 DEF I
<1> QED BY <1>5, <1>6

(* A tree that is heavy on one side has a node there.                      *)
LEMMA BalanceKeeps ==
  ASSUME NEW i \in Item, NEW l \in AllTrees, NEW r \in AllTrees, NEW n, n = Node(i, l, r)
  PROVE  /\ LeftHeavy(n) \in AllTrees \ {Nil} /\ RightHeavy(n) \in AllTrees \ {Nil}
         /\ \A W : InOrder(LeftHeavy(n), W) = InOrder(n, W)
         /\ \A W : InOrder(RightHeavy(n), W) = InOrder(n, W)
<1>1. /\ n \in AllTrees \ {Nil} /\ n.left = l /\ n.right = r
      /\ l.height \in Int /\ r.height \in Int /\ -1 <= l.height /\ -1 <= r.height
  BY NodeOf, Fields
<1>2. HeightDiff(n) = 2 => n.left # Nil
  BY <1>1, NilMeans DEF HeightDiff
<1>3. HeightDiff(n) = -2 => n.right # Nil
  BY <1>1, NilMeans DEF HeightDiff
<1>4. HeightDiff(n) = 2 => /\ RotateRight(n) \in AllTrees \ {Nil}
                           /\ \A W : InOrder(RotateRight(n), W) = InOrder(n, W)
  BY <1>1, <1>2, RotateRightKeeps
<1>5. HeightDiff(n) = -2 => /\ RotateLeft(n) \in AllTrees \ {Nil}
                            /\ \A W : InOrder(RotateLeft(n), W) = InOrder(n, W)
  BY <1>1, <1>3, RotateLeftKeeps
<1> QED BY <1>1, <1>4, <1>5 DEF LeftHeavy, RightHeavy

-----------------------------------------------------------------------------
(* Insert and Delete, as functions of a tree.                              *)

InsertedInto(n, i, x, y) ==
  IF i.t <= n.item.t THEN LeftHeavy(Node(n.item, x, n.right))
  ELSE RightHeavy(Node(n.item, n.left, y))

LEMMA InsertedType ==
  ASSUME NEW i \in Item, NEW n \in AllTrees \ {Nil}, NEW x \in AllTrees, NEW y \in AllTrees
  PROVE  InsertedInto(n, i, x, y) \in AllTrees \ {Nil}
<1>1. n.item \in Item /\ n.left \in AllTrees /\ n.right \in AllTrees
  BY PartsOf
<1>2. /\ LeftHeavy(Node(n.item, x, n.right)) \in AllTrees \ {Nil}
      /\ RightHeavy(Node(n.item, n.left, y)) \in AllTrees \ {Nil}
  BY <1>1, BalanceKeeps
<1> QED BY <1>2 DEF InsertedInto

LEMMA InsertMeans ==
  ASSUME NEW i \in Item
  PROVE  /\ Insert(Nil, i) = Node(i, Nil, Nil)
         /\ \A n \in AllTrees : Insert(n, i) \in AllTrees \ {Nil}
         /\ \A n \in AllTrees \ {Nil} :
              Insert(n, i) = InsertedInto(n, i, Insert(n.left, i), Insert(n.right, i))
<1> DEFINE V == AllTrees \ {Nil}
           b == Node(i, Nil, Nil)
           S == [n \in AllTrees |-> [x \in V |-> [y \in V |->
                   IF n = Nil THEN b ELSE InsertedInto(n, i, x, y)]]]
<1>1. S \in Steps(V) /\ b \in V
  <2>1. b \in V
    BY NilMeans, NodeOf, Fields
  <2> QED BY <2>1, InsertedType DEF Steps
<1> HIDE DEF V, b
<1>2. PICK f \in [AllTrees -> V] : Folds(f, b, S)
  <2> HIDE DEF S
  <2> QED BY <1>1, Fold
<1>3. \A n \in AllTrees \ {Nil} : f[n] = InsertedInto(n, i, f[n.left], f[n.right])
  BY <1>2, PartsOf DEF Folds
<1> DEFINE Body(g) == [h \in Nat |-> [m \in Tree[h] |->
             CASE m = Nil -> Node(i, Nil, Nil)
               [] m # Nil /\ i.t <= m.item.t ->
                    LeftHeavy(Node(m.item, g[h - 1][m.left], m.right))
               [] OTHER ->
                    RightHeavy(Node(m.item, m.left, g[h - 1][m.right]))]]
           Out(g, h, m) == IF m = Nil THEN b
                           ELSE InsertedInto(m, i, g[h - 1][m.left], g[h - 1][m.right])
           add == CHOOSE g : g = Body(g)
           t == [h \in Nat |-> [m \in Tree[h] |-> f[m]]]
<1>4. \A g : Body(g) = [h \in Nat |-> [m \in Tree[h] |-> Out(g, h, m)]]
  BY DEF InsertedInto, b
<1> HIDE DEF Body
<1>5. t = Body(t)
  <2>1. ASSUME NEW h \in Nat, NEW m \in Tree[h] PROVE f[m] = Out(t, h, m)
    <3>1. CASE m = Nil
      BY <1>2, <3>1 DEF Folds
    <3>2. CASE m # Nil
      <4>1. h - 1 \in Nat /\ m.left \in Tree[h - 1] /\ m.right \in Tree[h - 1] /\ m \in AllTrees
        BY <3>2, Parts, InTree
      <4>2. t[h - 1][m.left] = f[m.left] /\ t[h - 1][m.right] = f[m.right]
        BY <4>1
      <4> QED BY <1>3, <3>2, <4>1, <4>2
    <3> QED BY <3>1, <3>2
  <2>2. Body(t) = [h \in Nat |-> [m \in Tree[h] |-> Out(t, h, m)]]
    BY <1>4
  <2> HIDE DEF Out
  <2>3. ASSUME NEW h \in Nat
        PROVE  [m \in Tree[h] |-> f[m]] = [m \in Tree[h] |-> Out(t, h, m)]
    BY <2>1
  <2> QED BY <2>2, <2>3
<1>6. add = Body(add)
  <2> HIDE DEF t
  <2> QED BY <1>5
<1> HIDE DEF t, add
<1>7. \A h \in Nat : \A m \in Tree[h] : add[h][m] = f[m]
  <2>1. ASSUME NEW h \in Nat, NEW m \in Tree[h]
        PROVE  IF m = Nil THEN add[h][m] = b
               ELSE add[h - 1][m.left] \in V /\ add[h - 1][m.right] \in V
                      => add[h][m] = S[m][add[h - 1][m.left]][add[h - 1][m.right]]
    <3>1. add[h] = [k \in Tree[h] |-> Out(add, h, k)]
      <4>1. Body(add) = [k \in Nat |-> [c \in Tree[k] |-> Out(add, k, c)]]
        BY <1>4
      <4> HIDE DEF Out
      <4> QED BY <1>6, <4>1
    <3>2. add[h][m] = Out(add, h, m)
      <4> HIDE DEF Out
      <4> QED BY <3>1
    <3>3. m \in AllTrees
      BY InTree
    <3> QED BY <3>2, <3>3
  <2> HIDE DEF S, Out
  <2> QED BY <1>1, <1>2, <2>1, SameAtLevels
<1>8. ASSUME NEW n \in AllTrees PROVE Insert(n, i) = f[n]
  <2>1. Insert(n, i) = add[n.height + 1][n]
    BY DEF Insert, add, Body
  <2> QED BY <1>7, <2>1, OwnHeight
<1>9. Insert(Nil, i) = b
  BY <1>2, <1>8, NilMeans DEF Folds
<1>10. \A n \in AllTrees : Insert(n, i) \in V
  BY <1>8
<1>11. \A n \in AllTrees \ {Nil} :
         Insert(n, i) = InsertedInto(n, i, Insert(n.left, i), Insert(n.right, i))
  BY <1>3, <1>8, PartsOf
<1> QED BY <1>9, <1>10, <1>11 DEF V, b

(* The walk through a node, place by place.                                *)
LEMMA AroundMeans ==
  ASSUME NEW x \in Seq(Item), NEW y \in Seq(Item), NEW i \in Item,
         NEW s \in Seq(Item), s = Around(x, i, y, Item)
  PROVE  /\ Len(s) = Len(x) + 1 + Len(y)
         /\ \A j \in 1 .. Len(x) : s[j] = x[j]
         /\ s[Len(x) + 1] = i
         /\ \A j \in 1 .. Len(y) : s[Len(x) + 1 + j] = y[j]
<1> DEFINE u == <<i>> \o y
<1>1. One(i, Item) = <<i>>
  BY DEF One
<1>2. /\ u \in Seq(Item) /\ Len(u) = 1 + Len(y)
      /\ \A j \in 1 .. Len(u) : u[j] = IF j <= 1 THEN i ELSE y[j - 1]
  <2>1. <<i>> \in Seq(Item) /\ Len(<<i>>) = 1 /\ <<i>>[1] = i
    OBVIOUS
  <2>2. /\ u \in Seq(Item) /\ Len(u) = Len(<<i>>) + Len(y)
        /\ \A j \in 1 .. Len(<<i>>) + Len(y) :
             u[j] = IF j <= Len(<<i>>) THEN <<i>>[j] ELSE y[j - Len(<<i>>)]
    BY <2>1, ConcatProperties
  <2>3. ASSUME NEW j \in 1 .. (1 + Len(y)) PROVE u[j] = IF j <= 1 THEN i ELSE y[j - 1]
    <3>1. j <= 1 => j = 1
      OBVIOUS
    <3> HIDE DEF u
    <3> QED BY <2>1, <2>2, <3>1
  <2> QED BY <2>1, <2>2, <2>3
<1> HIDE DEF u
<1>3. s = (x \o <<i>>) \o y
  BY <1>1 DEF Around
<1>4. s = x \o u
  <2>1. (x \o <<i>>) \o y = x \o (<<i>> \o y)
    <3>1. <<i>> \in Items /\ x \in Items /\ y \in Items
      BY DEF Items
    <3>2. Cat(Cat(x, <<i>>), y) = Cat(x, Cat(<<i>>, y))
      BY <3>1, CatAssoc
    <3> QED BY <3>2 DEF Cat
  <2> QED BY <1>1, <2>1 DEF Around, u
<1>5. /\ s \in Seq(Item) /\ Len(s) = Len(x) + Len(u)
      /\ \A j \in 1 .. Len(x) + Len(u) : s[j] = IF j <= Len(x) THEN x[j] ELSE u[j - Len(x)]
  <2>1. /\ x \o u \in Seq(Item) /\ Len(x \o u) = Len(x) + Len(u)
        /\ \A j \in 1 .. Len(x) + Len(u) :
             (x \o u)[j] = IF j <= Len(x) THEN x[j] ELSE u[j - Len(x)]
    BY <1>2, ConcatProperties
  <2> QED BY <1>4, <2>1
<1>6. Len(x) \in Nat /\ Len(y) \in Nat
  OBVIOUS
<1>7. Len(s) = Len(x) + 1 + Len(y)
  BY <1>2, <1>5, <1>6
<1>8. \A j \in 1 .. Len(x) : s[j] = x[j]
  BY <1>5, <1>6, <1>7
<1>9. ASSUME NEW j \in 1 .. Len(u) PROVE s[Len(x) + j] = u[j]
  <2>1. Len(x) + j \in 1 .. Len(x) + Len(u) /\ ~ (Len(x) + j <= Len(x)) /\ (Len(x) + j) - Len(x) = j
    BY <1>2, <1>6
  <2> QED BY <1>5, <2>1
<1>10. s[Len(x) + 1] = i
  <2>1. 1 \in 1 .. Len(u)
    BY <1>2, <1>6
  <2>2. s[Len(x) + 1] = u[1]
    BY <1>9, <2>1
  <2> QED BY <1>2, <2>1, <2>2
<1>11. ASSUME NEW j \in 1 .. Len(y) PROVE s[Len(x) + 1 + j] = y[j]
  <2>1. /\ 1 + j \in 1 .. Len(u) /\ ~ (1 + j <= 1) /\ (1 + j) - 1 = j
        /\ Len(x) + (1 + j) = Len(x) + 1 + j
    BY <1>2, <1>6
  <2> QED BY <1>2, <1>9, <2>1
<1> QED BY <1>5, <1>7, <1>8, <1>10, <1>11

Walk(n) == InOrder(n, Item)

LEMMA WalkType == \A n \in AllTrees : Walk(n) \in Seq(Item)
BY WalkMeans DEF Walk

LEMMA WalkPlaces ==
  ASSUME NEW i \in Item, NEW l \in AllTrees, NEW r \in AllTrees, NEW n, n = Node(i, l, r)
  PROVE  /\ Len(Walk(n)) = Len(Walk(l)) + 1 + Len(Walk(r))
         /\ \A j \in 1 .. Len(Walk(l)) : Walk(n)[j] = Walk(l)[j]
         /\ Walk(n)[Len(Walk(l)) + 1] = i
         /\ \A j \in 1 .. Len(Walk(r)) : Walk(n)[Len(Walk(l)) + 1 + j] = Walk(r)[j]
<1>1. Walk(n) = Around(Walk(l), i, Walk(r), Item)
  BY WalkNode DEF Walk
<1>2. Walk(l) \in Seq(Item) /\ Walk(r) \in Seq(Item) /\ Walk(n) \in Seq(Item)
  BY NodeOf, WalkType
<1>3. \A x, y, s \in Seq(Item) :
        s = Around(x, i, y, Item)
          => /\ Len(s) = Len(x) + 1 + Len(y)
             /\ \A j \in 1 .. Len(x) : s[j] = x[j]
             /\ s[Len(x) + 1] = i
             /\ \A j \in 1 .. Len(y) : s[Len(x) + 1 + j] = y[j]
  BY AroundMeans
<1> QED BY <1>1, <1>2, <1>3

LEMMA RightmostType ==
  ASSUME NEW n \in AllTrees \ {Nil}
  PROVE  /\ Len(Walk(n)) \in Nat \ {0} /\ Rightmost(n) = Walk(n)[Len(Walk(n))]
         /\ Rightmost(n) \in Item
<1>1. /\ n.item \in Item /\ n.left \in AllTrees /\ n.right \in AllTrees
      /\ n = Node(n.item, n.left, n.right)
  BY PartsOf
<1>2. Walk(n) \in Seq(Item) /\ Walk(n.left) \in Seq(Item) /\ Walk(n.right) \in Seq(Item)
  BY <1>1, WalkType
<1>3. Len(Walk(n)) = Len(Walk(n.left)) + 1 + Len(Walk(n.right))
  BY <1>1, WalkPlaces
<1>4. Len(Walk(n)) \in Nat \ {0}
  BY <1>2, <1>3
<1>5. Walk(n)[Len(Walk(n))] \in Item
  BY <1>2, <1>4
<1> QED BY <1>4, <1>5 DEF Rightmost, Walk

(* x and y are the functions that delete an item of the left and of the    *)
(* right.                                                                  *)
Deleted(n, j, x, y) ==
  IF j.t = n.item.t
  THEN IF n.left = Nil THEN n.right ELSE Node(Rightmost(n.left), x[Rightmost(n.left)], n.right)
  ELSE IF j.t < n.item.t THEN LeftHeavy(Node(n.item, x[j], n.right))
  ELSE RightHeavy(Node(n.item, n.left, y[j]))

LEMMA DeletedType ==
  ASSUME NEW j \in Item, NEW n \in AllTrees \ {Nil},
         NEW x \in [Item -> AllTrees], NEW y \in [Item -> AllTrees]
  PROVE  Deleted(n, j, x, y) \in AllTrees
<1>1. n.item \in Item /\ n.left \in AllTrees /\ n.right \in AllTrees
  BY PartsOf
<1>2. /\ LeftHeavy(Node(n.item, x[j], n.right)) \in AllTrees
      /\ RightHeavy(Node(n.item, n.left, y[j])) \in AllTrees
  BY <1>1, BalanceKeeps
<1>3. ASSUME n.left # Nil
      PROVE  Node(Rightmost(n.left), x[Rightmost(n.left)], n.right) \in AllTrees
  BY <1>1, <1>3, RightmostType, NodeOf
<1> QED BY <1>1, <1>2, <1>3 DEF Deleted

LEMMA DeleteMeans ==
  /\ \A n \in AllTrees, j \in Item : Delete(n, j) \in AllTrees
  /\ \A j \in Item : Delete(Nil, j) = Nil
  /\ \A n \in AllTrees \ {Nil}, j \in Item :
       Delete(n, j) = Deleted(n, j, [k \in Item |-> Delete(n.left, k)],
                                    [k \in Item |-> Delete(n.right, k)])
<1> DEFINE V == [Item -> AllTrees]
           b == [j \in Item |-> Nil]
           S == [n \in AllTrees |-> [x \in V |-> [y \in V |->
                   IF n = Nil THEN b ELSE [j \in Item |-> Deleted(n, j, x, y)]]]]
<1>1. S \in Steps(V) /\ b \in V
  BY NilMeans, DeletedType DEF Steps
<1> HIDE DEF V, b
<1>2. PICK f \in [AllTrees -> V] : Folds(f, b, S)
  <2> HIDE DEF S
  <2> QED BY <1>1, Fold
<1>3. \A n \in AllTrees \ {Nil} : f[n] = [j \in Item |-> Deleted(n, j, f[n.left], f[n.right])]
  BY <1>2, PartsOf DEF Folds
<1> DEFINE Body(g) == [h \in Nat |-> [m \in Tree[h] |-> [j \in Item |->
             CASE m = Nil -> Nil
               [] m # Nil /\ j.t = m.item.t ->
                    IF m.left = Nil THEN m.right
                    ELSE LET child == Rightmost(m.left)
                         IN Node(child, g[h - 1][m.left][child], m.right)
               [] m # Nil /\ j.t < m.item.t ->
                    LeftHeavy(Node(m.item, g[h - 1][m.left][j], m.right))
               [] OTHER ->
                    RightHeavy(Node(m.item, m.left, g[h - 1][m.right][j]))]]]
           Out(g, h, m, j) == IF m = Nil THEN Nil
                              ELSE Deleted(m, j, g[h - 1][m.left], g[h - 1][m.right])
           remove == CHOOSE g : g = Body(g)
           t == [h \in Nat |-> [m \in Tree[h] |-> f[m]]]
<1>4. ASSUME NEW g
      PROVE  Body(g) = [h \in Nat |-> [m \in Tree[h] |-> [j \in Item |-> Out(g, h, m, j)]]]
  <2>1. ASSUME NEW h \in Nat, NEW m \in Tree[h], NEW j \in Item
        PROVE  Out(g, h, m, j)
               = CASE m = Nil -> Nil
                   [] m # Nil /\ j.t = m.item.t ->
                        IF m.left = Nil THEN m.right
                        ELSE LET child == Rightmost(m.left)
                             IN Node(child, g[h - 1][m.left][child], m.right)
                   [] m # Nil /\ j.t < m.item.t ->
                        LeftHeavy(Node(m.item, g[h - 1][m.left][j], m.right))
                   [] OTHER ->
                        RightHeavy(Node(m.item, m.left, g[h - 1][m.right][j]))
    <3>1. CASE m = Nil
      BY <3>1
    <3>2. CASE m # Nil
      <4>1. m \in AllTrees \ {Nil} /\ m.item \in Item
        BY <3>2, InTree, PartsOf
      <4>2. j.t \in Nat /\ m.item.t \in Nat
        BY <4>1 DEF Item
      <4>3. CASE j.t = m.item.t
        BY <3>2, <4>2, <4>3 DEF Deleted
      <4>4. CASE j.t < m.item.t
        BY <3>2, <4>2, <4>4 DEF Deleted
      <4>5. CASE m.item.t < j.t
        BY <3>2, <4>2, <4>5 DEF Deleted
      <4> QED BY <4>2, <4>3, <4>4, <4>5
    <3> QED BY <3>1, <3>2
  <2> HIDE DEF Out
  <2> QED BY <2>1
<1> HIDE DEF Body
<1>5. t = Body(t)
  <2>1. ASSUME NEW h \in Nat, NEW m \in Tree[h]
        PROVE  f[m] = [j \in Item |-> Out(t, h, m, j)]
    <3>1. CASE m = Nil
      BY <1>2, <3>1 DEF Folds, b
    <3>2. CASE m # Nil
      <4>1. h - 1 \in Nat /\ m.left \in Tree[h - 1] /\ m.right \in Tree[h - 1] /\ m \in AllTrees
        BY <3>2, Parts, InTree
      <4>2. t[h - 1][m.left] = f[m.left] /\ t[h - 1][m.right] = f[m.right]
        BY <4>1
      <4>3. f[m] = [j \in Item |-> Deleted(m, j, f[m.left], f[m.right])]
        BY <1>3, <3>2, <4>1
      <4>4. \A j \in Item : Out(t, h, m, j) = Deleted(m, j, f[m.left], f[m.right])
        BY <3>2, <4>2
      <4> HIDE DEF Out, t
      <4> QED BY <4>3, <4>4
    <3> QED BY <3>1, <3>2
  <2>2. Body(t) = [h \in Nat |-> [m \in Tree[h] |-> [j \in Item |-> Out(t, h, m, j)]]]
    <3> HIDE DEF t, Out
    <3> QED BY <1>4
  <2> HIDE DEF Out
  <2>3. ASSUME NEW h \in Nat
        PROVE  [m \in Tree[h] |-> f[m]] = [m \in Tree[h] |-> [j \in Item |-> Out(t, h, m, j)]]
    <3> HIDE DEF t
    <3> QED BY <2>1
  <2> QED BY <2>2, <2>3
<1>6. remove = Body(remove)
  <2> HIDE DEF t
  <2> QED BY <1>5
<1> HIDE DEF t, remove
<1>7. \A h \in Nat : \A m \in Tree[h] : remove[h][m] = f[m]
  <2>1. ASSUME NEW h \in Nat, NEW m \in Tree[h]
        PROVE  IF m = Nil THEN remove[h][m] = b
               ELSE remove[h - 1][m.left] \in V /\ remove[h - 1][m.right] \in V
                      => remove[h][m] = S[m][remove[h - 1][m.left]][remove[h - 1][m.right]]
    <3>1. remove[h] = [k \in Tree[h] |-> [j \in Item |-> Out(remove, h, k, j)]]
      <4>1. Body(remove) = [k \in Nat |-> [c \in Tree[k] |-> [j \in Item |-> Out(remove, k, c, j)]]]
        <5> HIDE DEF Out
        <5> QED BY <1>4
      <4> HIDE DEF Out
      <4> QED BY <1>6, <4>1
    <3>2. remove[h][m] = [j \in Item |-> Out(remove, h, m, j)]
      <4> HIDE DEF Out
      <4> QED BY <3>1
    <3>3. m \in AllTrees
      BY InTree
    <3>4. CASE m = Nil
      BY <3>2, <3>4 DEF b
    <3>5. CASE m # Nil
      BY <3>2, <3>3, <3>5
    <3> QED BY <3>4, <3>5
  <2> HIDE DEF S, Out
  <2> QED BY <1>1, <1>2, <2>1, SameAtLevels
<1>8. ASSUME NEW n \in AllTrees, NEW j \in Item PROVE Delete(n, j) = f[n][j]
  <2>1. Delete(n, j) = remove[n.height + 1][n][j]
    BY DEF Delete, remove, Body
  <2> QED BY <1>7, <2>1, OwnHeight
<1>9. \A n \in AllTrees, j \in Item : Delete(n, j) \in AllTrees
  BY <1>8 DEF V
<1>10. \A j \in Item : Delete(Nil, j) = Nil
  <2>1. f[Nil] = b
    BY <1>2 DEF Folds
  <2> QED BY <1>8, <2>1, NilMeans DEF b
<1>11. ASSUME NEW n \in AllTrees \ {Nil}, NEW j \in Item
       PROVE  Delete(n, j) = Deleted(n, j, [k \in Item |-> Delete(n.left, k)],
                                           [k \in Item |-> Delete(n.right, k)])
  <2>1. Delete(n, j) = Deleted(n, j, f[n.left], f[n.right])
    BY <1>3, <1>8
  <2>2. n.left \in AllTrees /\ n.right \in AllTrees
    BY PartsOf
  <2>3. /\ f[n.left] = [k \in Item |-> Delete(n.left, k)]
        /\ f[n.right] = [k \in Item |-> Delete(n.right, k)]
    BY <1>8, <2>2 DEF V
  <2> QED BY <2>1, <2>3
<1> QED BY <1>9, <1>10, <1>11

-----------------------------------------------------------------------------
(* What Insert and Delete do to the walk through a tree in order.          *)

Ordered(s) == \A a, b \in 1 .. Len(s) : a < b => s[a].t <= s[b].t

(* s is what the walk is through a node of a over subtrees of walks x, y.  *)
Joined(s, x, a, y) ==
  /\ Len(s) = Len(x) + 1 + Len(y)
  /\ \A j \in 1 .. Len(x) : s[j] = x[j]
  /\ s[Len(x) + 1] = a
  /\ \A j \in 1 .. Len(y) : s[Len(x) + 1 + j] = y[j]

LEMMA NodeWalk ==
  ASSUME NEW i \in Item, NEW l \in AllTrees, NEW r \in AllTrees, NEW n, n = Node(i, l, r)
  PROVE  Joined(Walk(n), Walk(l), i, Walk(r))
BY WalkPlaces DEF Joined

LEMMA ItemTime == \A i \in Item : i.t \in Nat
BY DEF Item

(* The walks through the children are in order, and the item between.      *)
LEMMA OrderedParts ==
  ASSUME NEW x \in Seq(Item), NEW y \in Seq(Item), NEW s \in Seq(Item), NEW a \in Item,
         Joined(s, x, a, y)
  PROVE  Ordered(s) <=> /\ Ordered(x) /\ Ordered(y)
                        /\ \A j \in 1 .. Len(x) : x[j].t <= a.t
                        /\ \A j \in 1 .. Len(y) : a.t <= y[j].t
<1> DEFINE m == Len(x)
           k == Len(y)
<1>1. m \in Nat /\ k \in Nat
  OBVIOUS
<1>2. /\ Len(s) = m + 1 + k
      /\ \A j \in 1 .. m : s[j] = x[j]
      /\ s[m + 1] = a
      /\ \A j \in 1 .. k : s[m + 1 + j] = y[j]
  BY DEF Joined
<1>3. /\ \A j \in 1 .. m : x[j].t \in Nat
      /\ \A j \in 1 .. k : y[j].t \in Nat
      /\ \A j \in 1 .. (m + 1 + k) : s[j].t \in Nat
      /\ a.t \in Nat
  <2>1. \A j \in 1 .. m : x[j] \in Item
    OBVIOUS
  <2>2. \A j \in 1 .. k : y[j] \in Item
    OBVIOUS
  <2>3. \A j \in 1 .. (m + 1 + k) : s[j] \in Item
    BY <1>2
  <2> QED BY <2>1, <2>2, <2>3, ItemTime
<1>4. /\ Ordered(s) <=> \A b, c \in 1 .. (m + 1 + k) : b < c => s[b].t <= s[c].t
      /\ Ordered(x) <=> \A b, c \in 1 .. m : b < c => x[b].t <= x[c].t
      /\ Ordered(y) <=> \A b, c \in 1 .. k : b < c => y[b].t <= y[c].t
  BY <1>2 DEF Ordered
<1> HIDE DEF m, k
<1>5. ASSUME \A b, c \in 1 .. (m + 1 + k) : b < c => s[b].t <= s[c].t
      PROVE  /\ \A b, c \in 1 .. m : b < c => x[b].t <= x[c].t
             /\ \A b, c \in 1 .. k : b < c => y[b].t <= y[c].t
             /\ \A j \in 1 .. m : x[j].t <= a.t
             /\ \A j \in 1 .. k : a.t <= y[j].t
  <2>1. \A b, c \in 1 .. m : b < c => x[b].t <= x[c].t
    BY <1>1, <1>2, <1>5
  <2>2. ASSUME NEW b \in 1 .. k, NEW c \in 1 .. k, b < c PROVE y[b].t <= y[c].t
    <3>1. /\ m + 1 + b \in 1 .. (m + 1 + k) /\ m + 1 + c \in 1 .. (m + 1 + k)
          /\ m + 1 + b < m + 1 + c
      BY <1>1, <2>2
    <3> QED BY <1>2, <1>5, <3>1
  <2>3. \A j \in 1 .. m : x[j].t <= a.t
    BY <1>1, <1>2, <1>5
  <2>4. ASSUME NEW j \in 1 .. k PROVE a.t <= y[j].t
    <3>1. m + 1 + j \in 1 .. (m + 1 + k) /\ m + 1 \in 1 .. (m + 1 + k) /\ m + 1 < m + 1 + j
      BY <1>1
    <3> QED BY <1>2, <1>5, <3>1
  <2> QED BY <2>1, <2>2, <2>3, <2>4
<1>6. ASSUME \A b, c \in 1 .. m : b < c => x[b].t <= x[c].t,
             \A b, c \in 1 .. k : b < c => y[b].t <= y[c].t,
             \A j \in 1 .. m : x[j].t <= a.t,
             \A j \in 1 .. k : a.t <= y[j].t,
             NEW b \in 1 .. (m + 1 + k), NEW c \in 1 .. (m + 1 + k), b < c
      PROVE  s[b].t <= s[c].t
  <2>1. ASSUME NEW j \in 1 .. (m + 1 + k)
        PROVE  \/ j \in 1 .. m /\ s[j] = x[j]
               \/ j = m + 1 /\ s[j] = a
               \/ \E d \in 1 .. k : j = m + 1 + d /\ s[j] = y[d]
    <3>1. CASE j <= m
      BY <1>1, <1>2, <3>1
    <3>2. CASE j = m + 1
      BY <1>1, <1>2, <3>2
    <3>3. CASE j > m + 1
      <4>1. j - (m + 1) \in 1 .. k /\ j = m + 1 + (j - (m + 1))
        BY <1>1, <3>3
      <4> QED BY <1>2, <4>1
    <3> QED BY <1>1, <3>1, <3>2, <3>3
  <2>2. CASE b \in 1 .. m /\ s[b] = x[b]
    <3>1. CASE c \in 1 .. m /\ s[c] = x[c]
      BY <1>6, <2>2, <3>1
    <3>2. CASE c = m + 1 /\ s[c] = a
      BY <1>6, <2>2, <3>2
    <3>3. CASE \E d \in 1 .. k : c = m + 1 + d /\ s[c] = y[d]
      <4>1. PICK d \in 1 .. k : c = m + 1 + d /\ s[c] = y[d]
        BY <3>3
      <4>2. x[b].t <= a.t /\ a.t <= y[d].t
        BY <1>6, <2>2
      <4> QED BY <1>3, <2>2, <4>1, <4>2
    <3> QED BY <2>1, <3>1, <3>2, <3>3
  <2>3. CASE b = m + 1 /\ s[b] = a
    <3>1. PICK d \in 1 .. k : c = m + 1 + d /\ s[c] = y[d]
      BY <1>1, <1>6, <2>1, <2>3
    <3> QED BY <1>6, <2>3, <3>1
  <2>4. CASE \E d \in 1 .. k : b = m + 1 + d /\ s[b] = y[d]
    <3>1. PICK d \in 1 .. k : b = m + 1 + d /\ s[b] = y[d]
      BY <2>4
    <3>2. PICK e \in 1 .. k : c = m + 1 + e /\ s[c] = y[e]
      BY <1>1, <1>6, <2>1, <3>1
    <3>3. d < e
      BY <1>1, <1>6, <3>1, <3>2
    <3> QED BY <1>6, <3>1, <3>2, <3>3
  <2> QED BY <2>1, <2>2, <2>3, <2>4
<1> QED BY <1>4, <1>5, <1>6 DEF m, k

(* r is s with i in front of place p + 1, where the order has it.          *)
Placed(s, i, p, r) ==
  /\ p \in 0 .. Len(s) /\ Len(r) = Len(s) + 1
  /\ \A j \in 1 .. p : r[j] = s[j] /\ s[j].t <= i.t
  /\ r[p + 1] = i
  /\ \A j \in p + 1 .. Len(s) : r[j + 1] = s[j] /\ i.t <= s[j].t

LEMMA PlacedLeft ==
  ASSUME NEW x \in Seq(Item), NEW y \in Seq(Item), NEW s \in Seq(Item), NEW a \in Item,
         Joined(s, x, a, y), Ordered(s), NEW i \in Item, i.t <= a.t,
         NEW z \in Seq(Item), NEW p, Placed(x, i, p, z),
         NEW r \in Seq(Item), Joined(r, z, a, y)
  PROVE  Placed(s, i, p, r)
<1> DEFINE m == Len(x)
           k == Len(y)
<1>1. m \in Nat /\ k \in Nat /\ p \in 0 .. m /\ i.t \in Nat /\ a.t \in Nat
  BY ItemTime DEF Placed
<1>2. /\ Len(s) = m + 1 + k
      /\ \A j \in 1 .. m : s[j] = x[j]
      /\ s[m + 1] = a
      /\ \A j \in 1 .. k : s[m + 1 + j] = y[j]
  BY DEF Joined
<1>3. /\ Len(z) = m + 1 /\ Len(r) = m + 1 + 1 + k
      /\ \A j \in 1 .. m + 1 : r[j] = z[j]
      /\ r[m + 1 + 1] = a
      /\ \A j \in 1 .. k : r[m + 1 + 1 + j] = y[j]
  BY DEF Joined, Placed
<1>4. /\ \A j \in 1 .. p : z[j] = x[j] /\ x[j].t <= i.t
      /\ z[p + 1] = i
      /\ \A j \in p + 1 .. m : z[j + 1] = x[j] /\ i.t <= x[j].t
  BY DEF Placed
<1>5. \A j \in 1 .. k : a.t <= y[j].t /\ y[j].t \in Nat
  <2>1. \A j \in 1 .. k : y[j] \in Item
    OBVIOUS
  <2>2. \A j \in 1 .. k : a.t <= y[j].t
    BY OrderedParts
  <2> QED BY <2>1, <2>2, ItemTime
<1> HIDE DEF m, k
<1>6. p \in 0 .. Len(s) /\ Len(r) = Len(s) + 1
  BY <1>1, <1>2, <1>3
<1>7. ASSUME NEW j \in 1 .. p PROVE r[j] = s[j] /\ s[j].t <= i.t
  <2>1. j \in 1 .. m /\ j \in 1 .. m + 1
    BY <1>1
  <2> QED BY <1>2, <1>3, <1>4, <2>1
<1>8. r[p + 1] = i
  BY <1>1, <1>3, <1>4
<1>9. ASSUME NEW j \in p + 1 .. Len(s) PROVE r[j + 1] = s[j] /\ i.t <= s[j].t
  <2>1. CASE j <= m
    <3>1. j \in p + 1 .. m
      BY <1>1, <1>2, <2>1, SMTT(30)
    <3>2. j \in 1 .. m /\ j + 1 \in 1 .. m + 1
      BY <1>1, <3>1, SMTT(30)
    <3> QED BY <1>2, <1>3, <1>4, <3>1, <3>2
  <2>2. CASE j = m + 1
    BY <1>2, <1>3, <2>2
  <2>3. CASE j > m + 1
    <3> DEFINE d == j - (m + 1)
    <3>1. d \in 1 .. k /\ j = m + 1 + d /\ j + 1 = m + 1 + 1 + d
      BY <1>1, <1>2, <2>3
    <3> HIDE DEF d
    <3>2. s[j] = y[d] /\ r[j + 1] = y[d]
      BY <1>2, <1>3, <3>1
    <3>3. a.t <= y[d].t /\ y[d].t \in Nat
      BY <1>5, <3>1
    <3>4. i.t <= y[d].t
      BY <1>1, <3>3
    <3> QED BY <3>2, <3>4
  <2> QED BY <1>1, <1>2, <2>1, <2>2, <2>3
<1> QED BY <1>6, <1>7, <1>8, <1>9 DEF Placed

LEMMA PlacedRight ==
  ASSUME NEW x \in Seq(Item), NEW y \in Seq(Item), NEW s \in Seq(Item), NEW a \in Item,
         Joined(s, x, a, y), Ordered(s), NEW i \in Item, a.t <= i.t,
         NEW z \in Seq(Item), NEW p, Placed(y, i, p, z),
         NEW r \in Seq(Item), Joined(r, x, a, z)
  PROVE  Placed(s, i, Len(x) + 1 + p, r)
<1> DEFINE m == Len(x)
           k == Len(y)
<1>1. m \in Nat /\ k \in Nat /\ p \in 0 .. k /\ i.t \in Nat /\ a.t \in Nat
  BY ItemTime DEF Placed
<1>2. /\ Len(s) = m + 1 + k
      /\ \A j \in 1 .. m : s[j] = x[j]
      /\ s[m + 1] = a
      /\ \A j \in 1 .. k : s[m + 1 + j] = y[j]
  BY DEF Joined
<1>3. /\ Len(z) = k + 1 /\ Len(r) = m + 1 + (k + 1)
      /\ \A j \in 1 .. m : r[j] = x[j]
      /\ r[m + 1] = a
      /\ \A j \in 1 .. k + 1 : r[m + 1 + j] = z[j]
  BY DEF Joined, Placed
<1>4. /\ \A j \in 1 .. p : z[j] = y[j] /\ y[j].t <= i.t
      /\ z[p + 1] = i
      /\ \A j \in p + 1 .. k : z[j + 1] = y[j] /\ i.t <= y[j].t
  BY DEF Placed
<1>5. \A j \in 1 .. m : x[j].t <= a.t /\ x[j].t \in Nat
  <2>1. \A j \in 1 .. m : x[j] \in Item
    OBVIOUS
  <2>2. \A j \in 1 .. m : x[j].t <= a.t
    BY OrderedParts
  <2> QED BY <2>1, <2>2, ItemTime
<1> HIDE DEF m, k
<1> DEFINE q == m + 1 + p
<1>6. q \in 0 .. Len(s) /\ Len(r) = Len(s) + 1
  BY <1>1, <1>2, <1>3
<1>7. ASSUME NEW j \in 1 .. q PROVE r[j] = s[j] /\ s[j].t <= i.t
  <2>1. CASE j <= m
    <3>1. j \in 1 .. m
      BY <1>1, <2>1
    <3>2. r[j] = x[j] /\ s[j] = x[j]
      BY <1>2, <1>3, <3>1
    <3>3. x[j].t <= a.t /\ x[j].t \in Nat
      BY <1>5, <3>1
    <3>4. x[j].t <= i.t
      BY <1>1, <3>3
    <3> QED BY <3>2, <3>4
  <2>2. CASE j = m + 1
    BY <1>2, <1>3, <2>2
  <2>3. CASE j > m + 1
    <3> DEFINE d == j - (m + 1)
    <3>1. d \in 1 .. p /\ d \in 1 .. k /\ d \in 1 .. k + 1 /\ j = m + 1 + d
      BY <1>1, <2>3
    <3> HIDE DEF d
    <3> QED BY <1>2, <1>3, <1>4, <3>1
  <2> QED BY <1>1, <2>1, <2>2, <2>3
<1>8. r[q + 1] = i
  <2>1. p + 1 \in 1 .. k + 1 /\ q + 1 = m + 1 + (p + 1)
    BY <1>1
  <2> QED BY <1>3, <1>4, <2>1
<1>9. ASSUME NEW j \in q + 1 .. Len(s) PROVE r[j + 1] = s[j] /\ i.t <= s[j].t
  <2> DEFINE d == j - (m + 1)
  <2>1. /\ d \in p + 1 .. k /\ d \in 1 .. k /\ d + 1 \in 1 .. k + 1
        /\ j = m + 1 + d /\ j + 1 = m + 1 + (d + 1)
    BY <1>1, <1>2
  <2> HIDE DEF d
  <2> QED BY <1>2, <1>3, <1>4, <2>1
<1> QED BY <1>6, <1>7, <1>8, <1>9 DEF Placed, m

(* An item that is added is placed in the walk where the order has it.     *)
LEMMA InsertOrder ==
  ASSUME NEW i \in Item, NEW n \in AllTrees, Ordered(Walk(n))
  PROVE  \E p : Placed(Walk(n), i, p, Walk(Insert(n, i)))
<1> DEFINE Good == {c \in AllTrees :
                      Ordered(Walk(c)) => \E p : Placed(Walk(c), i, p, Walk(Insert(c, i)))}
<1>1. Nil \in Good
  <2>1. Walk(Nil) = <<>>
    BY WalkMeans DEF Walk
  <2>2. Joined(Walk(Node(i, Nil, Nil)), <<>>, i, <<>>)
    BY <2>1, NilMeans, NodeWalk
  <2>3. Placed(<<>>, i, 0, Walk(Insert(Nil, i)))
    BY <2>2, InsertMeans DEF Placed, Joined
  <2> QED BY <2>1, <2>3, NilMeans
<1>2. ASSUME NEW a \in Item, NEW l \in AllTrees, NEW r \in AllTrees, l \in Good, r \in Good
      PROVE  Node(a, l, r) \in Good
  <2> DEFINE c == Node(a, l, r)
             s == Walk(c)
             x == Walk(l)
             y == Walk(r)
  <2>1. c \in AllTrees \ {Nil} /\ c.item = a /\ c.left = l /\ c.right = r
    BY NodeOf, Fields
  <2>2. Joined(s, x, a, y)
    BY NodeWalk
  <2>3. s \in Seq(Item) /\ x \in Seq(Item) /\ y \in Seq(Item)
    BY <2>1, WalkType
  <2>4. a.t \in Nat /\ i.t \in Nat
    BY ItemTime
  <2> SUFFICES ASSUME Ordered(s) PROVE \E p : Placed(s, i, p, Walk(Insert(c, i)))
    BY <2>1
  <2>5. Ordered(x) /\ Ordered(y)
    <3> HIDE DEF s, x, y
    <3> QED BY <2>2, <2>3, OrderedParts
  <2>6. CASE i.t <= a.t
    <3> DEFINE z == Walk(Insert(l, i))
               v == Walk(Insert(c, i))
    <3>1. PICK p : Placed(x, i, p, z)
      BY <1>2, <2>5
    <3>2. Insert(l, i) \in AllTrees
      BY InsertMeans
    <3>3. Insert(c, i) = LeftHeavy(Node(a, Insert(l, i), r))
      <4> HIDE DEF c
      <4> QED BY <2>1, <2>6, InsertMeans DEF InsertedInto
    <3>4. Walk(LeftHeavy(Node(a, Insert(l, i), r))) = Walk(Node(a, Insert(l, i), r))
      BY <3>2, BalanceKeeps DEF Walk
    <3>5. Joined(Walk(Node(a, Insert(l, i), r)), z, a, y)
      BY <3>2, NodeWalk
    <3>6. Joined(v, z, a, y)
      <4> HIDE DEF c, z, y
      <4> QED BY <3>3, <3>4, <3>5
    <3>7. v \in Seq(Item) /\ z \in Seq(Item)
      BY <2>1, <3>2, InsertMeans, WalkType
    <3> HIDE DEF s, x, y, z, v, c
    <3>8. Placed(s, i, p, v)
      BY <2>2, <2>3, <2>6, <3>1, <3>6, <3>7, PlacedLeft
    <3> QED BY <3>8 DEF v
  <2>7. CASE ~ (i.t <= a.t)
    <3> DEFINE z == Walk(Insert(r, i))
               v == Walk(Insert(c, i))
    <3>1. PICK p : Placed(y, i, p, z)
      BY <1>2, <2>5
    <3>2. Insert(r, i) \in AllTrees
      BY InsertMeans
    <3>3. Insert(c, i) = RightHeavy(Node(a, l, Insert(r, i)))
      <4> HIDE DEF c
      <4> QED BY <2>1, <2>7, InsertMeans DEF InsertedInto
    <3>4. Walk(RightHeavy(Node(a, l, Insert(r, i)))) = Walk(Node(a, l, Insert(r, i)))
      BY <3>2, BalanceKeeps DEF Walk
    <3>5. Joined(Walk(Node(a, l, Insert(r, i))), x, a, z)
      BY <3>2, NodeWalk
    <3>6. Joined(v, x, a, z)
      <4> HIDE DEF c, z, x
      <4> QED BY <3>3, <3>4, <3>5
    <3>7. v \in Seq(Item) /\ z \in Seq(Item)
      BY <2>1, <3>2, InsertMeans, WalkType
    <3> HIDE DEF s, x, y, z, v, c
    <3>8. a.t <= i.t
      BY <2>4, <2>7
    <3>9. Placed(s, i, Len(x) + 1 + p, v)
      BY <2>2, <2>3, <3>1, <3>6, <3>7, <3>8, PlacedRight
    <3> QED BY <3>9 DEF v
  <2> QED BY <2>6, <2>7
<1> HIDE DEF Good
<1>3. AllTrees \subseteq Good
  BY <1>1, <1>2, TreeInduction
<1> QED BY <1>3 DEF Good

(* What is placed in order is in order. *)
LEMMA PlacedOrdered ==
  ASSUME NEW s \in Seq(Item), Ordered(s), NEW i \in Item, NEW p, NEW r \in Seq(Item),
         Placed(s, i, p, r)
  PROVE  /\ Ordered(r)
         /\ \A j \in 1 .. Len(r) : r[j] = i \/ \E k \in 1 .. Len(s) : r[j] = s[k]
<1> DEFINE m == Len(s)
           At(j, k) == \/ k \in 1 .. p /\ j = k /\ r[j] = s[k]
                       \/ k \in p + 1 .. m /\ j = k + 1 /\ r[j] = s[k]
<1>1. m \in Nat /\ p \in 0 .. m /\ i.t \in Nat /\ Len(r) = m + 1
  BY ItemTime DEF Placed
<1>2. \A j \in 1 .. m : s[j].t \in Nat
  <2>1. \A j \in 1 .. m : s[j] \in Item
    OBVIOUS
  <2> QED BY <2>1, ItemTime
<1>3. /\ \A j \in 1 .. p : r[j] = s[j] /\ s[j].t <= i.t
      /\ r[p + 1] = i
      /\ \A j \in p + 1 .. m : r[j + 1] = s[j] /\ i.t <= s[j].t
  BY DEF Placed
<1>4. \A b, c \in 1 .. m : b < c => s[b].t <= s[c].t
  BY DEF Ordered
<1> HIDE DEF m
<1>5. ASSUME NEW j \in 1 .. m + 1
      PROVE  j = p + 1 \/ \E k \in 1 .. m : At(j, k)
  <2>1. CASE j <= p
    BY <1>1, <1>3, <2>1
  <2>2. CASE j > p + 1
    <3>1. j - 1 \in p + 1 .. m /\ j - 1 \in 1 .. m /\ j = (j - 1) + 1
      BY <1>1, <2>2
    <3>2. At(j, j - 1)
      BY <1>3, <3>1
    <3> QED BY <3>1, <3>2
  <2> QED BY <1>1, <2>1, <2>2
<1>6. ASSUME NEW b \in 1 .. m + 1, NEW c \in 1 .. m + 1, b < c PROVE r[b].t <= r[c].t
  <2>1. CASE b = p + 1
    <3>1. PICK k \in 1 .. m : At(c, k)
      <4>1. c # p + 1
        BY <1>1, <1>6, <2>1
      <4> HIDE DEF At
      <4> QED BY <1>5, <4>1
    <3> QED BY <1>1, <1>3, <1>6, <2>1, <3>1
  <2>2. CASE \E k \in 1 .. m : At(b, k)
    <3>1. PICK k \in 1 .. m : At(b, k)
      BY <2>2
    <3>2. CASE c = p + 1
      BY <1>1, <1>3, <1>6, <3>1, <3>2
    <3>3. CASE \E d \in 1 .. m : At(c, d)
      <4>1. PICK d \in 1 .. m : At(c, d)
        BY <3>3
      <4>2. k < d
        BY <1>1, <1>6, <3>1, <4>1
      <4> QED BY <1>4, <3>1, <4>1, <4>2
    <3> QED BY <1>5, <3>2, <3>3
  <2> QED BY <1>5, <2>1, <2>2
<1>7. Ordered(r)
  BY <1>1, <1>6 DEF Ordered
<1>8. \A j \in 1 .. Len(r) : r[j] = i \/ \E k \in 1 .. m : r[j] = s[k]
  BY <1>1, <1>3, <1>5
<1> QED BY <1>7, <1>8 DEF m

(* The times of r are those of s without place p, and its items are some   *)
(* of those of s.                                                          *)
Dropped(s, p, r) ==
  /\ p \in 1 .. Len(s) /\ Len(r) = Len(s) - 1
  /\ \A j \in 1 .. p - 1 : r[j].t = s[j].t
  /\ \A j \in p .. Len(r) : r[j].t = s[j + 1].t
  /\ \A j \in 1 .. Len(r) : \E k \in 1 .. Len(s) : r[j] = s[k]

LEMMA DroppedLeft ==
  ASSUME NEW x \in Seq(Item), NEW y \in Seq(Item), NEW s \in Seq(Item), NEW a \in Item,
         Joined(s, x, a, y), NEW z \in Seq(Item), NEW p, Dropped(x, p, z),
         NEW r \in Seq(Item), Joined(r, z, a, y)
  PROVE  Dropped(s, p, r)
<1> DEFINE m == Len(x)
           k == Len(y)
<1>1. m \in Nat /\ k \in Nat /\ p \in 1 .. m
  BY DEF Dropped
<1>2. /\ Len(s) = m + 1 + k
      /\ \A j \in 1 .. m : s[j] = x[j]
      /\ s[m + 1] = a
      /\ \A j \in 1 .. k : s[m + 1 + j] = y[j]
  BY DEF Joined
<1>3. /\ Len(z) = m - 1 /\ Len(r) = m - 1 + 1 + k
      /\ \A j \in 1 .. m - 1 : r[j] = z[j]
      /\ r[m - 1 + 1] = a
      /\ \A j \in 1 .. k : r[m - 1 + 1 + j] = y[j]
  BY DEF Joined, Dropped
<1>4. /\ \A j \in 1 .. p - 1 : z[j].t = x[j].t
      /\ \A j \in p .. m - 1 : z[j].t = x[j + 1].t
      /\ \A j \in 1 .. m - 1 : \E d \in 1 .. m : z[j] = x[d]
  BY <1>3 DEF Dropped
<1> HIDE DEF m, k
<1>5. m - 1 + 1 = m /\ Len(s) = m + 1 + k /\ Len(r) = m + k
  BY <1>1, <1>2, <1>3
<1>6. ASSUME NEW j \in 1 .. p - 1 PROVE r[j].t = s[j].t
  <2>1. j \in 1 .. m /\ j \in 1 .. m - 1
    BY <1>1
  <2>2. r[j] = z[j] /\ s[j] = x[j] /\ z[j].t = x[j].t
    BY <1>2, <1>3, <1>4, <2>1
  <2> QED BY <2>2
<1>7. ASSUME NEW j \in m + 1 .. m + k PROVE r[j] = s[j + 1]
  <2> DEFINE d == j - m
  <2>1. d \in 1 .. k /\ j = m + d /\ j + 1 = m + 1 + d
    BY <1>1
  <2> HIDE DEF d
  <2>2. r[m + d] = y[d] /\ s[m + 1 + d] = y[d]
    BY <1>2, <1>3, <1>5, <2>1
  <2> QED BY <2>1, <2>2
<1>8. r[m] = s[m + 1]
  BY <1>2, <1>3, <1>5
<1>9. ASSUME NEW j \in p .. m + k PROVE r[j].t = s[j + 1].t
  <2>1. CASE j < m
    <3>1. j \in 1 .. m - 1 /\ j \in p .. m - 1 /\ j + 1 \in 1 .. m
      BY <1>1, <2>1
    <3>2. r[j] = z[j] /\ s[j + 1] = x[j + 1] /\ z[j].t = x[j + 1].t
      BY <1>2, <1>3, <1>4, <3>1
    <3> QED BY <3>2
  <2>2. CASE j = m
    BY <1>8, <2>2
  <2>3. CASE j > m
    BY <1>1, <1>7, <2>3
  <2> QED BY <1>1, <2>1, <2>2, <2>3
<1>10. ASSUME NEW j \in 1 .. m + k PROVE \E d \in 1 .. m + 1 + k : r[j] = s[d]
  <2>1. CASE j < m
    <3>1. j \in 1 .. m - 1
      BY <1>1, <2>1
    <3>2. PICK d \in 1 .. m : z[j] = x[d]
      BY <1>4, <3>1
    <3>3. d \in 1 .. m + 1 + k /\ r[j] = s[d]
      BY <1>1, <1>2, <1>3, <3>1, <3>2
    <3> QED BY <3>3
  <2>2. CASE j >= m
    <3>1. j = m \/ j \in m + 1 .. m + k
      BY <1>1, <2>2
    <3>2. r[j] = s[j + 1]
      BY <1>7, <1>8, <3>1
    <3>3. j + 1 \in 1 .. m + 1 + k
      BY <1>1
    <3> QED BY <3>2, <3>3
  <2> QED BY <1>1, <2>1, <2>2
<1>11. p \in 1 .. Len(s) /\ Len(r) = Len(s) - 1
  BY <1>1, <1>5
<1> QED BY <1>5, <1>6, <1>9, <1>10, <1>11 DEF Dropped

LEMMA DroppedRight ==
  ASSUME NEW x \in Seq(Item), NEW y \in Seq(Item), NEW s \in Seq(Item), NEW a \in Item,
         Joined(s, x, a, y), NEW z \in Seq(Item), NEW p, Dropped(y, p, z),
         NEW r \in Seq(Item), Joined(r, x, a, z)
  PROVE  Dropped(s, Len(x) + 1 + p, r)
<1> DEFINE m == Len(x)
           k == Len(y)
           q == m + 1 + p
<1>1. m \in Nat /\ k \in Nat /\ p \in 1 .. k
  BY DEF Dropped
<1>2. /\ Len(s) = m + 1 + k
      /\ \A j \in 1 .. m : s[j] = x[j]
      /\ s[m + 1] = a
      /\ \A j \in 1 .. k : s[m + 1 + j] = y[j]
  BY DEF Joined
<1>3. /\ Len(z) = k - 1 /\ Len(r) = m + 1 + (k - 1)
      /\ \A j \in 1 .. m : r[j] = x[j]
      /\ r[m + 1] = a
      /\ \A j \in 1 .. k - 1 : r[m + 1 + j] = z[j]
  BY DEF Joined, Dropped
<1>4. /\ \A j \in 1 .. p - 1 : z[j].t = y[j].t
      /\ \A j \in p .. k - 1 : z[j].t = y[j + 1].t
      /\ \A j \in 1 .. k - 1 : \E d \in 1 .. k : z[j] = y[d]
  BY <1>3 DEF Dropped
<1> HIDE DEF m, k
<1>5. Len(r) = m + k
  BY <1>1, <1>3
<1>6. ASSUME NEW j \in 1 .. m + 1 PROVE r[j] = s[j]
  <2>1. j \in 1 .. m \/ j = m + 1
    BY <1>1
  <2> QED BY <1>2, <1>3, <2>1
<1>7. ASSUME NEW j \in 1 .. q - 1 PROVE r[j].t = s[j].t
  <2>1. CASE j <= m + 1
    BY <1>1, <1>6, <2>1
  <2>2. CASE j > m + 1
    <3> DEFINE d == j - (m + 1)
    <3>1. d \in 1 .. p - 1 /\ d \in 1 .. k - 1 /\ d \in 1 .. k /\ j = m + 1 + d
      BY <1>1, <2>2
    <3> HIDE DEF d
    <3>2. r[j] = z[d] /\ s[j] = y[d] /\ z[d].t = y[d].t
      BY <1>2, <1>3, <1>4, <3>1
    <3> QED BY <3>2
  <2> QED BY <1>1, <2>1, <2>2
<1>8. ASSUME NEW j \in q .. m + k PROVE r[j].t = s[j + 1].t
  <2> DEFINE d == j - (m + 1)
  <2>1. /\ d \in p .. k - 1 /\ d \in 1 .. k - 1 /\ d + 1 \in 1 .. k
        /\ j = m + 1 + d /\ j + 1 = m + 1 + (d + 1)
    BY <1>1
  <2> HIDE DEF d
  <2>2. r[j] = z[d] /\ s[j + 1] = y[d + 1] /\ z[d].t = y[d + 1].t
    BY <1>2, <1>3, <1>4, <2>1
  <2> QED BY <2>2
<1>9. ASSUME NEW j \in 1 .. m + k PROVE \E d \in 1 .. m + 1 + k : r[j] = s[d]
  <2>1. CASE j <= m + 1
    <3>1. j \in 1 .. m + 1 + k /\ r[j] = s[j]
      BY <1>1, <1>6, <2>1
    <3> QED BY <3>1
  <2>2. CASE j > m + 1
    <3> DEFINE e == j - (m + 1)
    <3>1. e \in 1 .. k - 1 /\ j = m + 1 + e
      BY <1>1, <2>2
    <3> HIDE DEF e
    <3>2. PICK d \in 1 .. k : z[e] = y[d]
      BY <1>4, <3>1
    <3>3. m + 1 + d \in 1 .. m + 1 + k
      BY <1>1
    <3>4. s[m + 1 + d] = y[d] /\ r[j] = z[e]
      BY <1>2, <1>3, <3>1
    <3> QED BY <3>2, <3>3, <3>4
  <2> QED BY <1>1, <2>1, <2>2
<1>10. q \in 1 .. Len(s) /\ Len(r) = Len(s) - 1
  BY <1>1, <1>2, <1>5
<1> QED BY <1>2, <1>5, <1>7, <1>8, <1>9, <1>10 DEF Dropped, m

(* The item of a node gives way to the last of those before it.            *)
LEMMA DroppedNode ==
  ASSUME NEW x \in Seq(Item), NEW y \in Seq(Item), NEW s \in Seq(Item), NEW a \in Item,
         Joined(s, x, a, y), Ordered(s), NEW z \in Seq(Item), NEW p, Dropped(x, p, z),
         x[p].t = x[Len(x)].t,
         NEW r \in Seq(Item), Joined(r, z, x[Len(x)], y)
  PROVE  Dropped(s, Len(x) + 1, r)
<1> DEFINE m == Len(x)
           k == Len(y)
<1>1. m \in Nat /\ k \in Nat /\ p \in 1 .. m
  BY DEF Dropped
<1>2. /\ Len(s) = m + 1 + k
      /\ \A j \in 1 .. m : s[j] = x[j]
      /\ \A j \in 1 .. k : s[m + 1 + j] = y[j]
  BY DEF Joined
<1>3. /\ Len(z) = m - 1 /\ Len(r) = m - 1 + 1 + k
      /\ \A j \in 1 .. m - 1 : r[j] = z[j]
      /\ r[m - 1 + 1] = x[m]
      /\ \A j \in 1 .. k : r[m - 1 + 1 + j] = y[j]
  BY DEF Joined, Dropped
<1>4. /\ \A j \in 1 .. p - 1 : z[j].t = x[j].t
      /\ \A j \in p .. m - 1 : z[j].t = x[j + 1].t
      /\ \A j \in 1 .. m - 1 : \E d \in 1 .. m : z[j] = x[d]
  BY <1>3 DEF Dropped
<1>5. x[p].t = x[m].t /\ \A b, c \in 1 .. m : b < c => x[b].t <= x[c].t
  <2>1. Ordered(x)
    BY OrderedParts
  <2> QED BY <2>1 DEF Ordered
<1>6. \A j \in 1 .. m : x[j].t \in Nat
  <2>1. \A j \in 1 .. m : x[j] \in Item
    OBVIOUS
  <2> QED BY <2>1, ItemTime
<1> HIDE DEF m, k
<1>7. m - 1 + 1 = m /\ Len(r) = m + k
  BY <1>1, <1>3
(* From p on all times are the same.                                       *)
<1>8. ASSUME NEW j \in p .. m PROVE x[j].t = x[m].t
  <2>1. j \in 1 .. m /\ p \in 1 .. m /\ m \in 1 .. m
    BY <1>1
  <2>2. j = p \/ x[p].t <= x[j].t
    BY <1>1, <1>5, <2>1
  <2>3. j = m \/ x[j].t <= x[m].t
    BY <1>1, <1>5, <2>1
  <2>4. x[p].t \in Nat /\ x[j].t \in Nat /\ x[m].t \in Nat
    BY <1>6, <2>1
  <2> QED BY <1>5, <2>2, <2>3, <2>4
<1>9. ASSUME NEW j \in 1 .. m - 1 PROVE r[j].t = s[j].t
  <2>1. j \in 1 .. m /\ r[j] = z[j] /\ s[j] = x[j]
    BY <1>1, <1>2, <1>3
  <2>2. CASE j < p
    BY <1>1, <1>4, <2>1, <2>2
  <2>3. CASE j >= p
    <3>1. j \in p .. m - 1 /\ j \in p .. m /\ j + 1 \in p .. m
      BY <1>1, <2>3
    <3>2. z[j].t = x[j + 1].t /\ x[j].t = x[m].t /\ x[j + 1].t = x[m].t
      BY <1>4, <1>8, <3>1
    <3> QED BY <2>1, <3>2
  <2> QED BY <1>1, <2>2, <2>3
<1>10. r[m] = s[m]
  <2>1. m \in 1 .. m
    BY <1>1
  <2> QED BY <1>2, <1>3, <1>7, <2>1
<1>11. ASSUME NEW j \in m + 1 .. m + k PROVE r[j] = s[j + 1]
  <2> DEFINE d == j - m
  <2>1. d \in 1 .. k /\ j = m + d /\ j + 1 = m + 1 + d
    BY <1>1
  <2> HIDE DEF d
  <2>2. r[m + d] = y[d] /\ s[m + 1 + d] = y[d]
    BY <1>2, <1>3, <1>7, <2>1
  <2> QED BY <2>1, <2>2
<1>12. \A j \in 1 .. (m + 1) - 1 : r[j].t = s[j].t
  <2>1. \A j \in 1 .. (m + 1) - 1 : j = m \/ j \in 1 .. m - 1
    BY <1>1
  <2> QED BY <1>9, <1>10, <2>1
<1>13. ASSUME NEW j \in 1 .. m + k PROVE \E d \in 1 .. m + 1 + k : r[j] = s[d]
  <2>1. CASE j < m
    <3>1. j \in 1 .. m - 1
      BY <1>1, <2>1
    <3>2. PICK d \in 1 .. m : z[j] = x[d]
      BY <1>4, <3>1
    <3>3. d \in 1 .. m + 1 + k /\ r[j] = s[d]
      BY <1>1, <1>2, <1>3, <3>1, <3>2
    <3> QED BY <3>3
  <2>2. CASE j = m
    BY <1>1, <1>10, <2>2
  <2>3. CASE j > m
    <3>1. r[j] = s[j + 1] /\ j + 1 \in 1 .. m + 1 + k
      BY <1>1, <1>11, <2>3
    <3> QED BY <3>1
  <2> QED BY <1>1, <2>1, <2>2, <2>3
<1>14. m + 1 \in 1 .. Len(s) /\ Len(r) = Len(s) - 1
  BY <1>1, <1>2, <1>7
<1> QED BY <1>2, <1>7, <1>11, <1>12, <1>13, <1>14 DEF Dropped, m

LEMMA DroppedRoot ==
  ASSUME NEW x \in Seq(Item), NEW y \in Seq(Item), NEW s \in Seq(Item), NEW a \in Item,
         Joined(s, x, a, y), Len(x) = 0
  PROVE  Dropped(s, 1, y) /\ s[1] = a
<1> DEFINE k == Len(y)
<1>1. /\ k \in Nat /\ Len(s) = k + 1 /\ s[1] = a
      /\ \A j \in 1 .. k : s[1 + j] = y[j]
  <2>1. 0 + 1 = 1 /\ Len(y) \in Nat
    OBVIOUS
  <2>2. /\ Len(s) = 0 + 1 + Len(y) /\ s[0 + 1] = a
        /\ \A j \in 1 .. k : s[0 + 1 + j] = y[j]
    BY DEF Joined
  <2> QED BY <2>1, <2>2
<1> HIDE DEF k
<1>2. ASSUME NEW j \in 1 .. k PROVE y[j] = s[j + 1] /\ j + 1 \in 1 .. k + 1
  <2>1. 1 + j = j + 1 /\ j + 1 \in 1 .. k + 1
    BY <1>1
  <2> QED BY <1>1, <2>1
<1>3. \A j \in 1 .. k : \E d \in 1 .. k + 1 : y[j] = s[d]
  BY <1>2
<1>4. 1 \in 1 .. Len(s) /\ k = Len(s) - 1 /\ \A j \in 1 .. 1 - 1 : FALSE
  BY <1>1
<1> QED BY <1>1, <1>2, <1>3, <1>4 DEF Dropped, k

Has(s, time) == \E q \in 1 .. Len(s) : s[q].t = time

(* In a node whose item is later the item is on the left, in one whose     *)
(* item is earlier on the right.                                           *)
LEMMA HasParts ==
  ASSUME NEW x \in Seq(Item), NEW y \in Seq(Item), NEW s \in Seq(Item), NEW a \in Item,
         Joined(s, x, a, y), Ordered(s), NEW time \in Nat, Has(s, time)
  PROVE  /\ time < a.t => Has(x, time)
         /\ a.t < time => Has(y, time)
<1> DEFINE m == Len(x)
           k == Len(y)
<1>1. PICK q \in 1 .. Len(s) : s[q].t = time
  BY DEF Has
<1>2. /\ Len(s) = m + 1 + k
      /\ \A j \in 1 .. m : s[j] = x[j]
      /\ s[m + 1] = a
      /\ \A j \in 1 .. k : s[m + 1 + j] = y[j]
  BY DEF Joined
<1>3. m \in Nat /\ k \in Nat /\ a.t \in Nat
  BY ItemTime
<1>4. /\ \A j \in 1 .. m : x[j].t <= a.t /\ x[j].t \in Nat
      /\ \A j \in 1 .. k : a.t <= y[j].t /\ y[j].t \in Nat
  <2>1. \A j \in 1 .. m : x[j] \in Item
    OBVIOUS
  <2>2. \A j \in 1 .. k : y[j] \in Item
    OBVIOUS
  <2>3. /\ \A j \in 1 .. m : x[j].t <= a.t
        /\ \A j \in 1 .. k : a.t <= y[j].t
    BY OrderedParts
  <2> QED BY <2>1, <2>2, <2>3, ItemTime
<1>5. Has(x, time) <=> \E j \in 1 .. m : x[j].t = time
  BY DEF Has
<1>6. Has(y, time) <=> \E j \in 1 .. k : y[j].t = time
  BY DEF Has
<1> HIDE DEF m, k
<1>7. CASE q <= m
  <2>1. q \in 1 .. m
    BY <1>2, <1>3, <1>7
  <2>2. s[q] = x[q] /\ x[q].t <= a.t
    BY <1>2, <1>4, <2>1
  <2>3. ~ (a.t < time)
    BY <1>1, <1>3, <2>2
  <2> QED BY <1>1, <1>5, <2>1, <2>2, <2>3
<1>8. CASE q = m + 1
  BY <1>1, <1>2, <1>3, <1>8
<1>9. CASE q > m + 1
  <2> DEFINE d == q - (m + 1)
  <2>1. d \in 1 .. k /\ q = m + 1 + d
    BY <1>2, <1>3, <1>9
  <2> HIDE DEF d
  <2>2. s[q] = y[d] /\ a.t <= y[d].t
    BY <1>2, <1>4, <2>1
  <2>3. ~ (time < a.t)
    BY <1>1, <1>3, <2>2
  <2> QED BY <1>1, <1>6, <2>1, <2>2, <2>3
<1> QED BY <1>2, <1>3, <1>7, <1>8, <1>9

(* Delete drops an item of the time that it is given.                      *)
LEMMA DeleteOrder ==
  ASSUME NEW n \in AllTrees, Ordered(Walk(n)), NEW i \in Item, Has(Walk(n), i.t)
  PROVE  \E p : Walk(n)[p].t = i.t /\ Dropped(Walk(n), p, Walk(Delete(n, i)))
<1> DEFINE Drops(c, j) == \E p : Walk(c)[p].t = j.t /\ Dropped(Walk(c), p, Walk(Delete(c, j)))
           Good == {c \in AllTrees : \A j \in Item :
                      Ordered(Walk(c)) /\ Has(Walk(c), j.t) => Drops(c, j)}
<1>1. Nil \in Good
  <2>1. Walk(Nil) = <<>>
    BY WalkMeans DEF Walk
  <2>2. ~ Has(Walk(Nil), 0) /\ \A t : ~ Has(Walk(Nil), t)
    BY <2>1 DEF Has
  <2> QED BY <2>2, NilMeans
<1>2. ASSUME NEW a \in Item, NEW l \in AllTrees, NEW r \in AllTrees, l \in Good, r \in Good
      PROVE  Node(a, l, r) \in Good
  <2> DEFINE c == Node(a, l, r)
             s == Walk(c)
             x == Walk(l)
             y == Walk(r)
  <2>1. c \in AllTrees \ {Nil} /\ c.item = a /\ c.left = l /\ c.right = r
    BY NodeOf, Fields
  <2>2. Joined(s, x, a, y)
    BY NodeWalk
  <2>3. s \in Seq(Item) /\ x \in Seq(Item) /\ y \in Seq(Item)
    BY <2>1, WalkType
  <2> SUFFICES ASSUME NEW j \in Item, Ordered(s), Has(s, j.t) PROVE Drops(c, j)
    BY <2>1
  <2>4. a.t \in Nat /\ j.t \in Nat
    BY ItemTime
  <2>5. Ordered(x) /\ Ordered(y)
    <3> HIDE DEF s, x, y
    <3> QED BY <2>2, <2>3, OrderedParts
  <2>6. Delete(c, j) = Deleted(c, j, [k \in Item |-> Delete(l, k)], [k \in Item |-> Delete(r, k)])
    <3> HIDE DEF c
    <3> QED BY <2>1, DeleteMeans
  <2> DEFINE v == Walk(Delete(c, j))
  <2>7. Delete(c, j) \in AllTrees /\ v \in Seq(Item)
    BY <2>1, DeleteMeans, WalkType
  <2> HIDE DEF c
  <2>8. CASE j.t = a.t /\ l = Nil
    <3>1. Delete(c, j) = r
      BY <2>1, <2>6, <2>8 DEF Deleted
    <3>2. Len(x) = 0
      BY <2>8, WalkMeans DEF Walk
    <3>3. Dropped(s, 1, y) /\ s[1] = a
      <4> HIDE DEF s, x, y
      <4> QED BY <2>2, <2>3, <3>2, DroppedRoot
    <3>4. Dropped(s, 1, v) /\ s[1].t = j.t
      BY <2>8, <3>1, <3>3
    <3> QED BY <3>4
  <2>9. CASE j.t = a.t /\ l # Nil
    <3> DEFINE e == Rightmost(l)
               d == Delete(l, e)
               z == Walk(d)
               w == Node(e, d, r)
    <3>1. Len(x) \in Nat \ {0} /\ e = x[Len(x)] /\ e \in Item
      BY <2>9, RightmostType
    <3>2. Delete(c, j) = w
      BY <2>1, <2>6, <2>9, <3>1 DEF Deleted
    <3>3. Has(x, e.t)
      BY <3>1 DEF Has
    <3>4. PICK p : x[p].t = e.t /\ Dropped(x, p, z)
      BY <1>2, <2>5, <3>1, <3>3
    <3>5. d \in AllTrees /\ z \in Seq(Item)
      BY <3>1, DeleteMeans, WalkType
    <3>6. Joined(Walk(w), z, e, y)
      <4> HIDE DEF e, d
      <4> QED BY <3>1, <3>5, NodeWalk
    <3>7. Joined(v, z, x[Len(x)], y)
      <4> HIDE DEF w, z, e
      <4> QED BY <3>1, <3>2, <3>6
    <3>8. x[p].t = x[Len(x)].t
      BY <3>1, <3>4
    <3>9. Dropped(s, Len(x) + 1, v)
      <4> HIDE DEF s, x, y, z, v, e, d
      <4> QED BY <2>2, <2>3, <2>7, <3>4, <3>5, <3>7, <3>8, DroppedNode
    <3>10. s[Len(x) + 1].t = j.t
      BY <2>2, <2>9 DEF Joined
    <3> QED BY <3>9, <3>10
  <2>10. CASE j.t < a.t
    <3> DEFINE d == Delete(l, j)
               z == Walk(d)
               w == Node(a, d, r)
    <3>1. Delete(c, j) = LeftHeavy(w)
      BY <2>1, <2>4, <2>6, <2>10 DEF Deleted
    <3>2. Has(x, j.t)
      <4> HIDE DEF s, x, y
      <4> QED BY <2>2, <2>3, <2>4, <2>10, HasParts
    <3>3. PICK p : x[p].t = j.t /\ Dropped(x, p, z)
      BY <1>2, <2>5, <3>2
    <3>4. d \in AllTrees /\ z \in Seq(Item)
      BY DeleteMeans, WalkType
    <3>5. Walk(LeftHeavy(w)) = Walk(w)
      <4> HIDE DEF d
      <4> QED BY <3>4, BalanceKeeps DEF Walk
    <3>6. Joined(Walk(w), z, a, y)
      <4> HIDE DEF d
      <4> QED BY <3>4, NodeWalk
    <3>7. Joined(v, z, a, y)
      <4> HIDE DEF w, z
      <4> QED BY <3>1, <3>5, <3>6
    <3>8. Dropped(s, p, v)
      <4> HIDE DEF s, x, y, z, v, d
      <4> QED BY <2>2, <2>3, <2>7, <3>3, <3>4, <3>7, DroppedLeft
    <3>9. s[p].t = j.t
      <4> HIDE DEF s, x, y, z
      <4> QED BY <2>2, <3>3 DEF Joined, Dropped
    <3> QED BY <3>8, <3>9
  <2>11. CASE a.t < j.t
    <3> DEFINE d == Delete(r, j)
               z == Walk(d)
               w == Node(a, l, d)
    <3>1. Delete(c, j) = RightHeavy(w)
      BY <2>1, <2>4, <2>6, <2>11 DEF Deleted
    <3>2. Has(y, j.t)
      <4> HIDE DEF s, x, y
      <4> QED BY <2>2, <2>3, <2>4, <2>11, HasParts
    <3>3. PICK p : y[p].t = j.t /\ Dropped(y, p, z)
      BY <1>2, <2>5, <3>2
    <3>4. d \in AllTrees /\ z \in Seq(Item)
      BY DeleteMeans, WalkType
    <3>5. Walk(RightHeavy(w)) = Walk(w)
      <4> HIDE DEF d
      <4> QED BY <3>4, BalanceKeeps DEF Walk
    <3>6. Joined(Walk(w), x, a, z)
      <4> HIDE DEF d
      <4> QED BY <3>4, NodeWalk
    <3>7. Joined(v, x, a, z)
      <4> HIDE DEF w, z
      <4> QED BY <3>1, <3>5, <3>6
    <3>8. Dropped(s, Len(x) + 1 + p, v)
      <4> HIDE DEF s, x, y, z, v, d
      <4> QED BY <2>2, <2>3, <2>7, <3>3, <3>4, <3>7, DroppedRight
    <3>9. s[Len(x) + 1 + p].t = j.t
      <4> HIDE DEF s, x, y, z
      <4> QED BY <2>2, <3>3 DEF Joined, Dropped
    <3> QED BY <3>8, <3>9
  <2> QED BY <2>4, <2>8, <2>9, <2>10, <2>11
<1> HIDE DEF Good
<1>3. AllTrees \subseteq Good
  BY <1>1, <1>2, TreeInduction
<1> QED BY <1>3 DEF Good

LEMMA DroppedOrdered ==
  ASSUME NEW s \in Seq(Item), Ordered(s), NEW p, NEW r \in Seq(Item), Dropped(s, p, r)
  PROVE  Ordered(r)
<1> DEFINE At(j) == IF j < p THEN j ELSE j + 1
<1>1. Len(s) \in Nat /\ p \in 1 .. Len(s) /\ Len(r) = Len(s) - 1
  BY DEF Dropped
<1>2. ASSUME NEW j \in 1 .. Len(r) PROVE r[j].t = s[At(j)].t /\ At(j) \in 1 .. Len(s)
  <2>1. CASE j < p
    BY <1>1, <2>1 DEF Dropped
  <2>2. CASE j >= p
    BY <1>1, <2>2 DEF Dropped
  <2> QED BY <1>1, <2>1, <2>2
<1>3. ASSUME NEW b \in 1 .. Len(r), NEW c \in 1 .. Len(r), b < c PROVE r[b].t <= r[c].t
  <2>1. At(b) < At(c)
    BY <1>1, <1>3
  <2>2. At(b) \in 1 .. Len(s) /\ At(c) \in 1 .. Len(s)
    BY <1>2
  <2> HIDE DEF At
  <2>3. s[At(b)].t <= s[At(c)].t
    BY <2>1, <2>2 DEF Ordered
  <2> QED BY <1>2, <2>3
<1> QED BY <1>3 DEF Ordered

-----------------------------------------------------------------------------
(* One operation after the other.                                          *)

Stages(n, V) == [1 .. n -> [V -> V]]

Runs(f, n, b, S) == f[0] = b /\ \A j \in 1 .. n : f[j] = S[j][f[j - 1]]

(* What is defined step by step from 0 to n exists.                        *)
LEMMA Iterate ==
  ASSUME NEW V, NEW b \in V, NEW n \in Nat, NEW S \in Stages(n, V)
  PROVE  \E f \in [0 .. n -> V] : Runs(f, n, b, S)
<1> USE DEF Stages
<1> DEFINE Eqs(f, m) == f[0] = b /\ \A j \in 1 .. m : f[j] = S[j][f[j - 1]]
           Upto(m) == \E f \in [0 .. m -> V] : Eqs(f, m)
           Good == {m \in Nat : m <= n => Upto(m)}
<1>1. Upto(0)
  <2> DEFINE g == [j \in 0 .. 0 |-> b]
  <2>1. g \in [0 .. 0 -> V] /\ Eqs(g, 0)
    OBVIOUS
  <2> QED BY <2>1
<1>2. ASSUME NEW m \in Nat, m + 1 <= n, Upto(m) PROVE Upto(m + 1)
  <2>1. PICK f \in [0 .. m -> V] : Eqs(f, m)
    BY <1>2
  <2> DEFINE g == [j \in 0 .. m + 1 |-> IF j <= m THEN f[j] ELSE S[m + 1][f[m]]]
  <2>2. f[m] \in V /\ S[m + 1] \in [V -> V]
    BY <1>2
  <2>3. S[m + 1][f[m]] \in V
    BY <2>2
  <2>4. g \in [0 .. m + 1 -> V]
    BY <2>3
  <2>5. g[0] = b
    BY <2>1
  <2>6. ASSUME NEW j \in 1 .. m + 1 PROVE g[j] = S[j][g[j - 1]]
    <3>1. CASE j <= m
      BY <2>1, <3>1
    <3>2. CASE j = m + 1
      <4>1. j - 1 = m /\ m \in 0 .. m + 1 /\ m <= m /\ ~ (m + 1 <= m)
        BY <3>2
      <4>2. g[m] = f[m] /\ g[m + 1] = S[m + 1][f[m]]
        BY <4>1
      <4> QED BY <3>2, <4>1, <4>2
    <3> QED BY <3>1, <3>2
  <2> HIDE DEF g
  <2> QED BY <2>4, <2>5, <2>6
<1>3. n \in Good
  <2> HIDE DEF Upto
  <2>1. 0 \in Good
    BY <1>1
  <2>2. \A m \in Nat : m \in Good => m + 1 \in Good
    BY <1>2
  <2> HIDE DEF Good
  <2> QED BY <2>1, <2>2, Successors
<1>4. Upto(n)
  <2> HIDE DEF Upto
  <2> QED BY <1>3
<1> QED BY <1>4 DEF Runs

(* What holds at the start and is kept by each of n steps holds at the end.*)
LEMMA Steadily ==
  ASSUME NEW n \in Nat, NEW Good, 0 \in Good,
         \A j \in 0 .. n - 1 : j \in Good => j + 1 \in Good
  PROVE  n \in Good
<1> DEFINE G == {m \in Nat : m <= n => m \in Good}
<1>1. 0 \in G /\ \A m \in Nat : m \in G => m + 1 \in G
  OBVIOUS
<1> HIDE DEF G
<1>2. n \in G
  BY <1>1, Successors
<1> QED BY <1>2 DEF G

Removals(f, list) ==
  f[0] = data /\ \A j \in 1 .. Len(list) : f[j] = Remove(f[j - 1], list[j])

LEMMA RemoveType ==
  ASSUME NEW tree \in [root : AllTrees, len : Int], NEW i \in Item
  PROVE  Remove(tree, i) \in [root : AllTrees, len : Int]
<1>1. tree.root \in AllTrees /\ tree.len \in Int /\ tree.len - 1 \in Int
  OBVIOUS
<1>2. Delete(tree.root, i) \in AllTrees
  BY <1>1, DeleteMeans
<1> QED BY <1>1, <1>2 DEF Remove

LEMMA RemoveAllMeans ==
  ASSUME data \in [root : AllTrees, len : Int], NEW list \in Seq(Item)
  PROVE  \E f : Removals(f, list) /\ RemoveAll(list) = f[Len(list)]
<1> DEFINE n == Len(list)
           V == [root : AllTrees, len : Int]
           S == [j \in 1 .. n |-> [v \in V |-> Remove(v, list[j])]]
           Body(g) == [j \in 0 .. n |-> IF j = 0 THEN data ELSE Remove(g[j - 1], list[j])]
           rest == CHOOSE g : g = Body(g)
<1>1. n \in Nat /\ S \in Stages(n, V)
  <2>1. \A j \in 1 .. n : list[j] \in Item
    OBVIOUS
  <2> HIDE DEF V
  <2>2. \A v \in V, j \in 1 .. n : Remove(v, list[j]) \in V
    BY <2>1, RemoveType DEF V
  <2> QED BY <2>2 DEF Stages
<1> HIDE DEF n, V
<1>2. PICK f \in [0 .. n -> V] : Runs(f, n, data, S)
  <2>1. data \in V
    BY DEF V
  <2> HIDE DEF S
  <2> QED BY <1>1, <2>1, Iterate
<1>3. f = Body(f)
  <2>1. ASSUME NEW j \in 0 .. n, j # 0 PROVE f[j] = Remove(f[j - 1], list[j])
    <3>1. j \in 1 .. n /\ j - 1 \in 0 .. n
      BY <1>1, <2>1
    <3>2. f[j] = S[j][f[j - 1]] /\ f[j - 1] \in V
      BY <1>2, <3>1 DEF Runs
    <3> QED BY <3>1, <3>2
  <2>2. f[0] = data
    BY <1>2 DEF Runs
  <2> HIDE DEF S
  <2> QED BY <1>2, <2>1, <2>2
<1>4. rest = Body(rest)
  <2> HIDE DEF Body
  <2> QED BY <1>3
<1> HIDE DEF rest
<1>5. Removals(rest, list)
  <2>1. rest[0] = data
    BY <1>1, <1>4
  <2>2. ASSUME NEW j \in 1 .. n PROVE rest[j] = Remove(rest[j - 1], list[j])
    BY <1>1, <1>4
  <2> QED BY <2>1, <2>2 DEF Removals, n
<1>6. RemoveAll(list) = rest[n]
  BY DEF RemoveAll, rest, n
<1> QED BY <1>5, <1>6 DEF n

(* A tree in order, with the number of its items.                          *)
Sound(tree) ==
  /\ tree \in [root : AllTrees, len : Int]
  /\ tree.len = Len(Walk(tree.root))
  /\ Ordered(Walk(tree.root))

LEMMA RemoveStep ==
  ASSUME NEW tree, Sound(tree), NEW i \in Item, Has(Walk(tree.root), i.t)
  PROVE  /\ Sound(Remove(tree, i))
         /\ \E p : /\ Walk(tree.root)[p].t = i.t
                   /\ Dropped(Walk(tree.root), p, Walk(Remove(tree, i).root))
<1> DEFINE n == tree.root
           d == Delete(n, i)
           s == Walk(n)
           r == Walk(d)
<1>1. /\ n \in AllTrees /\ tree.len \in Int /\ tree.len - 1 \in Int
      /\ tree.len = Len(s) /\ Ordered(s)
  BY DEF Sound
<1>2. n # Nil
  <2>1. Len(s) # 0
    BY <1>1, WalkType DEF Has
  <2> QED BY <2>1, WalkMeans DEF Walk
<1>3. d \in AllTrees
  BY <1>1, DeleteMeans
<1>4. Remove(tree, i) = [root |-> d, len |-> tree.len - 1]
  BY <1>2 DEF Remove
<1>5. PICK p : s[p].t = i.t /\ Dropped(s, p, r)
  BY <1>1, DeleteOrder
<1>6. s \in Seq(Item) /\ r \in Seq(Item)
  BY <1>1, <1>3, WalkType
<1>7. Ordered(r)
  <2> HIDE DEF s, r
  <2> QED BY <1>1, <1>5, <1>6, DroppedOrdered
<1>8. tree.len - 1 = Len(r)
  BY <1>1, <1>5 DEF Dropped
<1> HIDE DEF d, s
<1>9. Remove(tree, i).root = d /\ Remove(tree, i).len = tree.len - 1
  BY <1>4
<1> QED BY <1>1, <1>3, <1>4, <1>5, <1>7, <1>8, <1>9 DEF Sound, s

(* Each item of the list from place j + 1 on has a place of its own in w   *)
(* with its time.                                                          *)
Places(w, list, j) ==
  {e \in [j + 1 .. Len(list) -> 1 .. Len(w)] :
     /\ \A a, b \in j + 1 .. Len(list) : a # b => e[a] # e[b]
     /\ \A a \in j + 1 .. Len(list) : w[e[a]].t = list[a].t}

LEMMA HeldStep ==
  ASSUME NEW w \in Seq(Item), NEW list \in Seq(Item), NEW j \in 0 .. Len(list) - 1,
         NEW e \in Places(w, list, j), NEW p, NEW r \in Seq(Item),
         Dropped(w, p, r), w[p].t = list[j + 1].t
  PROVE  \E d : d \in Places(r, list, j + 1)
<1> DEFINE n == Len(list)
           m == Len(w)
           Free(a) == IF e[a] = p THEN e[j + 1] ELSE e[a]
           d == [a \in j + 1 + 1 .. n |-> IF Free(a) < p THEN Free(a) ELSE Free(a) - 1]
<1>1. /\ n \in Nat /\ m \in Nat /\ j \in 0 .. n - 1 /\ p \in 1 .. m /\ Len(r) = m - 1
      /\ \A a \in 1 .. p - 1 : r[a].t = w[a].t
      /\ \A a \in p .. m - 1 : r[a].t = w[a + 1].t
  BY DEF Dropped
<1>2. /\ \A a \in j + 1 .. n : e[a] \in 1 .. m
      /\ \A a, b \in j + 1 .. n : a # b => e[a] # e[b]
      /\ \A a \in j + 1 .. n : w[e[a]].t = list[a].t
  BY DEF Places
<1> HIDE DEF n, m
<1>3. ASSUME NEW a \in j + 1 + 1 .. n
      PROVE  /\ a \in j + 1 .. n /\ j + 1 \in j + 1 .. n /\ a # j + 1
             /\ Free(a) \in 1 .. m /\ Free(a) # p /\ w[Free(a)].t = list[a].t
  <2>1. a \in j + 1 .. n /\ j + 1 \in j + 1 .. n /\ a # j + 1
    BY <1>1
  <2>2. CASE e[a] = p
    BY <1>2, <2>1, <2>2
  <2>3. CASE e[a] # p
    BY <1>2, <2>1, <2>3
  <2> QED BY <2>1, <2>2, <2>3
<1>4. ASSUME NEW a \in j + 1 + 1 .. n, NEW b \in j + 1 + 1 .. n, a # b
      PROVE  Free(a) # Free(b)
  <2>1. /\ a \in j + 1 .. n /\ b \in j + 1 .. n /\ j + 1 \in j + 1 .. n
        /\ a # j + 1 /\ b # j + 1
    BY <1>3
  <2>2. e[a] # e[b] /\ e[a] # e[j + 1] /\ e[b] # e[j + 1]
    BY <1>2, <1>4, <2>1
  <2> QED BY <2>2
<1> HIDE DEF Free
<1>5. ASSUME NEW a \in j + 1 + 1 .. n
      PROVE  d[a] \in 1 .. Len(r) /\ r[d[a]].t = list[a].t
  <2>1. Free(a) \in 1 .. m /\ Free(a) # p /\ w[Free(a)].t = list[a].t
    BY <1>3
  <2>2. CASE Free(a) < p
    <3>1. d[a] = Free(a) /\ Free(a) \in 1 .. p - 1 /\ Free(a) \in 1 .. m - 1
      BY <1>1, <2>1, <2>2
    <3> QED BY <1>1, <2>1, <3>1
  <2>3. CASE ~ (Free(a) < p)
    <3>1. /\ d[a] = Free(a) - 1 /\ Free(a) - 1 \in p .. m - 1 /\ Free(a) - 1 \in 1 .. m - 1
          /\ (Free(a) - 1) + 1 = Free(a)
      BY <1>1, <2>1, <2>3, SMTT(30)
    <3> QED BY <1>1, <2>1, <3>1
  <2> QED BY <2>2, <2>3
<1>6. ASSUME NEW a \in j + 1 + 1 .. n, NEW b \in j + 1 + 1 .. n, a # b
      PROVE  d[a] # d[b]
  <2>1. /\ Free(a) \in 1 .. m /\ Free(a) # p /\ Free(b) \in 1 .. m /\ Free(b) # p
        /\ Free(a) # Free(b)
    BY <1>3, <1>4, <1>6
  <2> QED BY <1>1, <2>1
<1>7. d \in [j + 1 + 1 .. n -> 1 .. Len(r)]
  <2> SUFFICES ASSUME NEW a \in j + 1 + 1 .. n PROVE d[a] \in 1 .. Len(r)
    OBVIOUS
  <2> HIDE DEF d
  <2> QED BY <1>5
<1> HIDE DEF d
<1> QED BY <1>5, <1>6, <1>7 DEF Places, n

(* Whatever items are removed, if each is there: the tree stays in order,  *)
(* has as many less, and gets no new ones.                                 *)
LEMMA AllRemoved ==
  ASSUME Sound(data), NEW list \in Seq(Item), NEW e \in Places(Walk(data.root), list, 0)
  PROVE  /\ Sound(RemoveAll(list))
         /\ \A a \in 1 .. Len(Walk(RemoveAll(list).root)) :
              \E b \in 1 .. Len(Walk(data.root)) :
                Walk(RemoveAll(list).root)[a] = Walk(data.root)[b]
<1> DEFINE n == Len(list)
           s == Walk(data.root)
<1>1. PICK f : Removals(f, list) /\ RemoveAll(list) = f[n]
  BY RemoveAllMeans DEF Sound
<1> DEFINE Good == {j \in 0 .. n :
               /\ Sound(f[j])
               /\ \E d : d \in Places(Walk(f[j].root), list, j)
               /\ \A a \in 1 .. Len(Walk(f[j].root)) :
                    \E b \in 1 .. Len(s) : Walk(f[j].root)[a] = s[b]}
<1>2. n \in Nat
  OBVIOUS
<1>3. 0 \in Good
  <2>1. f[0] = data
    BY <1>1 DEF Removals
  <2> QED BY <1>2, <2>1
<1>4. ASSUME NEW j \in 0 .. n - 1, j \in Good PROVE j + 1 \in Good
  <2> DEFINE w == Walk(f[j].root)
             i == list[j + 1]
             r == Walk(f[j + 1].root)
  <2>1. j + 1 \in 1 .. n /\ j + 1 \in 0 .. n /\ (j + 1) - 1 = j
    BY <1>2
  <2>2. f[j + 1] = Remove(f[j], i)
    BY <1>1, <2>1 DEF Removals
  <2>3. i \in Item
    BY <2>1
  <2>4. PICK d : d \in Places(w, list, j)
    BY <1>4
  <2>5. Has(w, i.t)
    <3>1. j + 1 \in j + 1 .. n
      BY <1>2, <2>1
    <3>2. /\ d \in [j + 1 .. n -> 1 .. Len(w)]
          /\ \A a \in j + 1 .. n : w[d[a]].t = list[a].t
      <4> HIDE DEF w
      <4> QED BY <2>4 DEF Places
    <3>3. d[j + 1] \in 1 .. Len(w) /\ w[d[j + 1]].t = i.t
      <4> HIDE DEF w, n
      <4> QED BY <3>1, <3>2
    <3> HIDE DEF w, i
    <3> QED BY <3>3 DEF Has
  <2>6. Sound(f[j])
    BY <1>4
  <2>7. Sound(f[j + 1]) /\ \E p : w[p].t = i.t /\ Dropped(w, p, r)
    <3> HIDE DEF i
    <3> QED BY <2>2, <2>3, <2>5, <2>6, RemoveStep
  <2>8. PICK p : w[p].t = i.t /\ Dropped(w, p, r)
    BY <2>7
  <2>9. w \in Seq(Item) /\ r \in Seq(Item)
    BY <2>6, <2>7, WalkType DEF Sound
  <2>10. \E c : c \in Places(r, list, j + 1)
    <3> HIDE DEF w, r
    <3> QED BY <2>4, <2>8, <2>9, HeldStep
  <2>11. ASSUME NEW a \in 1 .. Len(r) PROVE \E b \in 1 .. Len(s) : r[a] = s[b]
    <3>1. PICK c \in 1 .. Len(w) : r[a] = w[c]
      BY <2>8 DEF Dropped
    <3>2. \E b \in 1 .. Len(s) : w[c] = s[b]
      BY <1>4
    <3> QED BY <3>1, <3>2
  <2> HIDE DEF s
  <2> QED BY <2>1, <2>7, <2>10, <2>11
<1> HIDE DEF Good
<1>5. n \in Good
  BY <1>2, <1>3, <1>4, Steadily
<1> QED BY <1>1, <1>5 DEF Good

(* When the first of the walk are removed, one after the other, the times  *)
(* that are left are those of the rest of it.                              *)
LEMMA FirstRemoved ==
  ASSUME Sound(data), NEW list \in Seq(Item), Len(list) <= Len(Walk(data.root)),
         \A j \in 1 .. Len(list) : list[j] = Walk(data.root)[j]
  PROVE  /\ Sound(RemoveAll(list))
         /\ Len(Walk(RemoveAll(list).root)) = Len(Walk(data.root)) - Len(list)
         /\ \A a \in 1 .. Len(Walk(RemoveAll(list).root)) :
              /\ Walk(RemoveAll(list).root)[a].t = Walk(data.root)[a + Len(list)].t
              /\ \E b \in 1 .. Len(Walk(data.root)) :
                   Walk(RemoveAll(list).root)[a] = Walk(data.root)[b]
<1> DEFINE n == Len(list)
           s == Walk(data.root)
           m == Len(s)
<1>1. PICK f : Removals(f, list) /\ RemoveAll(list) = f[n]
  BY RemoveAllMeans DEF Sound
<1> DEFINE Left(w, j) ==
             /\ Len(w) = m - j
             /\ \A a \in 1 .. m - j :
                  w[a].t = s[a + j].t /\ \E b \in 1 .. m : w[a] = s[b]
           Good == {j \in 0 .. n : Sound(f[j]) /\ Left(Walk(f[j].root), j)}
<1>2. n \in Nat /\ m \in Nat /\ n <= m
  BY WalkType DEF Sound
<1>3. 0 \in Good
  <2>1. f[0] = data
    BY <1>1 DEF Removals
  <2>2. m - 0 = m /\ \A a \in 1 .. m : a + 0 = a
    BY <1>2
  <2>3. Left(s, 0)
    <3> HIDE DEF s
    <3> QED BY <2>2
  <2> QED BY <1>2, <2>1, <2>3
<1>4. ASSUME NEW j \in 0 .. n - 1, j \in Good PROVE j + 1 \in Good
  <2> DEFINE w == Walk(f[j].root)
             i == list[j + 1]
             r == Walk(f[j + 1].root)
             k == m - j
  <2>1. /\ j + 1 \in 1 .. n /\ j + 1 \in 0 .. n /\ (j + 1) - 1 = j
        /\ k \in Nat /\ 1 \in 1 .. k /\ m - (j + 1) = k - 1 /\ 1 + j = j + 1
    BY <1>2
  <2>2. f[j + 1] = Remove(f[j], i)
    BY <1>1, <2>1 DEF Removals
  <2>3. i \in Item
    BY <2>1
  <2>4. Sound(f[j]) /\ Left(w, j)
    BY <1>4
  <2>5. i.t = w[1].t
    <3>1. w[1].t = s[1 + j].t
      BY <2>1, <2>4
    <3> QED BY <2>1, <3>1
  <2>6. Has(w, i.t)
    <3> HIDE DEF i, w
    <3> QED BY <2>1, <2>4, <2>5 DEF Has
  <2>7. Sound(f[j + 1]) /\ \E p : w[p].t = i.t /\ Dropped(w, p, r)
    <3> HIDE DEF i
    <3> QED BY <2>2, <2>3, <2>4, <2>6, RemoveStep
  <2>8. PICK p : w[p].t = i.t /\ Dropped(w, p, r)
    BY <2>7
  <2>9. w \in Seq(Item) /\ Ordered(w)
    BY <2>4, WalkType DEF Sound
  <2>10. Len(w) = k
    BY <2>4
  <2> HIDE DEF w, r, i, k, Left
  <2>11. /\ p \in 1 .. k /\ Len(r) = k - 1
         /\ \A a \in 1 .. p - 1 : r[a].t = w[a].t
         /\ \A a \in p .. k - 1 : r[a].t = w[a + 1].t
         /\ \A a \in 1 .. k - 1 : \E b \in 1 .. k : r[a] = w[b]
    BY <2>8, <2>10 DEF Dropped
  <2>12. \A a \in 1 .. k : w[a].t \in Nat
    <3>1. \A a \in 1 .. k : w[a] \in Item
      BY <2>9, <2>10
    <3> QED BY <3>1, ItemTime
  <2>13. \A a, b \in 1 .. k : a < b => w[a].t <= w[b].t
    BY <2>9, <2>10 DEF Ordered
  <2>14. ASSUME NEW a \in 1 .. p PROVE w[a].t = w[1].t
    <3>1. a \in 1 .. k /\ 1 \in 1 .. k /\ p \in 1 .. k
      BY <2>1, <2>11
    <3>2. a = 1 \/ w[1].t <= w[a].t
      BY <2>13, <3>1
    <3>3. a = p \/ w[a].t <= w[p].t
      BY <2>11, <2>13, <3>1
    <3>4. w[a].t \in Nat /\ w[1].t \in Nat /\ w[p].t \in Nat
      BY <2>12, <3>1
    <3> QED BY <2>5, <2>8, <3>2, <3>3, <3>4
  <2>15. ASSUME NEW a \in 1 .. k - 1 PROVE r[a].t = w[a + 1].t
    <3>1. CASE a < p
      <4>1. a \in 1 .. p - 1 /\ a \in 1 .. p /\ a + 1 \in 1 .. p
        BY <2>11, <3>1
      <4>2. r[a].t = w[a].t
        BY <2>11, <4>1
      <4> QED BY <2>14, <4>1, <4>2
    <3>2. CASE a >= p
      BY <2>1, <2>11, <3>2
    <3> QED BY <2>11, <3>1, <3>2
  <2>16. ASSUME NEW a \in 1 .. k - 1
         PROVE  r[a].t = s[a + (j + 1)].t /\ \E b \in 1 .. m : r[a] = s[b]
    <3>1. a + 1 \in 1 .. k /\ (a + 1) + j = a + (j + 1)
      <4> HIDE DEF n, m
      <4>1. k \in Nat /\ j \in Nat
        BY <1>2, <2>1
      <4> QED BY <4>1, SMTT(30)
    <3>2. \A b \in 1 .. k : w[b].t = s[b + j].t /\ \E c \in 1 .. m : w[b] = s[c]
      BY <2>4 DEF Left, k
    <3>3. PICK b \in 1 .. k : r[a] = w[b]
      BY <2>11
    <3>4. \E c \in 1 .. m : w[b] = s[c]
      BY <3>2
    <3>5. w[a + 1].t = s[(a + 1) + j].t
      BY <3>1, <3>2
    <3> QED BY <2>15, <3>1, <3>3, <3>4, <3>5
  <2>17. Left(r, j + 1)
    BY <2>1, <2>11, <2>16 DEF Left
  <2> QED BY <2>1, <2>7, <2>17 DEF r
<1> HIDE DEF Good
<1>5. n \in Good
  BY <1>2, <1>3, <1>4, Steadily
<1> HIDE DEF s
<1>6. Sound(f[n]) /\ Left(Walk(f[n].root), n)
  BY <1>5 DEF Good
<1> QED BY <1>1, <1>6 DEF s

-----------------------------------------------------------------------------
(* A walk that lists some of the items.                                    *)

Within(u, s) ==
  {e \in [1 .. Len(u) -> 1 .. Len(s)] :
     /\ \A a, b \in 1 .. Len(u) : a # b => e[a] # e[b]
     /\ \A a \in 1 .. Len(u) : u[a] = s[e[a]]}

(* The walk through a node, place by place, whether its item is listed.    *)
LEMMA ListedMeans ==
  ASSUME NEW x \in Seq(Item), NEW y \in Seq(Item), NEW i \in Item, NEW W, NEW c \in 0 .. 1,
         c = IF i \in W THEN 1 ELSE 0,
         NEW s \in Seq(Item), s = Around(x, i, y, W)
  PROVE  /\ Len(s) = Len(x) + c + Len(y)
         /\ \A j \in 1 .. Len(x) : s[j] = x[j]
         /\ c = 1 => s[Len(x) + 1] = i
         /\ \A j \in 1 .. Len(y) : s[Len(x) + c + j] = y[j]
<1>1. CASE i \in W
  <2>1. s = Around(x, i, y, Item)
    BY <1>1 DEF Around, One
  <2>2. /\ Len(s) = Len(x) + 1 + Len(y)
        /\ \A j \in 1 .. Len(x) : s[j] = x[j]
        /\ s[Len(x) + 1] = i
        /\ \A j \in 1 .. Len(y) : s[Len(x) + 1 + j] = y[j]
    BY <2>1, AroundMeans
  <2> QED BY <1>1, <2>2
<1>2. CASE i \notin W
  <2>1. s = x \o y
    BY <1>2, ConcatEmptySeq DEF Around, One
  <2>2. /\ Len(s) = Len(x) + Len(y)
        /\ \A j \in 1 .. Len(x) + Len(y) : s[j] = IF j <= Len(x) THEN x[j] ELSE y[j - Len(x)]
    <3>1. /\ Len(x \o y) = Len(x) + Len(y)
          /\ \A j \in 1 .. Len(x) + Len(y) :
               (x \o y)[j] = IF j <= Len(x) THEN x[j] ELSE y[j - Len(x)]
      BY ConcatProperties
    <3> QED BY <2>1, <3>1
  <2>3. Len(x) \in Nat /\ Len(y) \in Nat /\ c = 0
    BY <1>2
  <2>4. Len(s) = Len(x) + c + Len(y)
    BY <2>2, <2>3
  <2>5. \A j \in 1 .. Len(x) : s[j] = x[j]
    BY <2>2, <2>3
  <2>6. ASSUME NEW j \in 1 .. Len(y) PROVE s[Len(x) + c + j] = y[j]
    <3>1. /\ Len(x) + c + j \in 1 .. Len(x) + Len(y) /\ ~ (Len(x) + c + j <= Len(x))
          /\ (Len(x) + c + j) - Len(x) = j
      BY <2>3
    <3> QED BY <2>2, <3>1
  <2> QED BY <2>3, <2>4, <2>5, <2>6
<1> QED BY <1>1, <1>2

(* Each item of the list has its own place in the walk.                    *)
LEMMA FilterWithin ==
  ASSUME NEW n \in AllTrees, NEW W
  PROVE  \E e : e \in Within(InOrder(n, W), Walk(n))
<1> DEFINE I(c) == InOrder(c, W)
           Good == {c \in AllTrees : \E e : e \in Within(I(c), Walk(c))}
<1>1. Nil \in Good
  <2>1. I(Nil) = <<>> /\ Walk(Nil) = <<>>
    BY WalkMeans DEF Walk
  <2>2. <<>> \in Within(<<>>, <<>>)
    BY DEF Within
  <2> QED BY <2>1, <2>2, NilMeans
<1>2. ASSUME NEW a \in Item, NEW l \in AllTrees, NEW r \in AllTrees, l \in Good, r \in Good
      PROVE  Node(a, l, r) \in Good
  <2> DEFINE c == Node(a, l, r)
             s == Walk(c)
             x == Walk(l)
             y == Walk(r)
             u == I(c)
             v == I(l)
             w == I(r)
             d == IF a \in W THEN 1 ELSE 0
  <2>1. c \in AllTrees
    BY NodeOf
  <2>2. /\ s \in Seq(Item) /\ x \in Seq(Item) /\ y \in Seq(Item)
        /\ u \in Seq(Item) /\ v \in Seq(Item) /\ w \in Seq(Item)
    BY <2>1, WalkType, WalkTyped
  <2>3. Joined(s, x, a, y)
    BY NodeWalk
  <2>4. u = Around(v, a, w, W)
    BY WalkNode
  <2>5. PICK f : f \in Within(v, x)
    BY <1>2
  <2>6. PICK g : g \in Within(w, y)
    BY <1>2
  <2> HIDE DEF c, s, x, y, u, v, w, I
  <2>7. /\ Len(u) = Len(v) + d + Len(w)
        /\ \A j \in 1 .. Len(v) : u[j] = v[j]
        /\ d = 1 => u[Len(v) + 1] = a
        /\ \A j \in 1 .. Len(w) : u[Len(v) + d + j] = w[j]
    <3>1. d = (IF a \in W THEN 1 ELSE 0) /\ d \in 0 .. 1
      OBVIOUS
    <3> HIDE DEF d
    <3>2. \A p, q, z \in Seq(Item) :
            z = Around(p, a, q, W)
              => /\ Len(z) = Len(p) + d + Len(q)
                 /\ \A j \in 1 .. Len(p) : z[j] = p[j]
                 /\ d = 1 => z[Len(p) + 1] = a
                 /\ \A j \in 1 .. Len(q) : z[Len(p) + d + j] = q[j]
      BY <3>1, ListedMeans
    <3> QED BY <2>2, <2>4, <3>2
  <2>8. /\ Len(s) = Len(x) + 1 + Len(y)
        /\ \A j \in 1 .. Len(x) : s[j] = x[j]
        /\ s[Len(x) + 1] = a
        /\ \A j \in 1 .. Len(y) : s[Len(x) + 1 + j] = y[j]
    BY <2>3 DEF Joined
  <2> DEFINE k == Len(v)
             m == Len(x)
             h == Len(w)
             o == Len(y)
             e == [j \in 1 .. k + d + h |->
                     IF j <= k THEN f[j]
                     ELSE IF j <= k + d THEN m + 1 ELSE m + 1 + g[j - (k + d)]]
  <2>9. k \in Nat /\ m \in Nat /\ h \in Nat /\ o \in Nat /\ d \in 0 .. 1
    BY <2>2
  <2>10. /\ \A j \in 1 .. k : f[j] \in 1 .. m /\ v[j] = x[f[j]]
         /\ \A j, b \in 1 .. k : j # b => f[j] # f[b]
    BY <2>5 DEF Within
  <2>11. /\ \A j \in 1 .. h : g[j] \in 1 .. o /\ w[j] = y[g[j]]
         /\ \A j, b \in 1 .. h : j # b => g[j] # g[b]
    BY <2>6 DEF Within
  <2>12. Len(u) = k + d + h /\ Len(s) = m + 1 + o
    BY <2>7, <2>8
  <2> HIDE DEF k, m, h, o, d
  <2>13. ASSUME NEW j \in 1 .. k + d + h
         PROVE  \/ j \in 1 .. k /\ e[j] = f[j] /\ e[j] \in 1 .. m
                \/ j = k + 1 /\ d = 1 /\ e[j] = m + 1
                \/ \E b \in 1 .. h : /\ j = k + d + b /\ e[j] = m + 1 + g[b]
                                     /\ g[b] \in 1 .. o
    <3>1. CASE j <= k
      BY <2>9, <2>10, <3>1
    <3>2. CASE j > k /\ j <= k + d
      <4>1. j = k + 1 /\ d = 1
        BY <2>9, <3>2
      <4> QED BY <2>9, <3>2, <4>1
    <3>3. CASE j > k + d
      <4> DEFINE b == j - (k + d)
      <4>1. b \in 1 .. h /\ j = k + d + b /\ ~ (j <= k) /\ ~ (j <= k + d)
        BY <2>9, <3>3
      <4>2. e[j] = m + 1 + g[b]
        BY <4>1
      <4> HIDE DEF b, e
      <4> QED BY <2>11, <4>1, <4>2
    <3> QED BY <2>9, <3>1, <3>2, <3>3
  <2>14. e \in [1 .. k + d + h -> 1 .. m + 1 + o]
    <3>1. ASSUME NEW j \in 1 .. k + d + h PROVE e[j] \in 1 .. m + 1 + o
      <4> HIDE DEF e
      <4>1. CASE j \in 1 .. k /\ e[j] = f[j] /\ e[j] \in 1 .. m
        BY <2>9, <4>1
      <4>2. CASE j = k + 1 /\ d = 1 /\ e[j] = m + 1
        BY <2>9, <4>2
      <4>3. CASE \E b \in 1 .. h : /\ j = k + d + b /\ e[j] = m + 1 + g[b]
                                   /\ g[b] \in 1 .. o
        BY <2>9, <4>3
      <4> QED BY <2>13, <4>1, <4>2, <4>3
    <3>2. e = [j \in 1 .. k + d + h |-> e[j]]
      OBVIOUS
    <3> HIDE DEF e
    <3> QED BY <3>1, <3>2
  <2> HIDE DEF e
  <2>15. ASSUME NEW j \in 1 .. k + d + h PROVE u[j] = s[e[j]]
    <3>1. CASE j \in 1 .. k /\ e[j] = f[j] /\ e[j] \in 1 .. m
      <4>1. u[j] = v[j] /\ s[e[j]] = x[e[j]]
        BY <2>7, <2>8, <3>1 DEF k, m
      <4> QED BY <2>10, <3>1, <4>1
    <3>2. CASE j = k + 1 /\ d = 1 /\ e[j] = m + 1
      BY <2>7, <2>8, <3>2 DEF k, m
    <3>3. CASE \E b \in 1 .. h : /\ j = k + d + b /\ e[j] = m + 1 + g[b]
                                 /\ g[b] \in 1 .. o
      <4>1. PICK b \in 1 .. h : j = k + d + b /\ e[j] = m + 1 + g[b] /\ g[b] \in 1 .. o
        BY <3>3
      <4>2. u[j] = w[b]
        BY <2>7, <4>1 DEF k, h
      <4>3. s[e[j]] = y[g[b]]
        BY <2>8, <4>1 DEF m, o
      <4> QED BY <2>11, <4>1, <4>2, <4>3
    <3> QED BY <2>13, <3>1, <3>2, <3>3
  <2>16. ASSUME NEW j \in 1 .. k + d + h, NEW q \in 1 .. k + d + h, j < q
         PROVE  e[j] # e[q]
    <3>1. CASE j \in 1 .. k /\ e[j] = f[j] /\ e[j] \in 1 .. m
      <4>1. CASE q \in 1 .. k /\ e[q] = f[q] /\ e[q] \in 1 .. m
        BY <2>10, <2>16, <3>1, <4>1
      <4>2. CASE q = k + 1 /\ d = 1 /\ e[q] = m + 1
        BY <2>9, <3>1, <4>2
      <4>3. CASE \E b \in 1 .. h : /\ q = k + d + b /\ e[q] = m + 1 + g[b]
                                   /\ g[b] \in 1 .. o
        BY <2>9, <3>1, <4>3
      <4> QED BY <2>13, <4>1, <4>2, <4>3
    <3>2. CASE j = k + 1 /\ d = 1 /\ e[j] = m + 1
      <4>1. PICK b \in 1 .. h : q = k + d + b /\ e[q] = m + 1 + g[b] /\ g[b] \in 1 .. o
        BY <2>9, <2>13, <2>16, <3>2
      <4> QED BY <2>9, <3>2, <4>1
    <3>3. CASE \E b \in 1 .. h : /\ j = k + d + b /\ e[j] = m + 1 + g[b]
                                 /\ g[b] \in 1 .. o
      <4>1. PICK b \in 1 .. h : j = k + d + b /\ e[j] = m + 1 + g[b] /\ g[b] \in 1 .. o
        BY <3>3
      <4>2. PICK p \in 1 .. h : q = k + d + p /\ e[q] = m + 1 + g[p] /\ g[p] \in 1 .. o
        BY <2>9, <2>13, <2>16, <4>1
      <4>3. b # p
        BY <2>9, <2>16, <4>1, <4>2
      <4>4. g[b] # g[p]
        BY <2>11, <4>3
      <4> QED BY <2>9, <4>1, <4>2, <4>4
    <3> QED BY <2>13, <3>1, <3>2, <3>3
  <2>17. \A j, q \in 1 .. k + d + h : j # q => e[j] # e[q]
    <3>1. \A j, q \in 1 .. k + d + h : j # q => j < q \/ q < j
      BY <2>9
    <3> QED BY <2>16, <3>1
  <2>18. e \in Within(u, s)
    BY <2>12, <2>14, <2>15, <2>17 DEF Within
  <2> QED BY <2>1, <2>18 DEF u, s, c, I
<1> HIDE DEF Good
<1>3. AllTrees \subseteq Good
  BY <1>1, <1>2, TreeInduction
<1> QED BY <1>3 DEF Good

-----------------------------------------------------------------------------
(* The inductive invariant: the tree is one, in order, and counted.        *)

BruteInv ==
  /\ Sound(data)
  /\ \A a \in 1 .. Len(Walk(data.root)) : Walk(data.root)[a] \in DataPoint
  /\ createdAt \in 0 .. MaxNow /\ now \in 1 .. MaxNow /\ appended \in 0 .. MaxAppends

LEMMA PointIsItem == DataPoint \subseteq Item
BY BruteAssumption DEF DataPoint, Item

LEMMA BruteInit == Init => BruteInv
<1> SUFFICES ASSUME Init PROVE BruteInv
  OBVIOUS
<1>1. data = [root |-> Nil, len |-> 0] /\ createdAt = 0 /\ now = 1 /\ appended = 0
  BY DEF Init, New, Never
<1>2. data.root = Nil /\ data.len = 0 /\ data \in [root : AllTrees, len : Int]
  BY <1>1, NilMeans
<1>3. Walk(data.root) = <<>>
  BY <1>2, WalkMeans DEF Walk
<1>4. Sound(data)
  BY <1>2, <1>3 DEF Sound, Ordered
<1> QED BY <1>1, <1>3, <1>4, BruteAssumption DEF BruteInv

LEMMA BruteAppend == ASSUME BruteInv, NEW t \in 1 .. MaxNow, AppendItem(t) PROVE BruteInv'
<1> DEFINE i == [t |-> t, v |-> appended + 1]
           n == data.root
           d == Insert(n, i)
           s == Walk(n)
           r == Walk(d)
<1>1. /\ appended' \in 0 .. MaxAppends /\ appended' = appended + 1
      /\ createdAt' = createdAt /\ now' = now
  BY BruteAssumption DEF BruteInv, AppendItem
<1>2. i \in DataPoint /\ i \in Item
  <2>1. appended + 1 \in 1 .. MaxAppends
    BY BruteAssumption DEF BruteInv, AppendItem
  <2>2. i \in DataPoint
    BY <2>1 DEF DataPoint
  <2> QED BY <2>2, PointIsItem
<1>3. data' = [root |-> d, len |-> data.len + 1]
  BY <1>1 DEF AppendItem, Add
<1>4. n \in AllTrees /\ data.len \in Int /\ data.len = Len(s) /\ Ordered(s)
  BY DEF BruteInv, Sound
<1> HIDE DEF i
<1>5. d \in AllTrees /\ s \in Seq(Item) /\ r \in Seq(Item)
  BY <1>2, <1>4, InsertMeans, WalkType
<1>6. PICK p : Placed(s, i, p, r)
  BY <1>2, <1>4, InsertOrder
<1>7. Ordered(r) /\ \A j \in 1 .. Len(r) : r[j] = i \/ \E k \in 1 .. Len(s) : r[j] = s[k]
  <2> HIDE DEF s, r
  <2> QED BY <1>2, <1>4, <1>5, <1>6, PlacedOrdered
<1>8. data.len + 1 = Len(r)
  BY <1>4, <1>6 DEF Placed
<1>9. \A j \in 1 .. Len(r) : r[j] \in DataPoint
  BY <1>2, <1>7 DEF BruteInv
<1> HIDE DEF d
<1>10. data'.root = d /\ data'.len = data.len + 1 /\ data' \in [root : AllTrees, len : Int]
  BY <1>3, <1>4, <1>5
<1>11. Sound(data')
  BY <1>7, <1>8, <1>10 DEF Sound
<1>12. \A j \in 1 .. Len(Walk(data'.root)) : Walk(data'.root)[j] \in DataPoint
  BY <1>9, <1>10
<1>13. Sound(data)'
  BY <1>11 DEF Sound
<1> QED BY <1>1, <1>12, <1>13 DEF BruteInv, Walk

(* What rebuildSize leaves: the items after the first sub.                 *)
LEMMA SizeMeans ==
  ASSUME BruteInv, RebuildSize
  PROVE  /\ Sound(data')
         /\ Len(Walk(data'.root)) = MaxItems /\ MaxItems \in Nat
         /\ MaxItems <= Len(Walk(data.root))
         /\ \A a \in 1 .. MaxItems :
              /\ Walk(data'.root)[a].t = Walk(data.root)[a + (Len(Walk(data.root)) - MaxItems)].t
              /\ \E b \in 1 .. Len(Walk(data.root)) : Walk(data'.root)[a] = Walk(data.root)[b]
<1> DEFINE s == Walk(data.root)
           sub == data.len - MaxItems
           list == SubSeq(s, 1, sub)
<1>1. Sound(data) /\ data.len = Len(s) /\ s \in Seq(Item) /\ Len(s) \in Nat
  BY WalkType DEF BruteInv, Sound
<1>2. sub \in Nat /\ 1 <= sub /\ sub <= Len(s) /\ MaxItems \in Nat /\ sub = Len(s) - MaxItems
  BY <1>1, BruteAssumption DEF RebuildSize
<1>3. data' = RemoveAll(list)
  BY DEF RebuildSize, Points, Walk
<1> HIDE DEF s, sub
<1>4. list \in Seq(Item) /\ Len(list) = sub /\ \A j \in 1 .. sub : list[j] = s[j]
  BY <1>1, <1>2
<1> HIDE DEF list
<1>5. /\ Sound(RemoveAll(list))
      /\ Len(Walk(RemoveAll(list).root)) = Len(s) - sub
      /\ \A a \in 1 .. Len(Walk(RemoveAll(list).root)) :
           /\ Walk(RemoveAll(list).root)[a].t = s[a + sub].t
           /\ \E b \in 1 .. Len(s) : Walk(RemoveAll(list).root)[a] = s[b]
  <2>1. Len(list) <= Len(s) /\ \A j \in 1 .. Len(list) : list[j] = s[j]
    BY <1>2, <1>4
  <2> QED BY <1>1, <1>4, <2>1, FirstRemoved DEF s
<1>6. Len(s) - sub = MaxItems
  BY <1>1, <1>2
<1> QED BY <1>1, <1>2, <1>3, <1>5, <1>6 DEF s

LEMMA BruteSize == ASSUME BruteInv, RebuildSize PROVE BruteInv'
<1> DEFINE s == Walk(data.root)
           r == Walk(data'.root)
<1>1. Sound(data') /\ \A a \in 1 .. Len(r) : \E b \in 1 .. Len(s) : r[a] = s[b]
  BY SizeMeans
<1>2. \A a \in 1 .. Len(r) : r[a] \in DataPoint
  BY <1>1 DEF BruteInv
<1>3. createdAt' = createdAt /\ now' = now /\ appended' = appended
  BY DEF RebuildSize
<1>4. Sound(data)'
  BY <1>1 DEF Sound
<1> QED BY <1>2, <1>3, <1>4 DEF BruteInv, Walk

LEMMA BruteOutdated == ASSUME BruteInv, RebuildOutdated PROVE BruteInv'
<1> DEFINE W == {i \in DataPoint : Listed(i)}
           list == InOrder(data.root, W)
           s == Walk(data.root)
           r == Walk(data'.root)
<1>1. data' = RemoveAll(list)
  BY DEF RebuildOutdated, Filter
<1>2. Sound(data) /\ data.root \in AllTrees
  BY DEF BruteInv, Sound
<1> HIDE DEF W
<1>3. list \in Seq(Item)
  BY <1>2, WalkTyped
<1>4. PICK e : e \in Within(list, s)
  BY <1>2, FilterWithin
<1> HIDE DEF list
<1>5. e \in Places(s, list, 0)
  <2>1. 0 + 1 = 1
    OBVIOUS
  <2>2. /\ e \in [1 .. Len(list) -> 1 .. Len(s)]
        /\ \A a, b \in 1 .. Len(list) : a # b => e[a] # e[b]
        /\ \A a \in 1 .. Len(list) : list[a] = s[e[a]]
    BY <1>4 DEF Within
  <2>3. \A a \in 1 .. Len(list) : s[e[a]].t = list[a].t
    BY <2>2
  <2> QED BY <2>1, <2>2, <2>3 DEF Places
<1>6. Sound(data') /\ \A a \in 1 .. Len(r) : \E b \in 1 .. Len(s) : r[a] = s[b]
  BY <1>1, <1>2, <1>3, <1>5, AllRemoved
<1>7. \A a \in 1 .. Len(r) : r[a] \in DataPoint
  BY <1>6 DEF BruteInv
<1>8. createdAt' = now /\ now' = now /\ appended' = appended
  BY DEF RebuildOutdated
<1>9. Sound(data)'
  BY <1>6 DEF Sound
<1>10. now \in 0 .. MaxNow
  BY BruteAssumption DEF BruteInv
<1> QED BY <1>7, <1>8, <1>9, <1>10 DEF BruteInv, Walk

LEMMA BruteNext == BruteInv /\ [Next]_vars => BruteInv'
<1> SUFFICES ASSUME BruteInv, [Next]_vars PROVE BruteInv'
  OBVIOUS
<1>1. ASSUME NEW t \in 1 .. MaxNow, AppendItem(t) PROVE BruteInv'
  BY <1>1, BruteAppend
<1>2. CASE RebuildSize
  BY <1>2, BruteSize
<1>3. CASE RebuildOutdated
  BY <1>3, BruteOutdated
<1>4. CASE Clock
  <2>1. /\ now' \in 1 .. MaxNow /\ data' = data /\ createdAt' = createdAt
        /\ appended' = appended
    BY <1>4, BruteAssumption DEF BruteInv, Clock
  <2> QED BY <2>1 DEF BruteInv, Sound, Walk
<1>5. CASE UNCHANGED vars
  BY <1>5 DEF vars, BruteInv, Sound, Walk
<1> QED BY <1>1, <1>2, <1>3, <1>4, <1>5 DEF Next

LEMMA BruteAlways == Spec => []BruteInv
BY BruteInit, BruteNext, PTL DEF Spec

-----------------------------------------------------------------------------

(* The tree of a predictor is always a tree whose nodes store the heights  *)
(* that they have, its length is the number of its items, and they are     *)
(* data points that were added.                                            *)
THEOREM TypeCorrect == Spec => []TypeOK
<1>1. BruteInv => TypeOK
  <2> SUFFICES ASSUME BruteInv PROVE TypeOK
    OBVIOUS
  <2>1. data.root \in AllTrees /\ data.len = Len(Walk(data.root))
    BY DEF BruteInv, Sound
  <2>2. data.root \in Tree[data.root.height + 1]
    BY <2>1, OwnHeight
  <2>3. Points(data) = Walk(data.root)
    BY DEF Points, Walk
  <2>4. Walk(data.root) \in Seq(Item)
    BY <2>1, WalkType
  <2>5. Range(Walk(data.root)) \subseteq DataPoint
    BY <2>4 DEF Range, BruteInv
  <2> QED BY <2>1, <2>2, <2>3, <2>5 DEF TypeOK, BruteInv
<1> QED BY <1>1, BruteAlways, PTL

(* The walk through the tree is always in the order of the times.          *)
THEOREM TimesInOrder == Spec => []InTimeOrder
<1>1. BruteInv => InTimeOrder
  <2> SUFFICES ASSUME BruteInv PROVE InTimeOrder
    OBVIOUS
  <2>1. data.root \in AllTrees /\ Ordered(Walk(data.root))
    BY DEF BruteInv, Sound
  <2>2. Walk(data.root) \in Seq(Item)
    BY <2>1, WalkType
  <2> QED BY <2>1, <2>2 DEF InTimeOrder, Points, Walk, Ordered
<1> QED BY <1>1, BruteAlways, PTL

(* rebuildSize always leaves as many items as are allowed, those with the  *)
(* latest times.                                                           *)
THEOREM OldestAlwaysGo == Spec => OldestGo
<1> DEFINE Step == RebuildSize =>
              /\ Times(data') = LastOf(Times(data), MaxItems)
              /\ Distinct(Times(data)) => Points(data') = LastOf(Points(data), MaxItems)
<1>1. BruteInv /\ [Next]_vars => [Step]_vars
  <2> SUFFICES ASSUME BruteInv, RebuildSize
               PROVE  /\ Times(data') = LastOf(Times(data), MaxItems)
                      /\ Distinct(Times(data)) =>
                           Points(data') = LastOf(Points(data), MaxItems)
    OBVIOUS
  <2> DEFINE s == Walk(data.root)
             r == Walk(data'.root)
             m == Len(s)
             st == [j \in 1 .. m |-> s[j].t]
             rt == [j \in 1 .. MaxItems |-> r[j].t]
  <2>1. /\ Sound(data) /\ Sound(data') /\ Len(r) = MaxItems /\ MaxItems \in Nat /\ MaxItems <= m
        /\ \A a \in 1 .. MaxItems : /\ r[a].t = s[a + (m - MaxItems)].t
                                    /\ \E b \in 1 .. m : r[a] = s[b]
    BY SizeMeans DEF BruteInv
  <2>2. s \in Seq(Item) /\ r \in Seq(Item) /\ m \in Nat
    BY <2>1, WalkType DEF Sound
  <2>3. Points(data) = s /\ Points(data') = r
    BY DEF Points, Walk
  <2>4. Times(data) = st /\ Times(data') = rt
    BY <2>1, <2>2, <2>3 DEF Times
  <2> HIDE DEF s, r, m
  <2>5. /\ st \in Seq(Nat) /\ Len(st) = m /\ rt \in Seq(Nat) /\ Len(rt) = MaxItems
    <3>1. \A j \in 1 .. m : s[j].t \in Nat
      <4>1. \A j \in 1 .. m : s[j] \in Item
        BY <2>2 DEF m
      <4> QED BY <4>1, ItemTime
    <3>2. \A j \in 1 .. MaxItems : r[j].t \in Nat
      <4>1. \A j \in 1 .. MaxItems : r[j] \in Item
        BY <2>1, <2>2
      <4> QED BY <4>1, ItemTime
    <3> QED BY <2>1, <2>2, <3>1, <3>2
  <2>6. ASSUME NEW S, NEW x \in Seq(S), Len(x) = m
        PROVE  /\ LastOf(x, MaxItems) \in Seq(S) /\ Len(LastOf(x, MaxItems)) = MaxItems
               /\ \A a \in 1 .. MaxItems : LastOf(x, MaxItems)[a] = x[a + (m - MaxItems)]
    <3> DEFINE k == m - MaxItems + 1
    <3>1. LastOf(x, MaxItems) = SubSeq(x, k, m)
      BY <2>6 DEF LastOf
    <3>2. /\ k \in 1 .. m + 1 /\ m \in Nat /\ IF k <= m THEN m - k + 1 = MaxItems ELSE MaxItems = 0
      BY <2>1, <2>2
    <3>3. SubSeq(x, k, m) \in Seq(S) /\ Len(SubSeq(x, k, m)) = MaxItems
      BY <2>6, <3>2
    <3>4. ASSUME NEW a \in 1 .. MaxItems PROVE SubSeq(x, k, m)[a] = x[a + (m - MaxItems)]
      <4>1. k <= m /\ k + a - 1 = a + (m - MaxItems) /\ a \in 1 .. (m - k + 1)
        BY <2>1, <2>2
      <4>2. SubSeq(x, k, m)[a] = x[k + a - 1]
        BY <2>6, <3>2, <4>1
      <4> QED BY <4>1, <4>2
    <3> HIDE DEF k
    <3> QED BY <3>1, <3>3, <3>4
  <2>7. rt = LastOf(st, MaxItems)
    <3>1. /\ LastOf(st, MaxItems) \in Seq(Nat) /\ Len(LastOf(st, MaxItems)) = MaxItems
          /\ \A a \in 1 .. MaxItems : LastOf(st, MaxItems)[a] = st[a + (m - MaxItems)]
      <4> HIDE DEF st
      <4> QED BY <2>5, <2>6
    <3>2. ASSUME NEW a \in 1 .. MaxItems PROVE rt[a] = st[a + (m - MaxItems)]
      <4>1. a + (m - MaxItems) \in 1 .. m
        BY <2>1, <2>2
      <4> QED BY <2>1, <4>1
    <3> DEFINE z == LastOf(st, MaxItems)
    <3> HIDE DEF rt, st, z
    <3>3. /\ rt \in Seq(Nat) /\ z \in Seq(Nat) /\ Len(rt) = Len(z)
          /\ \A a \in 1 .. Len(rt) : rt[a] = z[a]
      BY <2>5, <3>1, <3>2 DEF z
    <3>4. rt = z
      BY <3>3, SeqEqual
    <3> QED BY <3>4 DEF z
  <2>8. ASSUME Distinct(st) PROVE r = LastOf(s, MaxItems)
    <3>1. /\ LastOf(s, MaxItems) \in Seq(Item) /\ Len(LastOf(s, MaxItems)) = MaxItems
          /\ \A a \in 1 .. MaxItems : LastOf(s, MaxItems)[a] = s[a + (m - MaxItems)]
      BY <2>2, <2>6 DEF m
    <3>2. ASSUME NEW a \in 1 .. MaxItems PROVE r[a] = s[a + (m - MaxItems)]
      <4> DEFINE c == a + (m - MaxItems)
      <4>1. c \in 1 .. m
        BY <2>1, <2>2
      <4>2. PICK b \in 1 .. m : r[a] = s[b]
        BY <2>1
      <4>3. st[b] = st[c]
        BY <2>1, <4>1, <4>2
      <4>4. b = c
        BY <2>8, <4>1, <4>3 DEF Distinct
      <4> QED BY <4>2, <4>4
    <3> QED BY <2>1, <2>2, <3>1, <3>2, SeqEqual
  <2> QED BY <2>3, <2>4, <2>7, <2>8
<1> QED BY <1>1, BruteAlways, PTL DEF Spec, OldestGo

-----------------------------------------------------------------------------
(* The queue of the nearest.                                               *)

Entries == [value : Nat, prior : Nat]

Sorted(q) == \A a, b \in DOMAIN q : a < b => q[a].prior <= q[b].prior

LEMMA InitialSegment ==
  ASSUME NEW n \in Nat, NEW D \in SUBSET (1 .. n),
         \A a \in D, b \in 1 .. n : b < a => b \in D
  PROVE  \E i \in 0 .. n : D = 1 .. i
<1> DEFINE Segment(m) == \E i \in 0 .. m : D \cap (1 .. m) = 1 .. i
           Good == {m \in Nat : m <= n => Segment(m)}
<1>1. Segment(0)
  BY DEF Segment
<1>2. ASSUME NEW m \in Nat, m + 1 <= n, Segment(m) PROVE Segment(m + 1)
  <2>1. PICK i \in 0 .. m : D \cap (1 .. m) = 1 .. i
    BY <1>2
  <2>2. CASE m + 1 \in D
    <3>1. D \cap (1 .. (m + 1)) = 1 .. (m + 1)
      BY <1>2, <2>2
    <3> QED BY <3>1
  <2>3. CASE m + 1 \notin D
    <3>1. D \cap (1 .. (m + 1)) = 1 .. i
      BY <1>2, <2>1, <2>3
    <3> QED BY <3>1
  <2> QED BY <2>2, <2>3
<1>3. n \in Good
  <2> HIDE DEF Segment
  <2>1. 0 \in Good
    BY <1>1
  <2>2. \A m \in Nat : m \in Good => m + 1 \in Good
    BY <1>2
  <2> HIDE DEF Good
  <2> QED BY <2>1, <2>2, Successors
<1>4. Segment(n)
  <2> HIDE DEF Segment
  <2> QED BY <1>3
<1> QED BY <1>4

(* r is q with e after its first i entries, cut to what it may hold.       *)
Enqueued(q, cap, e, i, r) ==
  /\ i \in 0 .. Len(q)
  /\ r \in Seq(Entries)
  /\ Len(r) = IF Len(q) < cap THEN Len(q) + 1 ELSE cap
  /\ \A j \in 1 .. i : q[j].prior <= e.prior
  /\ \A j \in (i + 1) .. Len(q) : e.prior < q[j].prior
  /\ \A j \in 1 .. Len(r) :
       r[j] = IF j <= i THEN q[j] ELSE IF j = i + 1 THEN e ELSE q[j - 1]

(* Push inserts an entry after those that are at least as near, and drops  *)
(* the last entry if there are too many.                                   *)
LEMMA PushMeans ==
  ASSUME NEW q \in Seq(Entries), Sorted(q), NEW cap \in Nat \ {0}, Len(q) <= cap,
         NEW e \in Entries
  PROVE  \E i : Enqueued(q, cap, e, i, Push(q, cap, e))
<1> DEFINE n == Len(q)
           D == {j \in DOMAIN q : q[j].prior <= e.prior}
<1>1. /\ n \in Nat /\ n = Len(q) /\ n <= cap
      /\ DOMAIN q = 1 .. n /\ \A j \in 1 .. n : q[j] \in Entries
  OBVIOUS
<1> HIDE DEF n
<1>2. e.prior \in Nat /\ \A j \in 1 .. n : q[j].prior \in Nat
  BY <1>1 DEF Entries
<1>3. PICK i \in 0 .. n : D = 1 .. i
  <2>1. D \in SUBSET (1 .. n)
    BY <1>1
  <2>2. \A a \in D, b \in 1 .. n : b < a => b \in D
    BY <1>1, <1>2 DEF Sorted
  <2> HIDE DEF D
  <2> QED BY <1>1, <2>1, <2>2, InitialSegment
<1>4. i \in 0 .. n /\ Cardinality(D) = i
  <2>1. Cardinality(1 .. i) = i
    BY <1>3, FS_Interval
  <2> HIDE DEF D
  <2> QED BY <1>3, <2>1
<1>5. /\ \A j \in 1 .. i : q[j].prior <= e.prior
      /\ \A j \in (i + 1) .. n : e.prior < q[j].prior
  <2>1. \A j \in 1 .. n : j \in D <=> q[j].prior <= e.prior
    BY <1>1
  <2>2. \A j \in 1 .. n : j \in D <=> j <= i
    BY <1>1, <1>3
  <2> HIDE DEF D
  <2> QED BY <1>1, <1>2, <2>1, <2>2
<1> DEFINE s == SubSeq(q, 1, i) \o <<e>> \o SubSeq(q, i + 1, n)
<1>6. /\ s \in Seq(Entries) /\ Len(s) = n + 1
      /\ \A j \in 1 .. (n + 1) :
           s[j] = IF j <= i THEN q[j] ELSE IF j = i + 1 THEN e ELSE q[j - 1]
  <2> DEFINE x == SubSeq(q, 1, i)
             z == SubSeq(q, i + 1, n)
  <2>1. /\ x \in Seq(Entries) /\ Len(x) = i /\ \A j \in 1 .. i : x[j] = q[j]
    BY <1>1, <1>4
  <2>2. /\ z \in Seq(Entries) /\ Len(z) = n - i
        /\ \A j \in 1 .. (n - i) : z[j] = q[i + j]
    <3>1. /\ IF i + 1 <= n THEN n - (i + 1) + 1 = n - i ELSE n - i = 0
          /\ i + 1 \in Int /\ n \in Int
          /\ \A j \in (i + 1) .. n : q[j] \in Entries
      BY <1>1, <1>4
    <3>2. z \in Seq(Entries) /\ Len(z) = IF i + 1 <= n THEN n - (i + 1) + 1 ELSE 0
      BY <3>1, SubSeqProperties
    <3>3. ASSUME NEW j \in 1 .. (n - i) PROVE z[j] = q[i + j]
      <4>1. i + 1 <= n /\ j \in 1 .. (n - (i + 1) + 1) /\ (i + 1) + j - 1 = i + j
        BY <1>1, <1>4
      <4>2. z[j] = q[(i + 1) + j - 1]
        BY <1>1, <1>4, <4>1
      <4> QED BY <4>1, <4>2
    <3>4. n - i \in Nat /\ (i + 1 <= n \/ ~ (i + 1 <= n))
      BY <1>1, <1>4
    <3> QED BY <3>1, <3>2, <3>3, <3>4
  <2> HIDE DEF x, z
  <2> DEFINE y == x \o <<e>>
  <2>3. /\ y \in Seq(Entries) /\ Len(y) = i + 1
        /\ \A j \in 1 .. i : y[j] = q[j]
        /\ y[i + 1] = e
    BY <1>1, <1>4, <2>1
  <2> HIDE DEF y
  <2>4. /\ y \o z \in Seq(Entries) /\ Len(y \o z) = n + 1
        /\ \A j \in 1 .. (n + 1) :
             (y \o z)[j] = IF j <= i + 1 THEN y[j] ELSE z[j - (i + 1)]
    <3>1. /\ y \o z \in Seq(Entries) /\ Len(y \o z) = Len(y) + Len(z)
          /\ \A j \in 1 .. Len(y) + Len(z) :
               (y \o z)[j] = IF j <= Len(y) THEN y[j] ELSE z[j - Len(y)]
      BY <2>2, <2>3, ConcatProperties
    <3>2. Len(y) + Len(z) = n + 1
      BY <1>1, <1>4, <2>2, <2>3
    <3> QED BY <2>3, <3>1, <3>2
  <2>5. ASSUME NEW j \in 1 .. (n + 1)
        PROVE  (y \o z)[j] = IF j <= i THEN q[j] ELSE IF j = i + 1 THEN e ELSE q[j - 1]
    <3>1. CASE j <= i + 1
      BY <1>1, <1>4, <2>3, <2>4, <3>1
    <3>2. CASE j > i + 1
      <4>1. /\ j - (i + 1) \in 1 .. (n - i) /\ i + (j - (i + 1)) = j - 1
            /\ ~ (j <= i + 1) /\ ~ (j <= i) /\ j # i + 1
        BY <1>1, <1>4, <3>2
      <4>2. (y \o z)[j] = z[j - (i + 1)]
        BY <2>4, <4>1
      <4>3. z[j - (i + 1)] = q[i + (j - (i + 1))]
        BY <2>2, <4>1
      <4> QED BY <4>1, <4>2, <4>3
    <3>3. j <= i + 1 \/ j > i + 1
      BY <1>1, <1>4
    <3> QED BY <3>1, <3>2, <3>3
  <2> QED BY <2>4, <2>5 DEF x, y, z
<1>7. Push(q, cap, e) = IF cap < Len(s) THEN SubSeq(s, 1, cap) ELSE s
  BY <1>4 DEF Push, n
<1> HIDE DEF s, D
<1> DEFINE r == Push(q, cap, e)
<1>8. /\ r \in Seq(Entries)
      /\ Len(r) = IF n < cap THEN n + 1 ELSE cap
      /\ \A j \in 1 .. Len(r) : r[j] = s[j] /\ j \in 1 .. (n + 1)
  <2>1. CASE n < cap
    <3>1. r = s
      BY <1>1, <1>6, <1>7, <2>1
    <3> QED BY <1>1, <1>6, <2>1, <3>1
  <2>2. CASE n = cap
    <3>1. r = SubSeq(s, 1, cap)
      BY <1>1, <1>6, <1>7, <2>2
    <3>2. /\ SubSeq(s, 1, cap) \in Seq(Entries) /\ Len(SubSeq(s, 1, cap)) = cap
          /\ \A j \in 1 .. cap : SubSeq(s, 1, cap)[j] = s[j]
      BY <1>1, <1>6, <2>2
    <3> HIDE DEF r
    <3> QED BY <1>1, <2>2, <3>1, <3>2
  <2>3. n < cap \/ n = cap
    BY <1>1
  <2> HIDE DEF r
  <2> QED BY <2>1, <2>2, <2>3
<1> HIDE DEF r
<1>9. \A j \in 1 .. Len(r) :
        r[j] = IF j <= i THEN q[j] ELSE IF j = i + 1 THEN e ELSE q[j - 1]
  BY <1>6, <1>8
<1>10. i \in 0 .. Len(q)
  BY <1>1, <1>4
<1> QED BY <1>1, <1>5, <1>8, <1>9, <1>10 DEF r, Enqueued

(* Each entry of q is that of an item of the first j, and those of the     *)
(* others, if any, are not nearer.                                         *)
Finding(q, o, j, k) ==
  {of \in [1 .. Len(q) -> 1 .. j] :
     /\ \A a, b \in 1 .. Len(q) : a # b => of[a] # of[b]
     /\ \A a \in 1 .. Len(q) : q[a] = o[of[a]]
     /\ \A c \in 1 .. j : (\A b \in 1 .. Len(q) : of[b] # c) =>
          Len(q) = k /\ \A a \in 1 .. Len(q) : q[a].prior <= o[c].prior}

Queue(k) == {q \in Seq(Entries) : Sorted(q) /\ Len(q) <= k}

LEMMA PushSorted ==
  ASSUME NEW k \in Nat \ {0}, NEW q \in Queue(k), NEW e \in Entries
  PROVE  Push(q, k, e) \in Queue(k)
<1> DEFINE r == Push(q, k, e)
           n == Len(q)
<1>1. q \in Seq(Entries) /\ Sorted(q) /\ n <= k /\ n \in Nat
  BY DEF Queue
<1>2. PICK i : Enqueued(q, k, e, i, r)
  BY <1>1, PushMeans
<1> HIDE DEF r
<1>3. /\ i \in 0 .. n /\ r \in Seq(Entries)
      /\ Len(r) = IF n < k THEN n + 1 ELSE k
      /\ \A j \in 1 .. i : q[j].prior <= e.prior
      /\ \A j \in (i + 1) .. n : e.prior < q[j].prior
      /\ \A j \in 1 .. Len(r) :
           r[j] = IF j <= i THEN q[j] ELSE IF j = i + 1 THEN e ELSE q[j - 1]
  BY <1>2 DEF Enqueued
<1>4. e.prior \in Nat /\ \A j \in 1 .. n : q[j].prior \in Nat
  <2>1. \A j \in 1 .. n : q[j] \in Entries
    BY <1>1
  <2> QED BY <2>1 DEF Entries
<1>5. \A a, b \in 1 .. n : a < b => q[a].prior <= q[b].prior
  BY <1>1 DEF Sorted
<1> HIDE DEF n
<1>6. Len(r) \in Nat /\ Len(r) <= k /\ Len(r) <= n + 1
  BY <1>1, <1>3
<1>7. ASSUME NEW a \in 1 .. Len(r), NEW b \in 1 .. Len(r), a < b
      PROVE  r[a].prior <= r[b].prior
  <2>1. CASE b <= i
    <3>1. r[a] = q[a] /\ r[b] = q[b] /\ a \in 1 .. n /\ b \in 1 .. n
      BY <1>1, <1>3, <1>7, <2>1
    <3> QED BY <1>5, <1>7, <3>1
  <2>2. CASE b = i + 1
    <3>1. r[a] = q[a] /\ r[b] = e /\ a \in 1 .. i
      BY <1>1, <1>3, <1>7, <2>2
    <3> QED BY <1>3, <3>1
  <2>3. CASE b > i + 1
    <3>1. r[b] = q[b - 1] /\ b - 1 \in (i + 1) .. n /\ b - 1 \in 1 .. n
      BY <1>1, <1>3, <1>6, <2>3
    <3>2. e.prior < q[b - 1].prior
      BY <1>3, <3>1
    <3>3. CASE a <= i
      <4>1. r[a] = q[a] /\ a \in 1 .. n /\ a < b - 1
        BY <1>1, <1>3, <2>3, <3>3
      <4> QED BY <1>5, <3>1, <4>1
    <3>4. CASE a = i + 1
      <4>1. r[a] = e
        BY <1>3, <3>4
      <4> QED BY <1>4, <3>1, <3>2, <4>1
    <3>5. CASE a > i + 1
      <4>1. r[a] = q[a - 1] /\ a - 1 \in 1 .. n /\ a - 1 < b - 1
        BY <1>1, <1>3, <1>6, <1>7, <3>5
      <4> QED BY <1>5, <3>1, <4>1
    <3> QED BY <1>3, <3>3, <3>4, <3>5
  <2> QED BY <1>3, <2>1, <2>2, <2>3
<1>8. Sorted(r)
  <2>1. DOMAIN r = 1 .. Len(r)
    BY <1>3
  <2> QED BY <1>7, <2>1 DEF Sorted
<1> QED BY <1>3, <1>6, <1>8 DEF Queue, r

LEMMA PushFinds ==
  ASSUME NEW k \in Nat \ {0}, NEW q \in Queue(k), NEW n \in Nat, NEW o \in [1 .. n -> Entries],
         NEW j \in 0 .. n - 1, NEW of \in Finding(q, o, j, k),
         Len(q) = IF j < k THEN j ELSE k,
         NEW r, r = Push(q, k, o[j + 1])
  PROVE  /\ Len(r) = IF j + 1 < k THEN j + 1 ELSE k
         /\ \E f : f \in Finding(r, o, j + 1, k)
<1> DEFINE m == Len(q)
           e == o[j + 1]
<1>1. q \in Seq(Entries) /\ Sorted(q) /\ m <= k /\ m \in Nat /\ m = IF j < k THEN j ELSE k
  BY DEF Queue
<1>2. e \in Entries
  OBVIOUS
<1>3. PICK i : Enqueued(q, k, e, i, r)
  BY <1>1, <1>2, PushMeans
<1>4. /\ i \in 0 .. m /\ Len(r) = IF m < k THEN m + 1 ELSE k
      /\ \A a \in 1 .. i : q[a].prior <= e.prior
      /\ \A a \in (i + 1) .. m : e.prior < q[a].prior
      /\ \A a \in 1 .. Len(r) :
           r[a] = IF a <= i THEN q[a] ELSE IF a = i + 1 THEN e ELSE q[a - 1]
  BY <1>3 DEF Enqueued
<1>5. \A a, b \in 1 .. m : a < b => q[a].prior <= q[b].prior
  BY <1>1 DEF Sorted
<1>6. \A a \in 1 .. m : q[a].prior \in Nat
  <2>1. \A a \in 1 .. m : q[a] \in Entries
    BY <1>1
  <2> QED BY <2>1 DEF Entries
<1>7. \A c \in 1 .. n : o[c].prior \in Nat
  BY DEF Entries
<1>8. /\ \A a \in 1 .. m : of[a] \in 1 .. j
      /\ \A a, b \in 1 .. m : a # b => of[a] # of[b]
      /\ \A a \in 1 .. m : q[a] = o[of[a]]
      /\ \A c \in 1 .. j : (\A b \in 1 .. m : of[b] # c) =>
           m = k /\ \A a \in 1 .. m : q[a].prior <= o[c].prior
  BY DEF Finding
<1> DEFINE h == Len(r)
           f == [a \in 1 .. h |-> IF a <= i THEN of[a]
                                  ELSE IF a = i + 1 THEN j + 1 ELSE of[a - 1]]
<1> HIDE DEF m, e
<1>9. /\ j \in Nat /\ k \in Nat \ {0} /\ h = (IF j + 1 < k THEN j + 1 ELSE k)
      /\ h \in Nat /\ h <= m + 1 /\ m <= h /\ (h = m + 1 \/ (h = m /\ m = k))
  BY <1>1, <1>4
<1> HIDE DEF h
(* Where an entry of r comes from.                                         *)
<1>10. ASSUME NEW a \in 1 .. h
       PROVE  \/ a \in 1 .. i /\ a \in 1 .. m /\ f[a] = of[a] /\ r[a] = q[a]
              \/ a = i + 1 /\ f[a] = j + 1 /\ r[a] = e
              \/ /\ a - 1 \in i + 1 .. m /\ a - 1 \in 1 .. m
                 /\ f[a] = of[a - 1] /\ r[a] = q[a - 1]
  <2>1. r[a] = IF a <= i THEN q[a] ELSE IF a = i + 1 THEN e ELSE q[a - 1]
    BY <1>4 DEF h
  <2>2. f[a] = IF a <= i THEN of[a] ELSE IF a = i + 1 THEN j + 1 ELSE of[a - 1]
    OBVIOUS
  <2> HIDE DEF f
  <2>3. CASE a <= i
    BY <1>1, <1>4, <2>1, <2>2, <2>3
  <2>4. CASE a = i + 1
    BY <1>1, <1>4, <2>1, <2>2, <2>4
  <2>5. CASE a > i + 1
    <3>1. a - 1 \in i + 1 .. m /\ a - 1 \in 1 .. m /\ ~ (a <= i) /\ a # i + 1
      BY <1>1, <1>4, <1>9, <2>5
    <3> QED BY <2>1, <2>2, <3>1
  <2> QED BY <1>1, <1>4, <2>3, <2>4, <2>5
<1>11. f \in [1 .. h -> 1 .. j + 1]
  <2>1. ASSUME NEW a \in 1 .. h PROVE f[a] \in 1 .. j + 1
    <3> HIDE DEF f
    <3>1. \A b \in 1 .. m : of[b] \in 1 .. j + 1
      BY <1>8, <1>9
    <3>2. j + 1 \in 1 .. j + 1
      BY <1>9
    <3> QED BY <1>10, <3>1, <3>2
  <2>2. f = [a \in 1 .. h |-> f[a]]
    OBVIOUS
  <2> HIDE DEF f
  <2> QED BY <2>1, <2>2
<1> HIDE DEF f
<1>12. ASSUME NEW a \in 1 .. h PROVE r[a] = o[f[a]]
  <2>1. CASE a \in 1 .. m /\ f[a] = of[a] /\ r[a] = q[a]
    BY <1>8, <2>1
  <2>2. CASE f[a] = j + 1 /\ r[a] = e
    BY <2>2 DEF e
  <2>3. CASE a - 1 \in 1 .. m /\ f[a] = of[a - 1] /\ r[a] = q[a - 1]
    BY <1>8, <2>3
  <2> QED BY <1>10, <2>1, <2>2, <2>3
<1>13. \A b \in 1 .. m : of[b] # j + 1
  BY <1>8, <1>9
<1>14. ASSUME NEW a \in 1 .. h, NEW b \in 1 .. h, a < b PROVE f[a] # f[b]
  <2>1. CASE a \in 1 .. i /\ a \in 1 .. m /\ f[a] = of[a]
    <3>1. CASE b \in 1 .. m /\ f[b] = of[b]
      BY <1>8, <1>14, <2>1, <3>1
    <3>2. CASE f[b] = j + 1
      BY <1>13, <2>1, <3>2
    <3>3. CASE b - 1 \in i + 1 .. m /\ b - 1 \in 1 .. m /\ f[b] = of[b - 1]
      <4>1. a # b - 1
        BY <1>4, <2>1, <3>3
      <4> QED BY <1>8, <2>1, <3>3, <4>1
    <3> QED BY <1>10, <3>1, <3>2, <3>3
  <2>2. CASE a = i + 1 /\ f[a] = j + 1
    <3>1. b - 1 \in 1 .. m /\ f[b] = of[b - 1]
      BY <1>4, <1>10, <1>14, <2>2
    <3> QED BY <1>13, <2>2, <3>1
  <2>3. CASE a - 1 \in i + 1 .. m /\ a - 1 \in 1 .. m /\ f[a] = of[a - 1]
    <3>1. b - 1 \in 1 .. m /\ f[b] = of[b - 1]
      BY <1>4, <1>10, <1>14, <2>3
    <3>2. a - 1 # b - 1
      BY <1>14
    <3> QED BY <1>8, <2>3, <3>1, <3>2
  <2> QED BY <1>10, <2>1, <2>2, <2>3
<1>15. \A a, b \in 1 .. h : a # b => f[a] # f[b]
  <2>1. \A a, b \in 1 .. h : a # b => a < b \/ b < a
    BY <1>9
  <2> QED BY <1>14, <2>1
<1>16. ASSUME NEW c \in 1 .. j + 1, \A b \in 1 .. h : f[b] # c
       PROVE  h = k /\ \A a \in 1 .. h : r[a].prior <= o[c].prior
  (* The new entry did not find room.                                      *)
  <2>1. CASE c = j + 1
    <3>1. ~ (i + 1 \in 1 .. h)
      <4>1. ASSUME i + 1 \in 1 .. h PROVE f[i + 1] = j + 1
        BY <1>4, <1>10, <4>1
      <4> QED BY <1>16, <2>1, <4>1
    <3>2. h = m /\ m = k /\ i = m
      BY <1>1, <1>4, <1>9, <3>1
    <3>3. ASSUME NEW a \in 1 .. h PROVE r[a].prior <= o[c].prior
      <4>1. a \in 1 .. i /\ a # i + 1 /\ ~ (a - 1 \in i + 1 .. m)
        BY <1>1, <3>2
      <4>2. r[a] = q[a] /\ q[a].prior <= e.prior
        BY <1>4, <1>10, <4>1
      <4> QED BY <2>1, <4>2 DEF e
    <3> QED BY <3>2, <3>3
  (* An earlier entry had to go.                                           *)
  <2>2. CASE c # j + 1 /\ \E b \in 1 .. m : of[b] = c
    <3>1. PICK b \in 1 .. m : of[b] = c
      BY <2>2
    <3>2. ~ (b <= i)
      <4>1. ASSUME b <= i PROVE f[b] = c /\ b \in 1 .. h
        BY <1>1, <1>4, <1>9, <1>10, <3>1, <4>1
      <4> QED BY <1>16, <4>1
    <3>3. ~ (b + 1 \in 1 .. h)
      <4>1. ASSUME b + 1 \in 1 .. h PROVE f[b + 1] = of[b]
        <5>1. b + 1 # i + 1 /\ ~ (b + 1 \in 1 .. i) /\ (b + 1) - 1 = b
          BY <1>1, <1>4, <3>2
        <5> QED BY <1>10, <4>1, <5>1
      <4> QED BY <1>16, <3>1, <4>1
    <3>4. h = m /\ m = k /\ b = m /\ i + 1 <= m
      BY <1>1, <1>4, <1>9, <3>2, <3>3
    <3>5. o[c].prior = q[m].prior /\ m \in 1 .. m /\ c \in 1 .. n
      BY <1>8, <3>1, <3>4
    <3>6. ASSUME NEW a \in 1 .. m PROVE q[a].prior <= q[m].prior
      <4>1. a = m \/ a < m
        BY <1>1
      <4> QED BY <1>5, <1>6, <3>5, <4>1
    <3>7. e.prior <= q[m].prior
      <4>1. m \in (i + 1) .. m
        BY <1>1, <1>4, <3>4
      <4>2. e.prior < q[m].prior /\ e.prior \in Nat
        BY <1>4, <1>7, <4>1 DEF e
      <4> QED BY <1>6, <3>5, <4>2
    <3>8. \A a \in 1 .. h : r[a].prior <= q[m].prior
      BY <1>10, <3>6, <3>7
    <3> QED BY <3>4, <3>5, <3>8
  (* It was no entry before.                                               *)
  <2>3. CASE c # j + 1 /\ \A b \in 1 .. m : of[b] # c
    <3>1. c \in 1 .. j
      BY <1>9, <2>3
    <3>2. m = k /\ \A a \in 1 .. m : q[a].prior <= o[c].prior
      BY <1>8, <2>3, <3>1
    <3>3. h = k
      BY <1>1, <1>9, <3>2
    <3>4. ASSUME i + 1 \in 1 .. h PROVE e.prior <= o[c].prior
      <4>1. i + 1 \in (i + 1) .. m /\ i + 1 \in 1 .. m
        BY <1>1, <1>4, <3>2, <3>3, <3>4
      <4>2. e.prior < q[i + 1].prior /\ q[i + 1].prior <= o[c].prior
        BY <1>4, <3>2, <4>1
      <4>3. e.prior \in Nat /\ q[i + 1].prior \in Nat /\ o[c].prior \in Nat
        BY <1>6, <1>7, <1>9, <3>1, <4>1 DEF e
      <4> QED BY <4>2, <4>3
    <3>5. \A a \in 1 .. h : r[a].prior <= o[c].prior
      BY <1>10, <3>2, <3>4
    <3> QED BY <3>3, <3>5
  <2> QED BY <2>1, <2>2, <2>3
<1>17. f \in Finding(r, o, j + 1, k)
  BY <1>11, <1>12, <1>15, <1>16 DEF Finding, h
<1> QED BY <1>9, <1>17 DEF h

-----------------------------------------------------------------------------
(* The search for the nearest of a list.                                   *)

Offer(vec, i) == Entry(Vec[i.v], Dist(vec, Vec[i.v]))

Offers(vec, list) == [j \in 1 .. Len(list) |-> Offer(vec, list[j])]

LEMMA OfferType ==
  ASSUME NEW vec \in Nat, NEW i \in DataPoint
  PROVE  /\ Offer(vec, i) \in Entries
         /\ Offer(vec, i).value = Vec[i.v] /\ Offer(vec, i).prior = Dist(vec, Vec[i.v])
<1>1. Vec[i.v] \in Nat
  BY BruteAssumption DEF DataPoint
<1>2. Dist(vec, Vec[i.v]) \in Nat
  BY <1>1 DEF Dist
<1> QED BY <1>1, <1>2 DEF Offer, Entry, Entries

Searched(f, list, vec, k) ==
  f[0] = <<>> /\ \A j \in 1 .. Len(list) : f[j] = Push(f[j - 1], k, Offer(vec, list[j]))

LEMMA KNNMeans ==
  ASSUME NEW list \in Seq(DataPoint), NEW vec \in Nat, NEW k \in Nat \ {0}
  PROVE  \E f : /\ Searched(f, list, vec, k)
                /\ KNN(list, vec, k) = IF Len(f[Len(list)]) < k THEN "error"
                                       ELSE PopAll(f[Len(list)])
<1> DEFINE n == Len(list)
           V == Queue(k)
           S == [j \in 1 .. n |-> [q \in V |-> Push(q, k, Offer(vec, list[j]))]]
           Body(g) == [j \in 0 .. n |->
                         IF j = 0 THEN <<>> ELSE Push(g[j - 1], k, Offer(vec, list[j]))]
           pq == CHOOSE g : g = Body(g)
<1>1. n \in Nat /\ S \in Stages(n, V)
  <2>1. \A j \in 1 .. n : Offer(vec, list[j]) \in Entries
    BY OfferType
  <2>2. \A q \in V, j \in 1 .. n : Push(q, k, Offer(vec, list[j])) \in V
    BY <2>1, PushSorted
  <2> HIDE DEF V
  <2> QED BY <2>2 DEF Stages
<1>2. <<>> \in V
  BY DEF Queue, Sorted
<1> HIDE DEF n, V
<1>3. PICK f \in [0 .. n -> V] : Runs(f, n, <<>>, S)
  <2> HIDE DEF S
  <2> QED BY <1>1, <1>2, Iterate
<1>4. f = Body(f)
  <2>1. ASSUME NEW j \in 0 .. n, j # 0
        PROVE  f[j] = Push(f[j - 1], k, Offer(vec, list[j]))
    <3>1. j \in 1 .. n /\ j - 1 \in 0 .. n
      BY <1>1, <2>1
    <3>2. f[j] = S[j][f[j - 1]] /\ f[j - 1] \in V
      BY <1>3, <3>1 DEF Runs
    <3> QED BY <3>1, <3>2
  <2>2. f[0] = <<>>
    BY <1>3 DEF Runs
  <2> HIDE DEF S
  <2> QED BY <1>3, <2>1, <2>2
<1>5. pq = Body(pq)
  <2> HIDE DEF Body
  <2> QED BY <1>4
<1> HIDE DEF pq
<1>6. Searched(pq, list, vec, k)
  <2>1. pq[0] = <<>>
    BY <1>1, <1>5
  <2>2. ASSUME NEW j \in 1 .. n PROVE pq[j] = Push(pq[j - 1], k, Offer(vec, list[j]))
    BY <1>1, <1>5
  <2> QED BY <2>1, <2>2 DEF Searched, n
<1>7. KNN(list, vec, k) = IF Len(pq[n]) < k THEN "error" ELSE PopAll(pq[n])
  BY DEF KNN, pq, n, Offer
<1> QED BY <1>6, <1>7 DEF n

(* The queue in the end: the k nearest of the list, or all of it.          *)
LEMMA KNNFinds ==
  ASSUME NEW list \in Seq(DataPoint), NEW vec \in Nat, NEW k \in Nat \ {0}
  PROVE  \E q \in Queue(k) :
           /\ Len(q) = IF Len(list) < k THEN Len(list) ELSE k
           /\ \E of : of \in Finding(q, Offers(vec, list), Len(list), k)
           /\ KNN(list, vec, k) = IF Len(q) < k THEN "error" ELSE PopAll(q)
<1> DEFINE n == Len(list)
           o == Offers(vec, list)
<1>1. PICK f : /\ Searched(f, list, vec, k)
               /\ KNN(list, vec, k) = IF Len(f[n]) < k THEN "error" ELSE PopAll(f[n])
  BY KNNMeans
<1>2. n \in Nat /\ o \in [1 .. n -> Entries]
  <2>1. \A j \in 1 .. n : Offer(vec, list[j]) \in Entries
    BY OfferType
  <2> QED BY <2>1 DEF Offers
<1> DEFINE Good == {j \in 0 .. n :
               /\ f[j] \in Queue(k)
               /\ Len(f[j]) = IF j < k THEN j ELSE k
               /\ \E of : of \in Finding(f[j], o, j, k)}
<1>3. 0 \in Good
  <2>1. f[0] = <<>>
    BY <1>1 DEF Searched
  <2>2. <<>> \in Queue(k) /\ Len(<<>>) = 0
    BY DEF Queue, Sorted
  <2>3. <<>> \in Finding(<<>>, o, 0, k)
    BY DEF Finding
  <2> QED BY <1>2, <2>1, <2>2, <2>3
<1>4. ASSUME NEW j \in 0 .. n - 1, j \in Good PROVE j + 1 \in Good
  <2>1. j + 1 \in 1 .. n /\ j + 1 \in 0 .. n /\ (j + 1) - 1 = j
    BY <1>2
  <2>2. o[j + 1] = Offer(vec, list[j + 1])
    BY <2>1 DEF Offers
  <2> HIDE DEF o
  <2>3. f[j + 1] = Push(f[j], k, o[j + 1]) /\ o[j + 1] \in Entries
    BY <1>1, <1>2, <2>1, <2>2 DEF Searched
  <2>4. PICK of : of \in Finding(f[j], o, j, k)
    BY <1>4
  <2>5. f[j] \in Queue(k) /\ Len(f[j]) = IF j < k THEN j ELSE k
    BY <1>4
  <2>6. f[j + 1] \in Queue(k)
    BY <2>3, <2>5, PushSorted
  <2> DEFINE q == f[j]
             r == f[j + 1]
  <2>7. /\ Len(r) = IF j + 1 < k THEN j + 1 ELSE k
        /\ \E d : d \in Finding(r, o, j + 1, k)
    <3>1. r = Push(q, k, o[j + 1])
      BY <2>3
    <3> HIDE DEF q, r, n
    <3> QED BY <1>2, <2>4, <2>5, <3>1, PushFinds DEF q
  <2> QED BY <2>1, <2>6, <2>7
<1> HIDE DEF Good
<1>5. n \in Good
  BY <1>2, <1>3, <1>4, Steadily
<1> QED BY <1>1, <1>5 DEF Good

(* What a search returns: the vectors of k places of the list, in order,   *)
(* and no other place has a nearer one.                                    *)
Nearest(list, vec, k, of) ==
  /\ of \in [1 .. k -> 1 .. Len(list)]
  /\ \A a, b \in 1 .. k : a # b => of[a] # of[b]
  /\ \A a \in 1 .. k : KNN(list, vec, k)[a] = Vec[list[of[a]].v]
  /\ \A a, b \in 1 .. k :
       a < b => Dist(vec, KNN(list, vec, k)[a]) <= Dist(vec, KNN(list, vec, k)[b])
  /\ \A c \in 1 .. Len(list) : (\A b \in 1 .. k : of[b] # c) =>
       \A a \in 1 .. k : Dist(vec, KNN(list, vec, k)[a]) <= Dist(vec, Vec[list[c].v])

LEMMA KNNNearest ==
  ASSUME NEW list \in Seq(DataPoint), NEW vec \in Nat, NEW k \in Nat \ {0}
  PROVE  IF Len(list) < k THEN KNN(list, vec, k) = "error"
         ELSE KNN(list, vec, k) \in [1 .. k -> Nat] /\ \E of : Nearest(list, vec, k, of)
<1> DEFINE n == Len(list)
           found == KNN(list, vec, k)
           o == Offers(vec, list)
<1>1. PICK q \in Queue(k) :
         /\ Len(q) = IF n < k THEN n ELSE k
         /\ \E of : of \in Finding(q, o, n, k)
         /\ found = IF Len(q) < k THEN "error" ELSE PopAll(q)
  BY KNNFinds
<1>2. ASSUME NEW j \in 1 .. n
      PROVE  o[j].value = Vec[list[j].v] /\ o[j].prior = Dist(vec, Vec[list[j].v])
  <2>1. o[j] = Offer(vec, list[j]) /\ list[j] \in DataPoint
    BY DEF Offers
  <2> QED BY <2>1, OfferType
<1>3. n \in Nat
  OBVIOUS
<1> HIDE DEF found, o, n
<1>4. CASE n < k
  BY <1>1, <1>4 DEF n, found
<1>5. CASE ~ (n < k)
  <2>1. Len(q) = k /\ found = PopAll(q) /\ q \in Seq(Entries) /\ Sorted(q)
    BY <1>1, <1>3, <1>5 DEF Queue
  <2>2. PICK of : of \in Finding(q, o, n, k)
    BY <1>1
  <2>3. /\ of \in [1 .. k -> 1 .. n]
        /\ \A a, b \in 1 .. k : a # b => of[a] # of[b]
        /\ \A a \in 1 .. k : q[a] = o[of[a]]
        /\ \A c \in 1 .. n : (\A b \in 1 .. k : of[b] # c) =>
             \A a \in 1 .. k : q[a].prior <= o[c].prior
    BY <2>1, <2>2 DEF Finding
  <2>4. DOMAIN q = 1 .. k
    BY <2>1
  <2>5. ASSUME NEW a \in 1 .. k
        PROVE  found[a] = Vec[list[of[a]].v] /\ Dist(vec, found[a]) = q[a].prior
    <3>1. found[a] = q[a].value
      BY <2>1, <2>4 DEF PopAll
    <3>2. of[a] \in 1 .. n /\ q[a] = o[of[a]]
      BY <2>3
    <3>3. o[of[a]].value = Vec[list[of[a]].v] /\ o[of[a]].prior = Dist(vec, Vec[list[of[a]].v])
      BY <1>2, <3>2
    <3> QED BY <3>1, <3>2, <3>3
  <2>6. \A a, b \in 1 .. k : a < b => Dist(vec, found[a]) <= Dist(vec, found[b])
    BY <2>1, <2>4, <2>5 DEF Sorted
  <2>7. ASSUME NEW c \in 1 .. n, \A b \in 1 .. k : of[b] # c, NEW a \in 1 .. k
        PROVE  Dist(vec, found[a]) <= Dist(vec, Vec[list[c].v])
    <3>1. q[a].prior <= o[c].prior
      BY <2>3, <2>7
    <3> QED BY <1>2, <2>5, <3>1
  <2>8. Nearest(list, vec, k, of)
    BY <2>3, <2>5, <2>6, <2>7 DEF Nearest, found, n
  <2>9. found \in [1 .. k -> Nat]
    <3>1. \A a \in 1 .. k : q[a].value \in Nat
      <4>1. \A a \in 1 .. k : q[a] \in Entries
        BY <2>1, <2>4
      <4> QED BY <4>1 DEF Entries
    <3> QED BY <2>1, <2>4, <3>1 DEF PopAll
  <2> QED BY <1>5, <2>8, <2>9 DEF found, n
<1> QED BY <1>4, <1>5

(* The data points of a predictor.                                         *)
LEMMA PointsMeans ==
  ASSUME BruteInv
  PROVE  Points(data) \in Seq(DataPoint) /\ data.len = Len(Points(data))
<1>1. Points(data) = Walk(data.root) /\ data.root \in AllTrees /\ data.len = Len(Points(data))
  BY DEF BruteInv, Sound, Points, Walk
<1>2. Walk(data.root) \in Seq(Item)
  BY <1>1, WalkType
<1>3. \A a \in 1 .. Len(Walk(data.root)) : Walk(data.root)[a] \in DataPoint
  BY DEF BruteInv
<1>4. \A x \in Seq(Item) : (\A a \in 1 .. Len(x) : x[a] \in DataPoint) => x \in Seq(DataPoint)
  OBVIOUS
<1> QED BY <1>1, <1>2, <1>3, <1>4

(* A search always returns the nearest, when there are enough.             *)
THEOREM NearestFirst == Spec => []NearestFound
<1>1. ASSUME BruteInv PROVE NearestFound
  <2> DEFINE list == Points(data)
             n == Len(list)
             k == KNum
  <2>1. list \in Seq(DataPoint) /\ data.len = n
    BY <1>1, PointsMeans
  <2>2. n \in Nat /\ k \in Nat \ {0} /\ DOMAIN list = 1 .. n
    BY <2>1, BruteAssumption
  <2> SUFFICES ASSUME NEW vec \in Range(Vec)
               PROVE  LET found == KNN(list, vec, k) IN
                      IF data.len < k THEN found = "error"
                      ELSE /\ \A a, b \in 1 .. k :
                                a < b => Dist(vec, found[a]) <= Dist(vec, found[b])
                           /\ \E of \in [1 .. k -> DOMAIN list] :
                                /\ IsInjective(of)
                                /\ \A a \in 1 .. k : found[a] = Vec[list[of[a]].v]
                                /\ \A a \in 1 .. k, j \in DOMAIN list \ Range(of) :
                                     Dist(vec, found[a]) <= Dist(vec, Vec[list[j].v])
    BY DEF NearestFound
  <2>3. vec \in Nat
    BY BruteAssumption DEF Range
  <2> HIDE DEF list, k
  <2>4. CASE n < k
    BY <2>1, <2>2, <2>3, <2>4, KNNNearest DEF n
  <2>5. CASE ~ (n < k)
    <3>1. PICK of : Nearest(list, vec, k, of)
      BY <2>1, <2>2, <2>3, <2>5, KNNNearest
    <3>2. of \in [1 .. k -> DOMAIN list] /\ IsInjective(of)
      BY <2>2, <3>1 DEF Nearest, IsInjective
    <3>3. ASSUME NEW a \in 1 .. k, NEW j \in 1 .. n, j \notin Range(of)
          PROVE  Dist(vec, KNN(list, vec, k)[a]) <= Dist(vec, Vec[list[j].v])
      <4>1. \A b \in 1 .. k : of[b] # j
        BY <3>2, <3>3 DEF Range
      <4> QED BY <3>1, <4>1 DEF Nearest
    <3> QED BY <2>1, <2>2, <2>5, <3>1, <3>2, <3>3 DEF Nearest
  <2> QED BY <2>4, <2>5
<1> QED BY <1>1, BruteAlways, PTL

-----------------------------------------------------------------------------
(* Sums and products.                                                      *)

Positive == Nat \ {0}

(* f has the sums of the beginnings of s, as the loop of lrd.              *)
Sums(f, s) == /\ f \in [0 .. Len(s) -> Nat]
              /\ f[0] = 0
              /\ \A j \in 1 .. Len(s) : f[j] = f[j - 1] + s[j]

LEMMA SumMeans ==
  ASSUME NEW s \in Seq(Nat)
  PROVE  \E f : Sums(f, s) /\ SumOf(s) = f[Len(s)]
<1> DEFINE n == Len(s)
           S == [j \in 1 .. n |-> [x \in Nat |-> x + s[j]]]
           Body(g) == [j \in 0 .. n |-> IF j = 0 THEN 0 ELSE g[j - 1] + s[j]]
           sum == CHOOSE g : g = Body(g)
<1>1. n \in Nat /\ S \in Stages(n, Nat)
  BY DEF Stages
<1> HIDE DEF n
<1>2. PICK f \in [0 .. n -> Nat] : Runs(f, n, 0, S)
  <2> HIDE DEF S
  <2> QED BY <1>1, Iterate
<1>3. ASSUME NEW j \in 1 .. n PROVE f[j] = f[j - 1] + s[j]
  <2>1. j - 1 \in 0 .. n /\ f[j - 1] \in Nat
    BY <1>1, <1>2
  <2>2. f[j] = S[j][f[j - 1]]
    <3> HIDE DEF S
    <3> QED BY <1>2 DEF Runs
  <2> QED BY <2>1, <2>2
<1>4. f = Body(f)
  <2>1. f[0] = 0
    BY <1>2 DEF Runs
  <2>2. \A j \in 0 .. n : j # 0 => j \in 1 .. n
    BY <1>1
  <2> HIDE DEF S
  <2> QED BY <1>2, <1>3, <2>1, <2>2
<1>5. sum = Body(sum)
  <2> HIDE DEF Body
  <2> QED BY <1>4
<1> HIDE DEF sum
<1>6. /\ sum[0] = 0
      /\ \A j \in 1 .. n : sum[j] = sum[j - 1] + s[j]
  BY <1>1, <1>5
<1>7. \A j \in 0 .. n : sum[j] = f[j]
  <2> DEFINE Good == {j \in 0 .. n : sum[j] = f[j]}
  <2>1. 0 \in Good
    BY <1>1, <1>2, <1>6 DEF Runs
  <2>2. ASSUME NEW j \in Nat, j <= n => j \in Good PROVE j + 1 <= n => j + 1 \in Good
    <3> SUFFICES ASSUME j + 1 <= n PROVE j + 1 \in Good
      OBVIOUS
    <3>1. j + 1 \in 1 .. n /\ (j + 1) - 1 = j /\ j \in Good
      BY <1>1, <2>2
    <3> QED BY <1>3, <1>6, <3>1
  <2> DEFINE G == {j \in Nat : j <= n => j \in Good}
  <2>3. Nat \subseteq G
    <3>1. 0 \in G /\ \A j \in Nat : j \in G => j + 1 \in G
      <4> HIDE DEF Good
      <4> QED BY <2>1, <2>2
    <3> HIDE DEF G
    <3> QED BY <3>1, Successors
  <2> HIDE DEF Good
  <2>4. \A j \in 0 .. n : j \in Good
    BY <1>1, <2>3
  <2> QED BY <2>4 DEF Good
<1>8. SumOf(s) = sum[n]
  BY DEF SumOf, sum, n
<1>9. Sums(f, s)
  BY <1>2, <1>3 DEF Sums, Runs, n
<1> QED BY <1>1, <1>7, <1>8, <1>9 DEF n

LEMMA SumType == ASSUME NEW s \in Seq(Nat) PROVE SumOf(s) \in Nat
<1>1. PICK f : Sums(f, s) /\ SumOf(s) = f[Len(s)]
  BY SumMeans
<1> QED BY <1>1 DEF Sums

LEMMA SumZero ==
  ASSUME NEW s \in Seq(Nat), \A j \in 1 .. Len(s) : s[j] = 0
  PROVE  SumOf(s) = 0
<1>1. PICK f : Sums(f, s) /\ SumOf(s) = f[Len(s)]
  BY SumMeans
<1> DEFINE Good == {j \in 0 .. Len(s) : f[j] = 0}
<1>2. 0 \in Good
  BY <1>1 DEF Sums
<1>3. ASSUME NEW j \in 0 .. Len(s) - 1, j \in Good PROVE j + 1 \in Good
  <2>1. j + 1 \in 1 .. Len(s) /\ (j + 1) - 1 = j
    OBVIOUS
  <2> QED BY <1>1, <1>3, <2>1 DEF Sums
<1> HIDE DEF Good
<1>4. Len(s) \in Good
  BY <1>2, <1>3, Steadily
<1> QED BY <1>1, <1>4 DEF Good

(* Smaller terms, a smaller sum.                                           *)
LEMMA SumLess ==
  ASSUME NEW s \in Seq(Nat), NEW t \in Seq(Nat), Len(s) = Len(t), Len(s) # 0,
         \A j \in 1 .. Len(s) : s[j] < t[j]
  PROVE  SumOf(s) < SumOf(t)
<1>1. PICK f : Sums(f, s) /\ SumOf(s) = f[Len(s)]
  BY SumMeans
<1>2. PICK g : Sums(g, t) /\ SumOf(t) = g[Len(t)]
  BY SumMeans
<1> DEFINE n == Len(s)
           Good == {j \in 0 .. n : f[j] + j <= g[j]}
<1>3. n \in Nat /\ n # 0 /\ f \in [0 .. n -> Nat] /\ g \in [0 .. n -> Nat]
  BY <1>1, <1>2 DEF Sums
<1>4. 0 \in Good
  BY <1>1, <1>2 DEF Sums
<1>5. ASSUME NEW j \in 0 .. n - 1, j \in Good PROVE j + 1 \in Good
  <2>1. j + 1 \in 1 .. n /\ (j + 1) - 1 = j /\ s[j + 1] \in Nat /\ t[j + 1] \in Nat
    OBVIOUS
  <2>2. f[j + 1] = f[j] + s[j + 1] /\ g[j + 1] = g[j] + t[j + 1] /\ s[j + 1] < t[j + 1]
    BY <1>1, <1>2, <2>1 DEF Sums
  <2>3. j + 1 \in 0 .. n /\ j \in 0 .. n /\ f[j] + j <= g[j] /\ f[j] \in Nat /\ g[j] \in Nat
    BY <1>3, <1>5, <2>1
  <2> HIDE DEF n
  <2>4. \A x, y, a, b \in Nat : x + j <= y /\ a < b => (x + a) + (j + 1) <= y + b
    BY <1>3
  <2>5. (f[j] + s[j + 1]) + (j + 1) <= g[j] + t[j + 1]
    BY <2>1, <2>2, <2>3, <2>4
  <2> QED BY <2>2, <2>3, <2>5
<1> HIDE DEF Good, n
<1>6. n \in Good
  BY <1>3, <1>4, <1>5, Steadily
<1> QED BY <1>1, <1>2, <1>3, <1>6 DEF Good, n

(* A product of positive numbers is a multiple of each of them.            *)
LEMMA ProductMeans ==
  ASSUME NEW s \in Seq(Positive)
  PROVE  /\ Product(s) \in Positive
         /\ \A i \in 1 .. Len(s) : \E d \in Positive : Product(s) = s[i] * d
<1> DEFINE n == Len(s)
           S == [j \in 1 .. n |-> [x \in Positive |-> x * s[j]]]
           Body(g) == [j \in 0 .. n |-> IF j = 0 THEN 1 ELSE g[j - 1] * s[j]]
           product == CHOOSE g : g = Body(g)
<1>1. \A x, y \in Positive : x * y \in Positive
  BY DEF Positive
<1>2. n \in Nat /\ S \in Stages(n, Positive) /\ 1 \in Positive
  <2>1. \A j \in 1 .. n : s[j] \in Positive
    OBVIOUS
  <2>2. 1 \in Positive
    BY DEF Positive
  <2> QED BY <1>1, <2>1, <2>2 DEF Stages
<1> HIDE DEF n
<1>3. PICK f \in [0 .. n -> Positive] : Runs(f, n, 1, S)
  <2> HIDE DEF S
  <2> QED BY <1>2, Iterate
<1>4. ASSUME NEW j \in 1 .. n PROVE f[j] = f[j - 1] * s[j]
  <2>1. f[j] = S[j][f[j - 1]] /\ j - 1 \in 0 .. n
    BY <1>2, <1>3 DEF Runs
  <2> QED BY <2>1
<1>5. f = Body(f)
  <2>1. f[0] = 1
    BY <1>3 DEF Runs
  <2>2. \A j \in 0 .. n : j # 0 => j \in 1 .. n
    BY <1>2
  <2> HIDE DEF S
  <2> QED BY <1>3, <1>4, <2>1, <2>2
<1>6. product = Body(product)
  <2> HIDE DEF Body
  <2> QED BY <1>5
<1> HIDE DEF product
<1>7. /\ product[0] = 1
      /\ \A j \in 1 .. n : product[j] = product[j - 1] * s[j]
  BY <1>2, <1>6
<1> DEFINE Divides(j) == /\ product[j] \in Positive
                         /\ \A i \in 1 .. j : \E d \in Positive : product[j] = s[i] * d
           Good == {j \in 0 .. n : Divides(j)}
<1>8. 0 \in Good
  BY <1>2, <1>7
<1>9. ASSUME NEW j \in 0 .. n - 1, j \in Good PROVE j + 1 \in Good
  <2>1. j + 1 \in 1 .. n /\ (j + 1) - 1 = j /\ j + 1 \in 0 .. n
    BY <1>2
  <2>2. product[j + 1] = product[j] * s[j + 1] /\ s[j + 1] \in Positive
    BY <1>7, <2>1 DEF n
  <2>3. product[j] \in Positive /\ product[j + 1] \in Positive
    BY <1>1, <1>9, <2>2
  <2>4. ASSUME NEW i \in 1 .. j + 1 PROVE \E d \in Positive : product[j + 1] = s[i] * d
    <3>1. CASE i = j + 1
      <4>1. product[j + 1] = s[i] * product[j]
        BY <2>2, <2>3, <3>1 DEF Positive
      <4> QED BY <2>3, <4>1
    <3>2. CASE i # j + 1
      <4>1. i \in 1 .. j /\ s[i] \in Positive
        BY <2>1, <3>2 DEF n
      <4>2. PICK d \in Positive : product[j] = s[i] * d
        BY <1>9, <4>1
      <4>3. product[j + 1] = s[i] * (d * s[j + 1])
        <5>1. \A x, y, z \in Positive : (x * y) * z = x * (y * z)
          BY DEF Positive
        <5> QED BY <2>2, <4>1, <4>2, <5>1
      <4> QED BY <1>1, <2>2, <4>3
    <3> QED BY <3>1, <3>2
  <2> QED BY <2>1, <2>3, <2>4
<1> HIDE DEF Good
<1>10. n \in Good
  BY <1>2, <1>8, <1>9, Steadily
<1>11. Product(s) = product[n]
  BY DEF Product, product, n
<1> QED BY <1>10, <1>11 DEF Good, n

LEMMA TimesMore ==
  ASSUME NEW x \in Nat, NEW y \in Nat, NEW d \in Nat, y >= x + 1
  PROVE  y * d >= x * d + d
<1> DEFINE z == y - (x + 1)
<1>1. z \in Nat /\ y = (x + 1) + z
  OBVIOUS
<1> HIDE DEF z
<1>2. y * d = (x * d + d) + z * d
  BY <1>1
<1>3. z * d \in Nat /\ x * d + d \in Nat
  BY <1>1
<1> QED BY <1>2, <1>3

LEMMA Quotient ==
  ASSUME NEW x \in Positive, NEW d \in Positive
  PROVE  (x * d) \div x = d
<1> DEFINE q == (x * d) \div x
<1>1. q \in Int /\ x * q <= x * d /\ x * d < x * q + x
  BY SMTT(30) DEF Positive
<1> HIDE DEF q
<1>2. ~ (q >= d + 1)
  <2>1. q >= d + 1 => x * q >= x * (d + 1)
    BY <1>1 DEF Positive
  <2>2. x * (d + 1) = x * d + x
    BY DEF Positive
  <2> QED BY <1>1, <2>1, <2>2 DEF Positive
<1>3. ~ (q + 1 <= d)
  <2>1. q + 1 <= d => x * (q + 1) <= x * d
    BY <1>1 DEF Positive
  <2>2. x * (q + 1) = x * q + x
    BY <1>1 DEF Positive
  <2> QED BY <1>1, <2>1, <2>2 DEF Positive
<1>4. q = d
  BY <1>1, <1>2, <1>3 DEF Positive
<1> QED BY <1>4 DEF q

(* When the sum of a vector is greater than that of each of its            *)
(* neighbours, the quotient exceeds one.                                   *)
LEMMA FarIsDenser ==
  ASSUME NEW r \in Nat, NEW s \in Seq(Positive), Len(s) = KNum,
         \A i \in 1 .. Len(s) : s[i] < r
  PROVE  Denser(r, s)
<1> DEFINE n == Len(s)
           P == Product(s)
           q == [i \in 1 .. n |-> P \div s[i]]
<1>1. n \in Nat \ {0} /\ n = KNum /\ DOMAIN s = 1 .. n
  BY BruteAssumption
<1>2. P \in Positive
  BY ProductMeans
<1>3. ASSUME NEW i \in 1 .. n
      PROVE  q[i] \in Positive /\ P = s[i] * q[i] /\ s[i] \in Positive
  <2>1. s[i] \in Positive
    OBVIOUS
  <2>2. PICK d \in Positive : P = s[i] * d
    BY ProductMeans
  <2>3. P \div s[i] = d
    <3> HIDE DEF P
    <3> QED BY <2>1, <2>2, Quotient
  <2> HIDE DEF P
  <2> QED BY <2>1, <2>2, <2>3
<1> HIDE DEF P
<1>4. q \in Seq(Nat) /\ Len(q) = n
  <2>1. \A i \in 1 .. n : P \div s[i] \in Nat
    BY <1>3 DEF Positive
  <2> HIDE DEF n
  <2> QED BY <1>1, <2>1
<1> HIDE DEF q
<1>5. ASSUME NEW i \in 1 .. n PROVE r * q[i] >= P + 1
  <2>1. r >= s[i] + 1 /\ q[i] \in Positive /\ s[i] \in Positive /\ P = s[i] * q[i]
    BY <1>3 DEF Positive
  <2>2. r * q[i] >= s[i] * q[i] + q[i]
    BY <2>1, TimesMore DEF Positive
  <2>3. q[i] \in Int /\ q[i] >= 1 /\ r * q[i] \in Int /\ P \in Int
    BY <1>2, <2>1 DEF Positive
  <2>4. r * q[i] >= P + q[i]
    BY <2>1, <2>2
  <2> QED BY <2>3, <2>4
<1>6. PICK f : Sums(f, q) /\ SumOf(q) = f[n]
  BY <1>4, SumMeans
<1> DEFINE Good == {j \in 0 .. n : r * f[j] >= j * (P + 1)}
<1>7. f \in [0 .. n -> Nat] /\ f[0] = 0 /\ \A j \in 1 .. n : f[j] = f[j - 1] + q[j]
  BY <1>4, <1>6 DEF Sums
<1> HIDE DEF n
<1>8. 0 \in Good
  BY <1>1, <1>2, <1>7 DEF Positive
<1>9. ASSUME NEW j \in 0 .. n - 1, j \in Good PROVE j + 1 \in Good
  <2>1. j + 1 \in 1 .. n /\ (j + 1) - 1 = j /\ j + 1 \in 0 .. n /\ j \in 0 .. n
    BY <1>1
  <2>2. f[j + 1] = f[j] + q[j + 1] /\ f[j] \in Nat /\ q[j + 1] \in Nat
    BY <1>3, <1>7, <2>1 DEF Positive
  <2>3. r * f[j + 1] = r * f[j] + r * q[j + 1]
    BY <2>2
  <2>4. (j + 1) * (P + 1) = j * (P + 1) + (P + 1)
    BY <1>2 DEF Positive
  <2>5. r * f[j] >= j * (P + 1) /\ r * q[j + 1] >= P + 1
    BY <1>5, <1>9, <2>1
  <2>6. r * f[j] \in Int /\ r * q[j + 1] \in Int /\ j * (P + 1) \in Int /\ P + 1 \in Int
    BY <1>2, <2>2 DEF Positive
  <2>7. r * f[j + 1] >= (j + 1) * (P + 1)
    BY <2>3, <2>4, <2>5, <2>6
  <2> QED BY <2>1, <2>7
<1> HIDE DEF Good
<1>10. n \in Good
  BY <1>1, <1>8, <1>9, Steadily
<1>11. r * f[n] >= n * (P + 1)
  BY <1>10 DEF Good
<1>12. n * (P + 1) > n * P
  BY <1>1, <1>2 DEF Positive
<1>13. r * f[n] \in Int /\ n * (P + 1) \in Int /\ n * P \in Int
  BY <1>1, <1>2, <1>7 DEF Positive
<1>14. r * f[n] > n * P
  BY <1>11, <1>12, <1>13
<1> QED BY <1>1, <1>6, <1>14 DEF Denser, q, P

-----------------------------------------------------------------------------
(* The verdict.                                                            *)

LEMMA DistMeans ==
  \A a, b \in Nat : /\ Dist(a, b) \in Nat
                    /\ Dist(a, b) = 0 <=> a = b
BY DEF Dist

(* What is stored, as vectors.                                             *)
LEMMA VectorsType ==
  ASSUME NEW list \in Seq(DataPoint)
  PROVE  /\ Vectors(list) \in [1 .. Len(list) -> Nat]
         /\ \A j \in 1 .. Len(list) : Vectors(list)[j] = Vec[list[j].v]
<1>1. \A j \in 1 .. Len(list) : Vec[list[j].v] \in Nat
  <2> TAKE j \in 1 .. Len(list)
  <2>1. list[j] \in DataPoint
    OBVIOUS
  <2> QED BY <2>1, BruteAssumption DEF DataPoint
<1> QED BY <1>1 DEF Vectors

(* A search finds vectors that are stored.                                 *)
LEMMA FoundStored ==
  ASSUME NEW list \in Seq(DataPoint), NEW vec \in Nat, NEW k \in Nat \ {0}, k <= Len(list)
  PROVE  /\ KNN(list, vec, k) \in [1 .. k -> Nat]
         /\ \A a \in 1 .. k : \E c \in 1 .. Len(list) : KNN(list, vec, k)[a] = Vectors(list)[c]
<1>1. ~ (Len(list) < k)
  OBVIOUS
<1>2. PICK of : Nearest(list, vec, k, of)
  BY <1>1, KNNNearest
<1>3. ASSUME NEW a \in 1 .. k
      PROVE  of[a] \in 1 .. Len(list) /\ KNN(list, vec, k)[a] = Vectors(list)[of[a]]
  <2>1. of[a] \in 1 .. Len(list) /\ KNN(list, vec, k)[a] = Vec[list[of[a]].v]
    BY <1>2 DEF Nearest
  <2> QED BY <2>1, VectorsType
<1> QED BY <1>1, <1>3, KNNNearest

(* There are enough data points for every search of a verdict.             *)
Enough(list) == KNum >= 3 /\ KNum <= Len(list)

(* The terms of the sum in lrd.                                            *)
LEMMA RSumMeans ==
  ASSUME NEW list \in Seq(DataPoint), NEW vec \in Nat, Enough(list)
  PROVE  \E t \in Seq(Nat) :
           /\ Len(t) = KNum /\ RSum(list, vec) = SumOf(t)
           /\ \A a \in 1 .. KNum :
                /\ t[a] \in {KDistance(list, vec), Dist(vec, KNN(list, vec, KNum)[a])}
                /\ t[a] >= Dist(vec, KNN(list, vec, KNum)[a])
<1> DEFINE kd == KDistance(list, vec)
           nn == KNN(list, vec, KNum)
           Reach(x) == IF kd > Dist(vec, x) THEN kd ELSE Dist(vec, x)
           t == [j \in DOMAIN nn |-> Reach(nn[j])]
<1>1. KNum \in Nat \ {0} /\ 3 <= Len(list) /\ KNum <= Len(list) /\ Len(list) \in Nat
  BY BruteAssumption DEF Enough
<1>2. nn \in [1 .. KNum -> Nat]
  BY <1>1, FoundStored
<1>3. kd \in Nat
  <2>1. KNN(list, vec, 3) \in [1 .. 3 -> Nat] /\ 1 \in 1 .. 3
    <3>1. 3 \in Nat \ {0} /\ 3 <= Len(list) /\ 1 \in 1 .. 3
      BY <1>1
    <3> QED BY <3>1, FoundStored
  <2>2. KNN(list, vec, 3)[1] \in Nat
    BY <2>1
  <2> QED BY <2>2, DistMeans DEF KDistance
<1>4. RSum(list, vec) = SumOf(t)
  BY DEF RSum
<1> HIDE DEF kd, nn
<1>5. ASSUME NEW a \in 1 .. KNum
      PROVE  /\ t[a] \in Nat /\ t[a] \in {kd, Dist(vec, nn[a])}
             /\ t[a] >= Dist(vec, nn[a])
  <2>1. nn[a] \in Nat /\ a \in DOMAIN nn
    BY <1>2
  <2>2. Dist(vec, nn[a]) \in Nat
    BY <2>1, DistMeans
  <2>3. t[a] = IF kd > Dist(vec, nn[a]) THEN kd ELSE Dist(vec, nn[a])
    BY <2>1
  <2> HIDE DEF t
  <2> QED BY <1>3, <2>2, <2>3
<1>6. t \in Seq(Nat) /\ Len(t) = KNum
  <2>1. t = [j \in 1 .. KNum |-> t[j]]
    BY <1>2
  <2> HIDE DEF t
  <2>2. t \in [1 .. KNum -> Nat]
    BY <1>5, <2>1
  <2>3. t \in Seq(Nat)
    BY <1>1, <2>2
  <2> QED BY <1>1, <2>2, <2>3
<1> HIDE DEF t
<1> QED BY <1>4, <1>5, <1>6 DEF kd, nn

LEMMA RSumType ==
  ASSUME NEW list \in Seq(DataPoint), NEW vec \in Nat, Enough(list)
  PROVE  RSum(list, vec) \in Nat
BY RSumMeans, SumType

(* The verdict of enough data points.                                      *)
LEMMA PredictMeans ==
  ASSUME NEW list \in Seq(DataPoint), NEW vec \in Nat, Enough(list),
         data.len = Len(list), ~ (data.len < SkipItems)
  PROVE  LET nn == KNN(list, vec, KNum) IN
         Predict(list, vec) =
           IF Exceeds(RSum(list, vec), [j \in DOMAIN nn |-> RSum(list, nn[j])])
           THEN "outlier" ELSE "normal"
<1>1. ~ (data.len = 0 \/ data.len < SkipItems \/ KNum < MinKNum \/ Fails(list))
  BY BruteAssumption DEF Enough, MinKNum, Fails
<1> QED BY <1>1 DEF Predict

LEMMA FarVerdict ==
  ASSUME NEW list \in Seq(DataPoint), NEW vec \in Nat, Enough(list),
         data.len = Len(list), ~ (data.len < SkipItems)
  PROVE  FarIsOutlier(list, vec)
<1> DEFINE v == Vectors(list)
           n == Len(list)
           nn == KNN(list, vec, KNum)
           r == RSum(list, vec)
           s == [j \in DOMAIN nn |-> RSum(list, nn[j])]
<1>1. /\ KNum \in Nat \ {0} /\ 3 <= n /\ KNum <= n /\ n \in Nat
      /\ v \in [1 .. n -> Nat] /\ DOMAIN v = 1 .. n
  BY BruteAssumption, VectorsType DEF Enough
<1> SUFFICES ASSUME \A j \in 1 .. n : \A d \in Diameter(v) : Dist(vec, v[j]) > d
             PROVE  Predict(list, vec) = "outlier"
  BY <1>1 DEF FarIsOutlier
<1>2. ASSUME NEW a \in 1 .. n, NEW b \in 1 .. n, NEW c \in 1 .. n
      PROVE  Dist(v[a], v[b]) < Dist(vec, v[c])
  <2>1. Dist(v[a], v[b]) \in Diameter(v)
    BY <1>1 DEF Diameter
  <2>2. Dist(v[a], v[b]) \in Nat /\ Dist(vec, v[c]) \in Nat
    BY <1>1, DistMeans
  <2> QED BY <2>1, <2>2
<1> HIDE DEF v, n
<1>3. nn \in [1 .. KNum -> Nat] /\ \A a \in 1 .. KNum : \E c \in 1 .. n : nn[a] = v[c]
  BY <1>1, FoundStored DEF v, n
(* The sum of a vector that is stored.                                     *)
<1>4. ASSUME NEW e \in 1 .. n PROVE RSum(list, v[e]) \in Nat /\ RSum(list, v[e]) < r
  <2> DEFINE y == v[e]
  <2>1. y \in Nat
    BY <1>1
  <2>2. PICK t \in Seq(Nat) :
           /\ Len(t) = KNum /\ r = SumOf(t)
           /\ \A a \in 1 .. KNum : t[a] >= Dist(vec, nn[a])
    BY RSumMeans
  <2> HIDE DEF y, nn, r
  <2>3. PICK u \in Seq(Nat) :
           /\ Len(u) = KNum /\ RSum(list, y) = SumOf(u)
           /\ \A a \in 1 .. KNum : u[a] \in {KDistance(list, y), Dist(y, KNN(list, y, KNum)[a])}
    BY <2>1, RSumMeans
  <2>4. \E c \in 1 .. n : KDistance(list, y) = Dist(y, v[c])
    <3>1. 1 \in 1 .. 3 /\ 3 \in Nat \ {0} /\ 3 <= Len(list)
      BY <1>1 DEF n
    <3>2. \E c \in 1 .. n : KNN(list, y, 3)[1] = v[c]
      BY <2>1, <3>1, FoundStored DEF v, n
    <3> QED BY <3>2 DEF KDistance
  <2>5. \A a \in 1 .. KNum : \E c \in 1 .. n : KNN(list, y, KNum)[a] = v[c]
    BY <1>1, <2>1, FoundStored DEF v, n
  <2>6. ASSUME NEW a \in 1 .. KNum PROVE u[a] < t[a]
    <3>1. PICK c \in 1 .. n : u[a] = Dist(y, v[c])
      BY <2>3, <2>4, <2>5
    <3>2. PICK d \in 1 .. n : nn[a] = v[d]
      BY <1>3
    <3>3. u[a] < Dist(vec, nn[a])
      BY <1>2, <3>1, <3>2 DEF y
    <3>4. u[a] \in Nat /\ t[a] \in Nat /\ t[a] >= Dist(vec, nn[a]) /\ Dist(vec, nn[a]) \in Nat
      <4>1. Dist(vec, nn[a]) \in Nat
        BY <1>3, DistMeans
      <4>2. u[a] \in Nat /\ t[a] \in Nat
        BY <1>1, <2>2, <2>3, SMTT(30)
      <4> QED BY <2>2, <4>1, <4>2, SMTT(30)
    <3> QED BY <3>3, <3>4, SMTT(30)
  <2>7. SumOf(u) < SumOf(t)
    BY <1>1, <2>2, <2>3, <2>6, SumLess
  <2>8. SumOf(u) \in Nat
    BY SumType
  <2> QED BY <2>2, <2>3, <2>7, <2>8 DEF y
<1>5. r \in Nat
  BY RSumType
<1> HIDE DEF nn, r
<1>6. ASSUME NEW j \in 1 .. KNum PROVE s[j] \in Nat /\ s[j] < r
  <2>1. PICK c \in 1 .. n : nn[j] = v[c]
    BY <1>3
  <2>2. s[j] = RSum(list, v[c])
    BY <1>3, <2>1
  <2> HIDE DEF s
  <2> QED BY <1>4, <2>2
<1>7. s \in Seq(Nat) /\ Len(s) = KNum /\ DOMAIN s = 1 .. KNum
  <2>1. s = [j \in 1 .. KNum |-> s[j]]
    BY <1>3
  <2> HIDE DEF s
  <2>2. s \in [1 .. KNum -> Nat]
    BY <1>6, <2>1
  <2> QED BY <1>1, <2>2
<1> HIDE DEF s
<1>8. r > 0
  <2>1. s[1] \in Nat /\ s[1] < r
    BY <1>1, <1>6
  <2> QED BY <1>5, <2>1
<1>9. Exceeds(r, s)
  <2>1. CASE \E i \in DOMAIN s : s[i] = 0
    BY <1>8, <2>1 DEF Exceeds
  <2>2. CASE \A i \in DOMAIN s : s[i] # 0
    <3>1. s \in Seq(Positive)
      BY <1>7, <2>2 DEF Positive
    <3>2. Denser(r, s)
      BY <1>5, <1>6, <1>7, <3>1, FarIsDenser
    <3> QED BY <1>8, <3>2 DEF Exceeds
  <2> QED BY <2>1, <2>2
<1> QED BY <1>9, PredictMeans DEF nn, r, s

(* A vector that is stored k times: its k nearest are at distance zero.    *)
LEMMA RepeatedFound ==
  ASSUME NEW list \in Seq(DataPoint), NEW vec \in Nat, NEW k \in Nat \ {0}, k <= Len(list),
         k <= Copies(Vectors(list), vec)
  PROVE  \A a \in 1 .. k : Dist(vec, KNN(list, vec, k)[a]) = 0
<1> DEFINE n == Len(list)
           v == Vectors(list)
           found == KNN(list, vec, k)
           C == {j \in DOMAIN v : v[j] = vec}
<1>1. n \in Nat /\ v \in [1 .. n -> Nat] /\ \A j \in 1 .. n : v[j] = Vec[list[j].v]
  BY VectorsType
<1>2. found \in [1 .. k -> Nat] /\ ~ (n < k)
  <2>1. found \in [1 .. k -> Nat]
    BY FoundStored
  <2>2. ~ (n < k)
    OBVIOUS
  <2> QED BY <2>1, <2>2
<1>3. PICK of : Nearest(list, vec, k, of)
  BY <1>2, KNNNearest
<1> SUFFICES ASSUME NEW a \in 1 .. k, Dist(vec, found[a]) # 0 PROVE FALSE
  OBVIOUS
<1> HIDE DEF n, v, found
<1>4. /\ of \in [1 .. k -> 1 .. n]
      /\ found[a] = v[of[a]]
      /\ \A c \in 1 .. n : (\A b \in 1 .. k : of[b] # c) => Dist(vec, found[a]) <= Dist(vec, v[c])
  BY <1>1, <1>3 DEF Nearest, n, v, found
<1> DEFINE S == {of[b] : b \in (1 .. k) \ {a}}
<1>5. C \subseteq S
  <2> SUFFICES ASSUME NEW c \in 1 .. n, v[c] = vec PROVE c \in S
    BY <1>1
  <2>1. Dist(vec, v[c]) = 0 /\ found[a] # vec
    BY <1>2, DistMeans
  <2>2. Dist(vec, found[a]) \in Nat
    BY <1>2, DistMeans, ZenonT(60)
  <2>3. PICK b \in 1 .. k : of[b] = c
    BY <1>4, <2>1, <2>2
  <2>4. b # a
    BY <1>4, <2>1, <2>3, SMTT(30)
  <2> QED BY <2>3, <2>4
<1>6. IsFiniteSet(S) /\ Cardinality(S) <= k - 1
  <2>1. IsFiniteSet(1 .. k) /\ Cardinality(1 .. k) = k
    BY FS_Interval
  <2>2. IsFiniteSet((1 .. k) \ {a}) /\ Cardinality((1 .. k) \ {a}) = k - 1
    BY <2>1, FS_RemoveElement, ZenonT(60)
  <2>3. IsFiniteSet(S) /\ Cardinality(S) <= Cardinality((1 .. k) \ {a})
    <3> DEFINE K == (1 .. k) \ {a}
               f == [b \in K |-> of[b]]
    <3>1. f \in Surjection(K, S)
      BY DEF Surjection
    <3> HIDE DEF f, S, K
    <3> QED BY <2>2, <3>1, FS_Surjection DEF K
  <2> QED BY <2>2, <2>3
<1>7. IsFiniteSet(C) /\ Cardinality(C) <= k - 1
  <2>1. IsFiniteSet(C) /\ Cardinality(C) <= Cardinality(S)
    BY <1>5, <1>6, FS_Subset
  <2>2. Cardinality(C) \in Nat /\ Cardinality(S) \in Nat
    BY <1>6, <2>1, FS_CardinalityType
  <2> QED BY <1>6, <2>1, <2>2
<1>8. k <= Cardinality(C) /\ Cardinality(C) \in Nat
  BY <1>7, FS_CardinalityType DEF Copies, v
<1> QED BY <1>7, <1>8

LEMMA RepeatedVerdict ==
  ASSUME NEW list \in Seq(DataPoint), NEW vec \in Nat, Enough(list),
         data.len = Len(list), ~ (data.len < SkipItems)
  PROVE  RepeatedIsNormal(list, vec)
<1> SUFFICES ASSUME Copies(Vectors(list), vec) >= KNum
             PROVE  Predict(list, vec) = "normal"
  BY DEF RepeatedIsNormal
<1>1. KNum \in Nat \ {0} /\ 3 <= KNum /\ KNum <= Len(list) /\ Len(list) \in Nat
  BY BruteAssumption DEF Enough
<1>2. Copies(Vectors(list), vec) \in Nat
  <2>1. IsFiniteSet({j \in DOMAIN Vectors(list) : Vectors(list)[j] = vec})
    <3>1. IsFiniteSet(1 .. Len(list)) /\ DOMAIN Vectors(list) = 1 .. Len(list)
      BY <1>1, FS_Interval, VectorsType
    <3> QED BY <3>1, FS_Subset
  <2> QED BY <2>1, FS_CardinalityType DEF Copies
<1>3. \A a \in 1 .. KNum : Dist(vec, KNN(list, vec, KNum)[a]) = 0
  BY <1>1, <1>2, RepeatedFound
<1>4. KDistance(list, vec) = 0
  <2>1. 3 \in Nat \ {0} /\ 3 <= Len(list) /\ 3 <= Copies(Vectors(list), vec) /\ 1 \in 1 .. 3
    BY <1>1, <1>2
  <2>2. Dist(vec, KNN(list, vec, 3)[1]) = 0
    BY <2>1, RepeatedFound
  <2> QED BY <2>2 DEF KDistance
<1>5. RSum(list, vec) = 0
  <2>1. PICK t \in Seq(Nat) :
           /\ Len(t) = KNum /\ RSum(list, vec) = SumOf(t)
           /\ \A a \in 1 .. KNum :
                t[a] \in {KDistance(list, vec), Dist(vec, KNN(list, vec, KNum)[a])}
    BY RSumMeans
  <2>2. \A a \in 1 .. Len(t) : t[a] = 0
    BY <1>3, <1>4, <2>1
  <2> QED BY <2>1, <2>2, SumZero
<1>6. \A s : ~ Exceeds(0, s)
  BY DEF Exceeds
<1> QED BY <1>5, <1>6, PredictMeans

(* Of all queries, and for any data points and options: a vector that is   *)
(* far from what is stored is an outlier, one that is stored KNum times is *)
(* not, and there is a verdict as soon as there are enough points.         *)
THEOREM VerdictIsRight == Spec => []LofVerdict
<1>1. ASSUME BruteInv PROVE LofVerdict
  <2> DEFINE list == Points(data)
  <2>1. list \in Seq(DataPoint) /\ data.len = Len(list)
    BY <1>1, PointsMeans
  <2> SUFFICES ASSUME NEW vec \in Query
               PROVE  IF KNum < MinKNum \/ data.len < KNum \/ data.len < SkipItems
                      THEN Predict(list, vec) = "error"
                      ELSE FarIsOutlier(list, vec) /\ RepeatedIsNormal(list, vec)
    BY DEF LofVerdict
  <2> HIDE DEF list
  <2>2. vec \in Nat /\ KNum \in Nat \ {0}
    BY LofAssumption, BruteAssumption
  <2>3. CASE KNum < MinKNum \/ data.len < KNum \/ data.len < SkipItems
    <3>1. data.len = 0 \/ data.len < SkipItems \/ KNum < MinKNum \/ Fails(list)
      BY <2>1, <2>3 DEF Fails
    <3> QED BY <2>3, <3>1 DEF Predict
  <2>4. CASE ~ (KNum < MinKNum \/ data.len < KNum \/ data.len < SkipItems)
    <3>1. Enough(list)
      BY <2>1, <2>2, <2>4 DEF Enough, MinKNum
    <3> QED BY <2>1, <2>2, <2>4, <3>1, FarVerdict, RepeatedVerdict
  <2> QED BY <2>3, <2>4
<1> QED BY <1>1, BruteAlways, PTL
=============================================================================
