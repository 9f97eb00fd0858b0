---------------------------- MODULE KDTreeProofs ----------------------------
(* Proofs about pkg/kdtree, for every set of data points, every number of  *)
(* dimensions and every query: inserting and building keep it a k-d tree   *)
(* of the stored points, and a search finds the nearest of them.           *)
EXTENDS KDTree, FiniteSetTheorems, SequenceTheorems, WellFoundedInduction, TLAPS

-----------------------------------------------------------------------------
(* Induction over the natural numbers.                                     *)

(* A set that holds 0 and the successor of each of its numbers holds all   *)
(* of them: in the smallest interval 0 .. k with a number outside it, k is *)
(* that number, and k - 1 is another.                                      *)
LEMMA Successors ==
  ASSUME NEW Good, 0 \in Good, \A n \in Nat : n \in Good => n + 1 \in Good
  PROVE  Nat \subseteq Good
<1> SUFFICES ASSUME NEW m \in Nat, m \notin Good PROVE FALSE
  OBVIOUS
<1> DEFINE S == 0 .. m
           Bad == {k \in S : k \notin Good}
           T == {D \in SUBSET S : \E k \in Bad : D = 0 .. k}
<1>1. IsWellFoundedOn(StrictSubsetOrdering(S), FiniteSubsetsOf(S))
  BY FS_StrictSubsetOrderingWellFounded
<1>2. T \subseteq FiniteSubsetsOf(S)
  <2>1. IsFiniteSet(S)
    BY FS_Interval
  <2> QED BY <2>1, FS_Subset DEF FiniteSubsetsOf
<1>3. S \in T
  BY DEF T
<1>4. PICK D \in T : \A E \in T : <<E, D>> \notin StrictSubsetOrdering(S)
  <2> HIDE DEF T
  <2> QED BY <1>1, <1>2, <1>3, WFMin
<1>5. PICK k \in Bad : D = 0 .. k
  BY <1>4
<1>6. k # 0 /\ k - 1 \in Nat /\ k - 1 \in S
  OBVIOUS
<1>7. k - 1 \in Bad
  BY <1>6
<1>8. 0 .. (k - 1) \in T
  BY <1>6, <1>7
<1>9. <<0 .. (k - 1), D>> \in StrictSubsetOrdering(S)
  <2>1. 0 .. (k - 1) \subseteq D /\ 0 .. (k - 1) # D
    <3>1. k \in 0 .. k /\ k \notin 0 .. (k - 1)
      BY <1>6
    <3> QED BY <1>5, <1>6, <3>1
  <2>2. 0 .. (k - 1) \in SUBSET S /\ D \in SUBSET S
    BY <1>4, <1>8 DEF T
  <2> QED BY <2>1, <2>2 DEF StrictSubsetOrdering
<1> QED BY <1>4, <1>8, <1>9

-----------------------------------------------------------------------------
(* Places.                                                                 *)

Side == {"left", "right"}
Place == Seq(Side)

(* What it means to be at or below a place. *)
LEMMA PrefixMeans ==
  ASSUME NEW s \in Place, NEW t \in Place
  PROVE  IsPrefix(s, t) <=> /\ Len(s) <= Len(t)
                            /\ \A n \in 1 .. Len(s) : s[n] = t[n]
<1> USE DEF Place
<1>1. ASSUME Len(s) <= Len(t)
      PROVE  SubSeq(s, 1, Len(s)) = SubSeq(t, 1, Len(s))
               <=> \A n \in 1 .. Len(s) : s[n] = t[n]
  <2>1. Len(s) \in Nat /\ Len(t) \in Nat
    OBVIOUS
  <2>2. SubSeq(s, 1, Len(s)) = [n \in 1 .. Len(s) |-> s[n]]
    BY <2>1
  <2>3. SubSeq(t, 1, Len(s)) = [n \in 1 .. Len(s) |-> t[n]]
    BY <2>1, <1>1
  <2> QED BY <2>2, <2>3
<1> QED BY <1>1 DEF IsPrefix

LEMMA PrefixOrder ==
  ASSUME NEW s \in Place, NEW t \in Place, NEW u \in Place
  PROVE  /\ IsPrefix(s, s)
         /\ IsPrefix(s, t) /\ IsPrefix(t, u) => IsPrefix(s, u)
         /\ IsPrefix(s, t) => s = t \/ Len(s) < Len(t)
         /\ IsPrefix(s, t) /\ Len(s) = Len(t) => s = t
         /\ IsPrefix(s, t) /\ IsPrefix(t, s) => s = t
<1>1. IsPrefix(s, s)
  BY PrefixMeans
<1>2. IsPrefix(s, t) /\ IsPrefix(t, u) => IsPrefix(s, u)
  BY PrefixMeans DEF Place
<1>3. IsPrefix(s, t) => s = t \/ Len(s) < Len(t)
  <2> SUFFICES ASSUME IsPrefix(s, t), ~(Len(s) < Len(t)) PROVE s = t
    OBVIOUS
  <2>1. Len(s) = Len(t) /\ \A n \in 1 .. Len(s) : s[n] = t[n]
    BY PrefixMeans DEF Place
  <2> QED BY <2>1, SeqEqual DEF Place
<1>4. IsPrefix(s, t) /\ Len(s) = Len(t) => s = t
  BY <1>3 DEF Place
<1>5. IsPrefix(s, t) /\ IsPrefix(t, s) => s = t
  BY <1>3, PrefixMeans DEF Place
<1> QED BY <1>1, <1>2, <1>3, <1>4, <1>5

(* Below one side of a place. *)
LEMMA BelowSide ==
  ASSUME NEW s \in Place, NEW t \in Place, NEW a \in Side
  PROVE  /\ Append(s, a) \in Place
         /\ Len(Append(s, a)) = Len(s) + 1
         /\ IsPrefix(s, Append(s, a)) /\ s # Append(s, a)
         /\ IsPrefix(Append(s, a), t) <=> /\ IsPrefix(s, t)
                                          /\ Len(s) < Len(t)
                                          /\ t[Len(s) + 1] = a
         /\ IsPrefix(Append(s, a), t) => s # t
<1> DEFINE p == Append(s, a)
<1>1. /\ p \in Place /\ Len(p) = Len(s) + 1
      /\ \A n \in 1 .. Len(s) : p[n] = s[n]
      /\ p[Len(s) + 1] = a
      /\ Len(s) \in Nat /\ Len(t) \in Nat
  BY AppendProperties, LenProperties DEF Place
<1> HIDE DEF p
<1>2. IsPrefix(s, p) /\ s # p
  <2>1. IsPrefix(s, p)
    BY <1>1, PrefixMeans
  <2> QED BY <1>1, <2>1
<1>3. ASSUME IsPrefix(p, t)
      PROVE  IsPrefix(s, t) /\ Len(s) < Len(t) /\ t[Len(s) + 1] = a
  <2>1. /\ Len(s) + 1 <= Len(t)
        /\ \A n \in 1 .. Len(s) + 1 : p[n] = t[n]
    BY <1>1, <1>3, PrefixMeans
  <2>2. \A n \in 1 .. Len(s) : s[n] = t[n]
    BY <1>1, <2>1
  <2>3. t[Len(s) + 1] = a
    BY <1>1, <2>1
  <2> QED BY <1>1, <2>1, <2>2, <2>3, PrefixMeans
<1>4. ASSUME IsPrefix(s, t), Len(s) < Len(t), t[Len(s) + 1] = a
      PROVE  IsPrefix(p, t)
  <2>1. \A n \in 1 .. Len(s) : s[n] = t[n]
    BY <1>4, PrefixMeans
  <2>2. \A n \in 1 .. Len(p) : p[n] = t[n]
    BY <1>1, <1>4, <2>1
  <2>3. Len(p) <= Len(t)
    BY <1>1, <1>4
  <2> QED BY <1>1, <2>2, <2>3, PrefixMeans
<1> QED BY <1>1, <1>2, <1>3, <1>4 DEF p

(* What is at or below a place is there, or below one of its two sides,    *)
(* and is not below both.                                                  *)
LEMMA BelowPlace ==
  ASSUME NEW s \in Place, NEW t \in Place
  PROVE  /\ IsPrefix(s, t) => \/ s = t
                              \/ IsPrefix(Append(s, "left"), t)
                              \/ IsPrefix(Append(s, "right"), t)
         /\ ~ (IsPrefix(Append(s, "left"), t) /\ IsPrefix(Append(s, "right"), t))
<1>1. ASSUME IsPrefix(s, t), s # t
      PROVE  IsPrefix(Append(s, "left"), t) \/ IsPrefix(Append(s, "right"), t)
  <2>1. Len(s) < Len(t)
    BY <1>1, PrefixOrder
  <2>2. t[Len(s) + 1] \in Side
    BY <2>1 DEF Place
  <2> QED BY <1>1, <2>1, <2>2, BelowSide DEF Side
<1>2. ~ (IsPrefix(Append(s, "left"), t) /\ IsPrefix(Append(s, "right"), t))
  BY BelowSide DEF Side
<1> QED BY <1>1, <1>2

(* Above one side of a place. *)
LEMMA AboveSide ==
  ASSUME NEW s \in Place, NEW t \in Place, NEW a \in Side
  PROVE  IsPrefix(s, Append(t, a)) <=> IsPrefix(s, t) \/ s = Append(t, a)
<1> DEFINE p == Append(t, a)
<1>1. /\ p \in Place /\ Len(p) = Len(t) + 1
      /\ IsPrefix(t, p)
      /\ \A n \in 1 .. Len(t) : p[n] = t[n]
      /\ Len(s) \in Nat /\ Len(t) \in Nat
  BY BelowSide, AppendProperties, LenProperties DEF Place
<1> HIDE DEF p
<1>2. ASSUME IsPrefix(s, p), s # p
      PROVE  IsPrefix(s, t)
  <2>1. Len(s) < Len(p)
    BY <1>1, <1>2, PrefixOrder
  <2>2. \A n \in 1 .. Len(s) : s[n] = p[n]
    BY <1>1, <1>2, PrefixMeans
  <2>3. Len(s) <= Len(t) /\ \A n \in 1 .. Len(s) : s[n] = t[n]
    BY <1>1, <2>1, <2>2
  <2> QED BY <2>3, PrefixMeans
<1>3. IsPrefix(s, t) \/ s = p => IsPrefix(s, p)
  BY <1>1, PrefixOrder
<1> QED BY <1>2, <1>3 DEF p

-----------------------------------------------------------------------------
(* The tree.                                                               *)

(* A tree with its places, and with no gap in the way to any of them. *)
IsTree(t) == /\ t \in [DOMAIN t -> Place]
             /\ DOMAIN t \subseteq Item
             /\ \A i \in DOMAIN t, s \in Place :
                  IsPrefix(s, t[i]) => s \in Range(t)

Splits(t) ==
  \A i, j \in DOMAIN t :
    LET d == Dim(t[i]) IN
    /\ IsPrefix(Left(t, i), t[j]) => Vec[j][d] <= Vec[i][d]
    /\ IsPrefix(Right(t, i), t[j]) => Vec[i][d] <= Vec[j][d]

LEMMA TreeMeans ==
  ASSUME NEW t, IsTree(t)
  PROVE  IsKDTree(t) <=> Splits(t)
<1>1. ASSUME NEW i \in DOMAIN t, NEW n \in 0 .. Len(t[i])
      PROVE  SubSeq(t[i], 1, n) \in Range(t)
  <2>1. t[i] \in Seq(Side)
    BY DEF IsTree, Place
  <2> DEFINE s == SubSeq(t[i], 1, n)
  <2>2. /\ s \in Place /\ Len(s) = n
        /\ \A m \in 1 .. n : s[m] = t[i][m]
    BY <2>1 DEF Place
  <2> HIDE DEF s
  <2>3. IsPrefix(s, t[i])
    BY <2>1, <2>2, PrefixMeans DEF Place
  <2> QED BY <2>2, <2>3 DEF IsTree, s
<1> QED BY <1>1 DEF IsKDTree, Splits

(* Every dimension that a level splits along is one of the vectors'. *)
LEMMA Levels ==
  ASSUME NEW s \in Place
  PROVE  Dim(s) \in Dimension
<1>1. Len(s) \in Nat
  BY DEF Place
<1> QED BY <1>1, DimensionsAssumption DEF Dim, Dimension

LEMMA Coordinates ==
  /\ \A i \in Item, d \in Dimension : Vec[i][d] \in Int
  /\ \A v \in Query, d \in Dimension : v[d] \in Int
BY KDAssumption DEF Vector

(* What leads the walk of an Insert keeps the nodes split. *)
LEMMA Grows ==
  ASSUME NEW t, IsTree(t), Splits(t), IsInjective(t),
         NEW i \in Item \ DOMAIN t, NEW s \in Place \ Range(t),
         s = <<>> \/ \E j \in DOMAIN t : s = Left(t, j) \/ s = Right(t, j),
         \A j \in DOMAIN t :
           IsStrictPrefix(t[j], s) => IsPrefix(Near(Vec[i], t, j), s),
         NEW u, u = [j \in DOMAIN t \cup {i} |-> IF j = i THEN s ELSE t[j]]
  PROVE  IsTree(u) /\ Splits(u) /\ IsInjective(u)
<1>1. /\ DOMAIN u = DOMAIN t \cup {i} /\ u[i] = s
      /\ \A j \in DOMAIN t : u[j] = t[j] /\ j # i /\ t[j] \in Place /\ t[j] # s
      /\ DOMAIN t \subseteq Item
  BY DEF IsTree, Range
<1>2. Range(u) = Range(t) \cup {s}
  BY <1>1 DEF Range
<1>3. u \in [DOMAIN u -> Place] /\ DOMAIN u \subseteq Item
  BY <1>1
<1>4. ASSUME NEW p \in Place, IsPrefix(p, s)
      PROVE  p \in Range(u)
  <2>1. CASE s = <<>>
    <3>1. Len(p) <= 0
      BY <1>4, <2>1, PrefixMeans DEF Place
    <3>2. p = <<>>
      BY <3>1 DEF Place
    <3> QED BY <2>1, <3>2, <1>2
  <2>2. ASSUME NEW j \in DOMAIN t, s = Left(t, j) \/ s = Right(t, j)
        PROVE  p \in Range(u)
    <3>1. IsPrefix(p, t[j]) \/ p = s
      BY <1>1, <1>4, <2>2, AboveSide DEF Left, Right, Side
    <3> QED BY <3>1, <1>2 DEF IsTree
  <2> QED BY <2>1, <2>2
<1>5. IsTree(u)
  BY <1>1, <1>2, <1>3, <1>4 DEF IsTree
<1>6. ASSUME NEW j \in DOMAIN t PROVE ~ IsPrefix(s, t[j])
  BY <1>6 DEF IsTree
<1>7. ASSUME NEW a \in DOMAIN u, NEW b \in DOMAIN u, NEW side \in Side,
             IsPrefix(Append(u[a], side), u[b])
      PROVE  LET d == Dim(u[a]) IN
             /\ side = "left" => Vec[b][d] <= Vec[a][d]
             /\ side = "right" => Vec[a][d] <= Vec[b][d]
  <2>1. IsPrefix(u[a], u[b]) /\ u[a] # u[b]
    BY <1>3, <1>7, BelowSide
  <2>2. a \in DOMAIN t
    BY <1>1, <1>6, <2>1
  <2>3. CASE b \in DOMAIN t
    BY <1>1, <1>7, <2>2, <2>3 DEF Splits, Left, Right, Side
  <2>4. CASE b = i
    <3>1. IsPrefix(Near(Vec[i], t, a), s)
      BY <1>1, <2>1, <2>2, <2>4 DEF IsStrictPrefix
    <3>2. IF Before(Vec[i], t, a) THEN side = "left" ELSE side = "right"
      BY <1>1, <1>7, <2>2, <2>4, <3>1, BelowPlace DEF Near, Left, Right, Side
    <3>3. Vec[a][Dim(t[a])] \in Int /\ Vec[i][Dim(t[a])] \in Int
      BY <1>1, <2>2, Levels, Coordinates
    <3> QED BY <1>1, <2>2, <2>4, <3>2, <3>3 DEF Before
  <2> QED BY <1>1, <2>3, <2>4
<1>8. Splits(u)
  BY <1>7, ZenonT(60) DEF Splits, Left, Right, Side
<1>9. IsInjective(u)
  BY <1>1 DEF IsInjective
<1> QED BY <1>5, <1>8, <1>9

(* Nothing is below a slice of several points. *)
Slices(t) == \A i, j \in DOMAIN t :
  i # j /\ t[i] = t[j] => \A l \in DOMAIN t : ~ IsStrictPrefix(t[i], t[l])

(* The slice that m is in, and the tree that it is cut in. *)
SliceOf(t, m) == {i \in DOMAIN t : t[i] = t[m]}

Parted(t, m, L) ==
  [i \in DOMAIN t |-> IF i \in L THEN Append(t[m], "left")
                      ELSE IF i \in SliceOf(t, m) \ {m} THEN Append(t[m], "right")
                      ELSE t[i]]

(* Cutting a slice keeps the nodes split, with equal coordinates on both   *)
(* sides of the middle.                                                    *)
LEMMA Halves ==
  ASSUME NEW t, IsTree(t), Splits(t), Slices(t),
         NEW m \in DOMAIN t, SliceOf(t, m) # {m},
         NEW L \in SUBSET (SliceOf(t, m) \ {m}),
         \A i \in L : Vec[i][Dim(t[m])] <= Vec[m][Dim(t[m])],
         \A i \in SliceOf(t, m) \ (L \cup {m}) :
           Vec[m][Dim(t[m])] <= Vec[i][Dim(t[m])]
  PROVE  /\ IsTree(Parted(t, m, L))
         /\ Splits(Parted(t, m, L))
         /\ Slices(Parted(t, m, L))
<1> DEFINE S == SliceOf(t, m)
           u == Parted(t, m, L)
           s == t[m]
<1>1. /\ s \in Place /\ m \in S /\ DOMAIN u = DOMAIN t /\ DOMAIN t \subseteq Item
      /\ \A i \in DOMAIN t : t[i] \in Place
      /\ u = [i \in DOMAIN u |-> u[i]]
      /\ u[m] = s /\ \A i \in DOMAIN t \ S : u[i] = t[i] /\ t[i] # s
      /\ \A i \in S : i \in DOMAIN t /\ t[i] = s
  BY DEF IsTree, SliceOf, Parted
<1>2. /\ \A i \in L : u[i] = Append(s, "left")
      /\ \A i \in S \ (L \cup {m}) : u[i] = Append(s, "right")
  BY <1>1 DEF Parted
<1>3. \A side \in Side : /\ Append(s, side) \in Place
                         /\ Len(Append(s, side)) = Len(s) + 1
                         /\ IsPrefix(s, Append(s, side)) /\ s # Append(s, side)
  BY <1>1, BelowSide
<1>4. Append(s, "left") # Append(s, "right")
  BY <1>1, <1>3, BelowPlace, PrefixOrder DEF Side
<1>5. \A i \in DOMAIN t : ~ IsStrictPrefix(s, t[i])
  <2>1. PICK i \in S : i # m
    BY <1>1 DEF SliceOf
  <2> QED BY <2>1, <1>1 DEF Slices
<1>5a. L \subseteq S \ {m} /\ \A i \in L : Vec[i][Dim(s)] <= Vec[m][Dim(s)]
  OBVIOUS
<1>5b. \A i \in S \ (L \cup {m}) : Vec[m][Dim(s)] <= Vec[i][Dim(s)]
  OBVIOUS
<1> HIDE DEF S, u, s
<1>6. \A i \in S \ {m} : \E side \in Side : u[i] = Append(s, side)
  BY <1>2, <1>5a DEF Side
<1>7. \A i \in DOMAIN u : u[i] \in Place
  BY <1>1, <1>3, <1>6
<1>8. ASSUME NEW i \in DOMAIN t PROVE t[i] \in Range(u)
  BY <1>1, <1>8 DEF Range
<1>9. ASSUME NEW i \in DOMAIN u, NEW p \in Place, IsPrefix(p, u[i])
      PROVE  p \in Range(u)
  <2>1. IsPrefix(p, t[i]) \/ p = u[i]
    <3>1. ASSUME i \in S \ {m} PROVE IsPrefix(p, t[i]) \/ p = u[i]
      <4>1. PICK side \in Side : u[i] = Append(s, side)
        BY <1>6, <3>1
      <4> QED BY <1>1, <1>9, <3>1, <4>1, AboveSide
    <3> QED BY <1>1, <1>9, <3>1
  <2>2. CASE p = u[i]
    BY <2>2 DEF Range
  <2>3. CASE IsPrefix(p, t[i])
    <3>1. PICK j \in DOMAIN t : t[j] = p
      BY <1>1, <2>3 DEF IsTree, Range
    <3> QED BY <3>1, <1>8
  <2> QED BY <2>1, <2>2, <2>3
<1>10. IsTree(u)
  BY <1>1, <1>7, <1>9 DEF IsTree
(* Below a new place is nothing, and below an old one only what was there. *)
<1>11. ASSUME NEW a \in DOMAIN u, NEW b \in DOMAIN u, NEW side \in Side,
              IsPrefix(Append(u[a], side), u[b])
       PROVE  /\ a \notin S => IsPrefix(Append(t[a], side), t[b])
              /\ a \in S => a = m /\ b \in S \ {m} /\ u[b] = Append(s, side)
  <2>1. IsPrefix(u[a], u[b]) /\ u[a] # u[b] /\ Len(u[a]) < Len(u[b])
    BY <1>7, <1>11, BelowSide
  <2>2. ASSUME a \notin S PROVE IsPrefix(Append(t[a], side), t[b])
    <3>1. CASE b \notin S \ {m}
      BY <1>1, <1>11, <2>2, <3>1
    <3>2. CASE b \in S \ {m}
      <4>1. PICK other \in Side : u[b] = Append(s, other)
        BY <1>6, <3>2
      <4> DEFINE p == Append(t[a], side)
      <4>2. p \in Place /\ IsPrefix(p, Append(s, other))
        BY <1>1, <1>11, <2>2, <4>1, BelowSide
      <4> HIDE DEF p
      <4>3. IsPrefix(p, s) \/ p = Append(s, other)
        BY <1>1, <4>2, AboveSide
      <4>4. Append(t[a], side) # Append(s, other)
        BY <1>1, <2>2, AppendInjective DEF Place
      <4> QED BY <1>1, <3>2, <4>3, <4>4 DEF p
    <3> QED BY <3>1, <3>2
  <2>3. ASSUME a \in S PROVE a = m /\ b \in S \ {m} /\ u[b] = Append(s, side)
    <3>1. IsPrefix(s, u[a])
      <4>1. CASE a = m
        BY <1>1, <4>1, PrefixOrder
      <4>2. ASSUME a \in S \ {m} PROVE IsPrefix(s, u[a])
        BY <1>3, <1>6, <4>2
      <4> QED BY <2>3, <4>1, <4>2
    <3>2. IsPrefix(s, u[b])
      BY <1>1, <1>7, <2>1, <3>1, PrefixOrder
    <3>3. Len(s) <= Len(u[a]) /\ Len(s) \in Nat /\ Len(u[a]) \in Nat /\ Len(u[b]) \in Nat
      BY <1>1, <1>7, <3>1, PrefixMeans DEF Place
    <3>4. b \in S
      <4> SUFFICES ASSUME b \notin S PROVE FALSE
        OBVIOUS
      <4>1. u[b] = t[b] /\ t[b] # s
        BY <1>1
      <4> QED BY <1>1, <1>5, <3>2, <4>1 DEF IsStrictPrefix
    <3>5. Len(u[b]) <= Len(s) + 1
      BY <1>1, <1>3, <1>6, <3>3, <3>4
    <3>6. a = m
      <4> SUFFICES ASSUME a \in S \ {m} PROVE FALSE
        BY <2>3
      <4>1. Len(u[a]) = Len(s) + 1
        BY <1>3, <1>6
      <4> QED BY <2>1, <3>3, <3>5, <4>1
    <3>7. b # m
      BY <2>1, <3>6
    <3>8. IsPrefix(Append(s, side), u[b])
      BY <1>1, <1>11, <3>6
    <3>9. u[b] = Append(s, side)
      <4>1. PICK other \in Side : u[b] = Append(s, other)
        BY <1>6, <3>4, <3>7
      <4> DEFINE p == Append(s, side)
      <4>2. p \in Place /\ Len(p) = Len(u[b])
        BY <1>3, <4>1
      <4>3. IsPrefix(p, u[b])
        BY <3>8
      <4> HIDE DEF p
      <4>4. p = u[b]
        BY <1>7, <4>2, <4>3, PrefixOrder
      <4> QED BY <4>4 DEF p
    <3> QED BY <3>4, <3>6, <3>7, <3>9
  <2> QED BY <2>2, <2>3
<1>12. ASSUME NEW a \in DOMAIN u, NEW b \in DOMAIN u, NEW side \in Side,
              IsPrefix(Append(u[a], side), u[b])
       PROVE  LET d == Dim(u[a]) IN
              /\ side = "left" => Vec[b][d] <= Vec[a][d]
              /\ side = "right" => Vec[a][d] <= Vec[b][d]
  <2>1. CASE a \notin S
    BY <1>1, <1>11, <1>12, <2>1 DEF Splits, Left, Right, Side
  <2>2. CASE a \in S
    <3>1. a = m /\ b \in S \ {m} /\ u[b] = Append(s, side)
      BY <1>11, <1>12, <2>2
    <3>2. IF b \in L THEN side = "left" ELSE side = "right"
      BY <1>2, <1>4, <3>1 DEF Side
    <3> QED BY <1>1, <1>5a, <1>5b, <3>1, <3>2
  <2> QED BY <2>1, <2>2
<1>13. Splits(u)
  BY <1>12 DEF Splits, Left, Right, Side
<1>14. ASSUME NEW i \in DOMAIN u, NEW j \in DOMAIN u, i # j, u[i] = u[j],
              NEW l \in DOMAIN u, IsStrictPrefix(u[i], u[l])
       PROVE  FALSE
  <2>1. IsPrefix(u[i], u[l]) /\ u[i] # u[l]
    BY <1>14 DEF IsStrictPrefix
  <2>2. PICK side \in Side : IsPrefix(Append(u[i], side), u[l])
    BY <1>7, <2>1, BelowPlace DEF Side
  <2>3. CASE i \in S \/ j \in S
    <3>1. (i \in S => i = m) /\ (j \in S => j = m)
      BY <1>11, <1>14, <2>2
    <3>2. u[i] = s /\ (i \notin S \/ j \notin S)
      BY <1>1, <1>14, <2>3, <3>1
    <3> QED BY <1>1, <1>14, <3>2
  <2>4. CASE i \notin S /\ j \notin S
    <3>1. IsPrefix(Append(t[i], side), t[l])
      BY <1>11, <2>2, <2>4
    <3>2. IsStrictPrefix(t[i], t[l])
      BY <1>1, <3>1, BelowSide DEF IsStrictPrefix
    <3> QED BY <1>1, <1>14, <2>4, <3>2 DEF Slices
  <2> QED BY <2>3, <2>4
<1>15. Slices(u)
  BY <1>14 DEF Slices
<1> QED BY <1>10, <1>13, <1>15 DEF u

(* The tree in use and the one being built are trees, split at every node, *)
(* and hold what is stored.                                                *)
TreeInv == /\ op \in {"none", "balance", "build", "knn"}
           /\ stored \subseteq Item /\ IsFiniteSet(stored)
           /\ IsTree(root) /\ Splits(root) /\ IsInjective(root)
           /\ IsTree(built) /\ Splits(built) /\ Slices(built)
           /\ HoldsStored

LEMMA InsertStep ==
  ASSUME TreeInv, NEW i \in Item, InsertPoint(i)
  PROVE  TreeInv'
<1>1. i \notin DOMAIN root /\ DOMAIN root = stored
  BY DEF TreeInv, HoldsStored, InsertPoint
<1>2. PICK s \in Vacant \ Range(root) :
        /\ Leads(Vec[i], s)
        /\ root' = [j \in DOMAIN root \cup {i} |-> IF j = i THEN s ELSE root[j]]
  BY DEF InsertPoint
<1>3. s \in Place
  <2>1. <<>> \in Place
    BY DEF Place
  <2>2. ASSUME NEW j \in DOMAIN root PROVE Left(root, j) \in Place /\ Right(root, j) \in Place
    BY BelowSide DEF TreeInv, IsTree, Left, Right, Side
  <2> QED BY <1>2, <2>1, <2>2 DEF Vacant
<1>4. IsTree(root') /\ Splits(root') /\ IsInjective(root')
  <2>1. s = <<>> \/ \E j \in DOMAIN root : s = Left(root, j) \/ s = Right(root, j)
    BY <1>2 DEF Vacant
  <2>2. \A j \in DOMAIN root :
          IsStrictPrefix(root[j], s) => IsPrefix(Near(Vec[i], root, j), s)
    BY <1>2 DEF Leads
  <2> QED BY <1>1, <1>2, <1>3, <2>1, <2>2, Grows DEF TreeInv
<1>5. HoldsStored' /\ IsFiniteSet(stored') /\ stored' \subseteq Item
  <2>1. /\ IsFiniteSet(stored')
        /\ Cardinality(stored') = Cardinality(stored) + 1
    BY <1>1, FS_AddElement DEF TreeInv, InsertPoint
  <2>2. DOMAIN root' = stored'
    BY <1>1, <1>2 DEF InsertPoint
  <2> QED BY <2>1, <2>2 DEF TreeInv, HoldsStored, InsertPoint
<1> QED BY <1>4, <1>5 DEF TreeInv, InsertPoint

LEMMA StartStep ==
  ASSUME TreeInv, NEW o \in {"balance", "build"}, NEW S \in SUBSET Item,
         IsFiniteSet(S), Start(o, S), o = "balance" => S = DOMAIN root,
         IF o = "balance" THEN len' = len ELSE len' = Cardinality(S)
  PROVE  TreeInv'
<1>1. /\ DOMAIN built' = S /\ stored' = S /\ root' = root /\ op' = o
      /\ \A i \in S : built'[i] = <<>>
      /\ built' \in [DOMAIN built' -> Place]
  BY DEF Start, Place
<1>2. ASSUME NEW p \in Place, IsPrefix(p, <<>>)
      PROVE  p = <<>>
  <2>1. <<>> \in Place /\ Len(<<>>) = 0
    BY DEF Place
  <2>2. Len(p) <= 0
    BY <1>2, <2>1, PrefixMeans
  <2> QED BY <2>2 DEF Place
<1>3. \A side \in Side : ~ IsPrefix(Append(<<>>, side), <<>>)
  <2>1. <<>> \in Place
    BY DEF Place
  <2> QED BY <2>1, BelowSide
<1>4. IsTree(built')
  BY <1>1, <1>2 DEF IsTree, Range
<1>5. Splits(built') /\ Slices(built')
  <2>1. Splits(built')
    BY <1>1, <1>3 DEF Splits, Left, Right, Side
  <2>2. Slices(built')
    BY <1>1 DEF Slices, IsStrictPrefix
  <2> QED BY <2>1, <2>2
<1>6. HoldsStored'
  BY <1>1 DEF TreeInv, HoldsStored, Start
<1> QED BY <1>1, <1>4, <1>5, <1>6 DEF TreeInv

LEMMA HalveStep ==
  ASSUME TreeInv, NEW s, Halve(s)
  PROVE  TreeInv'
<1>1. PICK m \in Slice(s) : \E L \in SUBSET (Slice(s) \ {m}) :
        /\ Slice(s) # {m}
        /\ \A i \in L : Vec[i][Dim(s)] <= Vec[m][Dim(s)]
        /\ \A i \in Slice(s) \ (L \cup {m}) : Vec[m][Dim(s)] <= Vec[i][Dim(s)]
        /\ built' = Cut(s, m, L)
  BY DEF Halve
<1>2. m \in DOMAIN built /\ built[m] = s
  BY DEF Slice
<1>3. PICK L \in SUBSET (Slice(built[m]) \ {m}) :
        /\ Slice(built[m]) # {m}
        /\ \A i \in L : Vec[i][Dim(built[m])] <= Vec[m][Dim(built[m])]
        /\ \A i \in Slice(built[m]) \ (L \cup {m}) :
             Vec[m][Dim(built[m])] <= Vec[i][Dim(built[m])]
        /\ built' = Cut(built[m], m, L)
  BY <1>1, <1>2
<1>4. IsTree(built') /\ Splits(built') /\ Slices(built')
  <2>1. Slice(built[m]) = SliceOf(built, m)
    BY DEF Slice, SliceOf
  <2>2. built' = Parted(built, m, L)
    BY <1>3, <2>1 DEF Cut, Parted
  <2> QED BY <1>2, <1>3, <2>1, <2>2, Halves DEF TreeInv
<1>5. HoldsStored'
  <2>1. DOMAIN built' = DOMAIN built
    BY <1>3 DEF Cut
  <2> QED BY <2>1 DEF TreeInv, HoldsStored, Halve
<1> QED BY <1>4, <1>5 DEF TreeInv, Halve

(* The new tree is used once every slice is down to one point. *)
LEMMA SwitchStep ==
  ASSUME TreeInv, Switch
  PROVE  TreeInv'
<1>1. IsTree(built') /\ Splits(built') /\ Slices(built')
  BY DEF Switch, Empty, IsTree, Splits, Slices
<1>2. HoldsStored'
  BY DEF TreeInv, HoldsStored, Switch
<1> QED BY <1>1, <1>2 DEF TreeInv, Switch

(* The tree stays a k-d tree, and holds what is stored. *)
LEMMA TreeInvariant == Spec => []TreeInv
<1>1. Init => TreeInv
  <2> SUFFICES ASSUME Init PROVE TreeInv
    OBVIOUS
  <2>1. \A t : t = Empty => /\ IsTree(t) /\ Splits(t) /\ Slices(t)
                            /\ IsInjective(t) /\ DOMAIN t = {}
    BY DEF Empty, IsTree, Splits, Slices, IsInjective
  <2>2. IsFiniteSet({}) /\ Cardinality({}) = 0
    BY FS_EmptySet
  <2> QED BY <2>1, <2>2 DEF Init, TreeInv, HoldsStored
<1>2. TreeInv /\ [Next]_vars => TreeInv'
  <2> SUFFICES ASSUME TreeInv, [Next]_vars PROVE TreeInv'
    OBVIOUS
  <2>1. ASSUME NEW i \in Item, InsertPoint(i) PROVE TreeInv'
    BY <2>1, InsertStep
  <2>2. CASE Balance
    <3>1. DOMAIN root \in SUBSET Item /\ IsFiniteSet(DOMAIN root)
      BY <2>2 DEF Balance, Start, TreeInv, IsTree, HoldsStored
    <3> QED BY <2>2, <3>1, StartStep DEF Balance
  <2>3. ASSUME NEW S \in SUBSET Item, IsFiniteSet(S), Build(S) PROVE TreeInv'
    BY <2>3, StartStep DEF Build
  <2>4. ASSUME NEW s, Halve(s) PROVE TreeInv'
    BY <2>4, HalveStep
  <2>5. CASE Switch
    BY <2>5, SwitchStep
  <2>6. ASSUME UNCHANGED treeVars, op' \in {"none", "knn"}, op \in {"none", "knn"}
        PROVE  TreeInv'
    BY <2>6 DEF TreeInv, HoldsStored, treeVars
  <2>7. ASSUME NEW v, NEW k, NEW fn, KNN(v, k, fn) PROVE TreeInv'
    BY <2>6, <2>7 DEF KNN
  <2>8. CASE Down \/ Back \/ Return
    BY <2>6, <2>8 DEF Down, Back, Return, Finished
  <2>9. CASE UNCHANGED vars
    BY <2>9 DEF TreeInv, HoldsStored, vars, treeVars
  <2> QED BY <2>1, <2>2, <2>3, <2>4, <2>5, <2>7, <2>8, <2>9 DEF Next
<1> QED BY <1>1, <1>2, PTL DEF Spec

(* Insert, Balance and Build keep the tree a k-d tree, with equal          *)
(* coordinates on either side of a node and after any order of them.       *)
THEOREM TypeCorrect == Spec => []TypeOK
<1>1. TreeInv => TypeOK
  BY TreeMeans DEF TreeInv, TypeOK
<1> QED BY <1>1, TreeInvariant, PTL

(* They lose and duplicate no point, and count them right. *)
THEOREM StoredHeld == Spec => []HoldsStored
<1>1. TreeInv => HoldsStored
  BY DEF TreeInv
<1> QED BY <1>1, TreeInvariant, PTL

-----------------------------------------------------------------------------
(* The distances.                                                          *)

(* The loop over the coordinates ends: whatever it does with the one it is *)
(* at and what it has so far, there is what it has after each of them.     *)
LEMMA Loop ==
  ASSUME NEW n \in Nat, NEW F \in [1 .. n -> [Int -> Int]]
  PROVE  \E f \in [0 .. n -> Int] :
           f[0] = 0 /\ \A d \in 1 .. n : f[d] = F[d][f[d - 1]]
<1> DEFINE P(m, f) == f[0] = 0 /\ \A d \in 1 .. m : f[d] = F[d][f[d - 1]]
           Has(m) == \E f \in [0 .. m -> Int] : P(m, f)
           Good == {m \in Nat : m <= n => Has(m)}
<1>1. Has(0)
  <2>1. [d \in 0 .. 0 |-> 0] \in [0 .. 0 -> Int] /\ P(0, [d \in 0 .. 0 |-> 0])
    OBVIOUS
  <2> QED BY <2>1
<1>2. ASSUME NEW m \in Nat, m + 1 <= n, Has(m) PROVE Has(m + 1)
  <2>1. PICK f \in [0 .. m -> Int] : P(m, f)
    BY <1>2
  <2> DEFINE g == [d \in 0 .. (m + 1) |-> IF d <= m THEN f[d] ELSE F[m + 1][f[m]]]
  <2>2. m + 1 \in 1 .. n /\ m \in 0 .. m
    BY <1>2
  <2>3. F[m + 1] \in [Int -> Int] /\ f[m] \in Int
    BY <2>1, <2>2
  <2>4. g \in [0 .. (m + 1) -> Int]
    BY <2>1, <2>3
  <2>5. g[0] = 0
    BY <2>1
  <2>6. ASSUME NEW d \in 1 .. (m + 1) PROVE g[d] = F[d][g[d - 1]]
    <3>1. CASE d <= m
      BY <2>1, <3>1
    <3>2. CASE d = m + 1
      BY <2>1, <3>2
    <3> QED BY <3>1, <3>2
  <2> QED BY <2>4, <2>5, <2>6
<1>3. n \in Good
  <2> HIDE DEF Has
  <2>1. 0 \in Good
    BY <1>1
  <2>2. \A m \in Nat : m \in Good => m + 1 \in Good
    BY <1>2
  <2> HIDE DEF Good
  <2> QED BY <2>1, <2>2, Successors
<1>4. Has(n)
  <2> HIDE DEF Has
  <2> QED BY <1>3
<1> QED BY <1>4

(* A sum of natural numbers is at least each of them ... *)
LEMMA TotalBounds ==
  ASSUME NEW x \in [Dimension -> Nat]
  PROVE  Total(x) \in Nat /\ \A d \in Dimension : x[d] <= Total(x)
<1> DEFINE n == Dimensions
           Sum(f) == [d \in 0 .. n |-> IF d = 0 THEN 0 ELSE f[d - 1] + x[d]]
           g == CHOOSE f : f = Sum(f)
<1>1. n \in Nat /\ n # 0
  BY DimensionsAssumption
<1>2. \E f : f = Sum(f)
  <2>1. [d \in 1 .. n |-> [a \in Int |-> a + x[d]]] \in [1 .. n -> [Int -> Int]]
    BY DEF Dimension
  <2>2. PICK f \in [0 .. n -> Int] :
          f[0] = 0 /\ \A d \in 1 .. n :
            f[d] = [e \in 1 .. n |-> [a \in Int |-> a + x[e]]][d][f[d - 1]]
    <3> HIDE DEF n
    <3> QED BY <1>1, <2>1, Loop
  <2>3. ASSUME NEW d \in 1 .. n PROVE f[d] = f[d - 1] + x[d]
    <3>1. f[d - 1] \in Int
      BY <1>1, <2>2
    <3> QED BY <2>2, <3>1
  <2>4. f = Sum(f)
    BY <1>1, <2>2, <2>3
  <2> QED BY <2>4
<1>3. g = Sum(g)
  <2> HIDE DEF Sum
  <2> QED BY <1>2
<1>4. Total(x) = g[n]
  BY DEF Total
<1> HIDE DEF g
<1>5. g[0] = 0 /\ \A d \in 1 .. n : g[d] = g[d - 1] + x[d]
  BY <1>1, <1>3
<1> DEFINE Good == {m \in Nat : m <= n => g[m] \in Nat /\ \A d \in 1 .. m : x[d] <= g[m]}
<1>6. 0 \in Good
  BY <1>5
<1>7. ASSUME NEW m \in Nat, m \in Good PROVE m + 1 \in Good
  <2> SUFFICES ASSUME m + 1 <= n
               PROVE  g[m + 1] \in Nat /\ \A d \in 1 .. (m + 1) : x[d] <= g[m + 1]
    OBVIOUS
  <2>1. g[m] \in Nat /\ \A d \in 1 .. m : x[d] <= g[m]
    BY <1>1, <1>7
  <2>2. m + 1 \in 1 .. n /\ g[m + 1] = g[m] + x[m + 1] /\ \A d \in 1 .. (m + 1) : x[d] \in Nat
    BY <1>1, <1>5 DEF Dimension
  <2> QED BY <2>1, <2>2
<1>8. n \in Good
  <2> HIDE DEF Good
  <2> QED BY <1>1, <1>6, <1>7, Successors
<1> QED BY <1>1, <1>4, <1>8 DEF Dimension

(* ... and so is the greatest of them. *)
LEMMA GreatestBounds ==
  ASSUME NEW x \in [Dimension -> Nat]
  PROVE  Greatest(x) \in Nat /\ \A d \in Dimension : x[d] <= Greatest(x)
<1> DEFINE n == Dimensions
           Most(f) == [d \in 0 .. n |-> IF d = 0 THEN 0
                                        ELSE IF f[d - 1] < x[d] THEN x[d] ELSE f[d - 1]]
           g == CHOOSE f : f = Most(f)
<1>1. n \in Nat /\ n # 0
  BY DimensionsAssumption
<1>2. \E f : f = Most(f)
  <2>1. [d \in 1 .. n |-> [a \in Int |-> IF a < x[d] THEN x[d] ELSE a]]
          \in [1 .. n -> [Int -> Int]]
    BY DEF Dimension
  <2>2. PICK f \in [0 .. n -> Int] :
          f[0] = 0 /\ \A d \in 1 .. n :
            f[d] = [e \in 1 .. n |-> [a \in Int |-> IF a < x[e] THEN x[e] ELSE a]][d][f[d - 1]]
    <3> HIDE DEF n
    <3> QED BY <1>1, <2>1, Loop
  <2>3. ASSUME NEW d \in 1 .. n PROVE f[d] = IF f[d - 1] < x[d] THEN x[d] ELSE f[d - 1]
    <3>1. f[d - 1] \in Int
      BY <1>1, <2>2
    <3> QED BY <2>2, <3>1
  <2>4. f = Most(f)
    BY <1>1, <2>2, <2>3
  <2> QED BY <2>4
<1>3. g = Most(g)
  <2> HIDE DEF Most
  <2> QED BY <1>2
<1>4. Greatest(x) = g[n]
  BY DEF Greatest
<1> HIDE DEF g
<1>5. g[0] = 0 /\ \A d \in 1 .. n : g[d] = IF g[d - 1] < x[d] THEN x[d] ELSE g[d - 1]
  BY <1>1, <1>3
<1> DEFINE Good == {m \in Nat : m <= n => g[m] \in Nat /\ \A d \in 1 .. m : x[d] <= g[m]}
<1>6. 0 \in Good
  BY <1>5
<1>7. ASSUME NEW m \in Nat, m \in Good PROVE m + 1 \in Good
  <2> SUFFICES ASSUME m + 1 <= n
               PROVE  g[m + 1] \in Nat /\ \A d \in 1 .. (m + 1) : x[d] <= g[m + 1]
    OBVIOUS
  <2>1. g[m] \in Nat /\ \A d \in 1 .. m : x[d] <= g[m]
    BY <1>1, <1>7
  <2>2. /\ m + 1 \in 1 .. n /\ \A d \in 1 .. (m + 1) : x[d] \in Nat
        /\ g[m + 1] = IF g[m] < x[m + 1] THEN x[m + 1] ELSE g[m]
    BY <1>1, <1>5 DEF Dimension
  <2> QED BY <2>1, <2>2
<1>8. n \in Good
  <2> HIDE DEF Good
  <2> QED BY <1>1, <1>6, <1>7, Successors
<1> QED BY <1>1, <1>4, <1>8 DEF Dimension

Between(a, b, c, d) == \/ a[d] <= b[d] /\ b[d] <= c[d]
                       \/ c[d] <= b[d] /\ b[d] <= a[d]

(* What lies across the plane of b from a is not nearer to a than the gap  *)
(* along the dimension that b splits along: this is why knn may leave out  *)
(* a side of the tree, whatever the distance function.                     *)
LEMMA GapBounds ==
  ASSUME NEW fn \in Functions, NEW a \in Vector, NEW b \in Vector, NEW c \in Vector,
         NEW d \in Dimension, Between(a, b, c, d)
  PROVE  /\ Along(fn, a, b, d) \in Nat
         /\ Distance(fn, a, c) \in Nat
         /\ Along(fn, a, b, d) <= Distance(fn, a, c)
<1> DEFINE x == Apart(a, c)
           y == [e \in Dimension |-> x[e] * x[e]]
<1>1. /\ x \in [Dimension -> Nat]
      /\ Apart(a, b)[d] \in Nat
      /\ Apart(a, b)[d] <= x[d]
  BY DEF Apart, Vector, Between
<1> HIDE DEF x
<1>2. \A m, n \in Nat : m * n \in Nat /\ (m <= n => m * m <= n * n)
  OBVIOUS
<1>3. y \in [Dimension -> Nat]
  BY <1>1, <1>2
<1>4. CASE fn = "EUCLIDEAN"
  <2>1. Distance(fn, a, c) = Total(y)
    BY <1>4 DEF Distance, x
  <2>2. Along(fn, a, b, d) = Apart(a, b)[d] * Apart(a, b)[d]
    BY <1>4 DEF Along
  <2>3. y[d] = x[d] * x[d] /\ x[d] \in Nat
    BY <1>1
  <2>4. Along(fn, a, b, d) \in Nat /\ Along(fn, a, b, d) <= y[d] /\ y[d] \in Nat
    BY <1>1, <1>2, <2>2, <2>3
  <2>5. Total(y) \in Nat /\ y[d] <= Total(y)
    BY <1>3, TotalBounds
  <2> HIDE DEF y
  <2> QED BY <2>1, <2>4, <2>5
<1>5. CASE fn = "CHEBYSHEV"
  <2>1. Distance(fn, a, c) = Greatest(x) /\ Along(fn, a, b, d) = Apart(a, b)[d]
    BY <1>5 DEF Distance, Along, x
  <2>2. Greatest(x) \in Nat /\ x[d] <= Greatest(x) /\ x[d] \in Nat
    BY <1>1, GreatestBounds
  <2> QED BY <1>1, <2>1, <2>2
<1>6. CASE fn = "MANHATTAN"
  <2>1. Distance(fn, a, c) = Total(x) /\ Along(fn, a, b, d) = Apart(a, b)[d]
    BY <1>6 DEF Distance, Along, x
  <2>2. Total(x) \in Nat /\ x[d] <= Total(x) /\ x[d] \in Nat
    BY <1>1, TotalBounds
  <2> QED BY <1>1, <2>1, <2>2
<1> QED BY <1>4, <1>5, <1>6 DEF Functions

-----------------------------------------------------------------------------
(* The queue of the nearest.                                               *)

Entries == [value : Item, prior : Nat]

Sorted(q) == \A a, b \in DOMAIN q : a < b => q[a].prior <= q[b].prior

LEMMA InitialSegment ==
  ASSUME NEW n \in Nat, NEW D \in SUBSET (1 .. n),
         \A a \in D, b \in 1 .. n : b < a => b \in D
  PROVE  \E i \in 0 .. n : D = 1 .. i
<1> DEFINE Segment(m) == \E i \in 0 .. m : D \cap (1 .. m) = 1 .. i
           Good == {m \in Nat : m <= n => Segment(m)}
<1>1. Segment(0)
  BY DEF Segment
<1>2. ASSUME NEW m \in Nat, m + 1 <= n, Segment(m) PROVE Segment(m + 1)
  <2>1. PICK i \in 0 .. m : D \cap (1 .. m) = 1 .. i
    BY <1>2
  <2>2. CASE m + 1 \in D
    <3>1. D \cap (1 .. (m + 1)) = 1 .. (m + 1)
      BY <1>2, <2>2
    <3> QED BY <3>1
  <2>3. CASE m + 1 \notin D
    <3>1. D \cap (1 .. (m + 1)) = 1 .. i
      BY <1>2, <2>1, <2>3
    <3> QED BY <3>1
  <2> QED BY <2>2, <2>3
<1>3. n \in Good
  <2> HIDE DEF Segment
  <2>1. 0 \in Good
    BY <1>1
  <2>2. \A m \in Nat : m \in Good => m + 1 \in Good
    BY <1>2
  <2> HIDE DEF Good
  <2> QED BY <2>1, <2>2, Successors
<1>4. Segment(n)
  <2> HIDE DEF Segment
  <2> QED BY <1>3
<1> QED BY <1>4

(* r is q with e after its first i entries, cut to what it may hold.       *)
Inserted(q, cap, e, i, r) ==
  /\ i \in 0 .. Len(q)
  /\ r \in Seq(Entries)
  /\ Len(r) = IF Len(q) < cap THEN Len(q) + 1 ELSE cap
  /\ \A j \in 1 .. i : q[j].prior <= e.prior
  /\ \A j \in (i + 1) .. Len(q) : e.prior < q[j].prior
  /\ \A j \in 1 .. Len(r) :
       r[j] = IF j <= i THEN q[j] ELSE IF j = i + 1 THEN e ELSE q[j - 1]

(* Push inserts an entry after those that are at least as near, and drops  *)
(* the last entry if there are too many.                                   *)
LEMMA PushMeans ==
  ASSUME NEW q \in Seq(Entries), Sorted(q), NEW cap \in Nat \ {0}, Len(q) <= cap,
         NEW e \in Entries
  PROVE  \E i : Inserted(q, cap, e, i, Push(q, cap, e))
<1> DEFINE n == Len(q)
           D == {j \in DOMAIN q : q[j].prior <= e.prior}
<1>1. /\ n \in Nat /\ n = Len(q) /\ n <= cap
      /\ DOMAIN q = 1 .. n /\ \A j \in 1 .. n : q[j] \in Entries
  OBVIOUS
<1> HIDE DEF n
<1>2. e.prior \in Nat /\ \A j \in 1 .. n : q[j].prior \in Nat
  BY <1>1 DEF Entries
<1>3. PICK i \in 0 .. n : D = 1 .. i
  <2>1. D \in SUBSET (1 .. n)
    BY <1>1
  <2>2. \A a \in D, b \in 1 .. n : b < a => b \in D
    BY <1>1, <1>2 DEF Sorted
  <2> HIDE DEF D
  <2> QED BY <1>1, <2>1, <2>2, InitialSegment
<1>4. i \in 0 .. n /\ Cardinality(D) = i
  <2>1. Cardinality(1 .. i) = i
    BY <1>3, FS_Interval
  <2> HIDE DEF D
  <2> QED BY <1>3, <2>1
<1>5. /\ \A j \in 1 .. i : q[j].prior <= e.prior
      /\ \A j \in (i + 1) .. n : e.prior < q[j].prior
  <2>1. \A j \in 1 .. n : j \in D <=> q[j].prior <= e.prior
    BY <1>1
  <2>2. \A j \in 1 .. n : j \in D <=> j <= i
    BY <1>1, <1>3
  <2> HIDE DEF D
  <2> QED BY <1>1, <1>2, <2>1, <2>2
<1> DEFINE s == SubSeq(q, 1, i) \o <<e>> \o SubSeq(q, i + 1, n)
<1>6. /\ s \in Seq(Entries) /\ Len(s) = n + 1
      /\ \A j \in 1 .. (n + 1) :
           s[j] = IF j <= i THEN q[j] ELSE IF j = i + 1 THEN e ELSE q[j - 1]
  <2> DEFINE x == SubSeq(q, 1, i)
             z == SubSeq(q, i + 1, n)
  <2>1. /\ x \in Seq(Entries) /\ Len(x) = i /\ \A j \in 1 .. i : x[j] = q[j]
    BY <1>1, <1>4
  <2>2. /\ z \in Seq(Entries) /\ Len(z) = n - i
        /\ \A j \in 1 .. (n - i) : z[j] = q[i + j]
    <3>1. /\ IF i + 1 <= n THEN n - (i + 1) + 1 = n - i ELSE n - i = 0
          /\ i + 1 \in Int /\ n \in Int
          /\ \A j \in (i + 1) .. n : q[j] \in Entries
      BY <1>1, <1>4
    <3>2. z \in Seq(Entries) /\ Len(z) = IF i + 1 <= n THEN n - (i + 1) + 1 ELSE 0
      BY <3>1, SubSeqProperties
    <3>3. ASSUME NEW j \in 1 .. (n - i) PROVE z[j] = q[i + j]
      <4>1. i + 1 <= n /\ j \in 1 .. (n - (i + 1) + 1) /\ (i + 1) + j - 1 = i + j
        BY <1>1, <1>4
      <4>2. z[j] = q[(i + 1) + j - 1]
        BY <1>1, <1>4, <4>1
      <4> QED BY <4>1, <4>2
    <3>4. n - i \in Nat /\ (i + 1 <= n \/ ~ (i + 1 <= n))
      BY <1>1, <1>4
    <3> QED BY <3>1, <3>2, <3>3, <3>4
  <2> HIDE DEF x, z
  <2> DEFINE y == x \o <<e>>
  <2>3. /\ y \in Seq(Entries) /\ Len(y) = i + 1
        /\ \A j \in 1 .. i : y[j] = q[j]
        /\ y[i + 1] = e
    BY <1>1, <1>4, <2>1
  <2> HIDE DEF y
  <2>4. /\ y \o z \in Seq(Entries) /\ Len(y \o z) = n + 1
        /\ \A j \in 1 .. (n + 1) :
             (y \o z)[j] = IF j <= i + 1 THEN y[j] ELSE z[j - (i + 1)]
    <3>1. /\ y \o z \in Seq(Entries) /\ Len(y \o z) = Len(y) + Len(z)
          /\ \A j \in 1 .. Len(y) + Len(z) :
               (y \o z)[j] = IF j <= Len(y) THEN y[j] ELSE z[j - Len(y)]
      BY <2>2, <2>3, ConcatProperties
    <3>2. Len(y) + Len(z) = n + 1
      BY <1>1, <1>4, <2>2, <2>3
    <3> QED BY <2>3, <3>1, <3>2
  <2>5. ASSUME NEW j \in 1 .. (n + 1)
        PROVE  (y \o z)[j] = IF j <= i THEN q[j] ELSE IF j = i + 1 THEN e ELSE q[j - 1]
    <3>1. CASE j <= i + 1
      BY <1>1, <1>4, <2>3, <2>4, <3>1
    <3>2. CASE j > i + 1
      <4>1. /\ j - (i + 1) \in 1 .. (n - i) /\ i + (j - (i + 1)) = j - 1
            /\ ~ (j <= i + 1) /\ ~ (j <= i) /\ j # i + 1
        BY <1>1, <1>4, <3>2
      <4>2. (y \o z)[j] = z[j - (i + 1)]
        BY <2>4, <4>1
      <4>3. z[j - (i + 1)] = q[i + (j - (i + 1))]
        BY <2>2, <4>1
      <4> QED BY <4>1, <4>2, <4>3
    <3>3. j <= i + 1 \/ j > i + 1
      BY <1>1, <1>4
    <3> QED BY <3>1, <3>2, <3>3
  <2> QED BY <2>4, <2>5 DEF x, y, z
<1>7. Push(q, cap, e) = IF cap < Len(s) THEN SubSeq(s, 1, cap) ELSE s
  BY <1>4 DEF Push, n
<1> HIDE DEF s, D
<1> DEFINE r == Push(q, cap, e)
<1>8. /\ r \in Seq(Entries)
      /\ Len(r) = IF n < cap THEN n + 1 ELSE cap
      /\ \A j \in 1 .. Len(r) : r[j] = s[j] /\ j \in 1 .. (n + 1)
  <2>1. CASE n < cap
    <3>1. r = s
      BY <1>1, <1>6, <1>7, <2>1
    <3> QED BY <1>1, <1>6, <2>1, <3>1
  <2>2. CASE n = cap
    <3>1. r = SubSeq(s, 1, cap)
      BY <1>1, <1>6, <1>7, <2>2
    <3>2. /\ SubSeq(s, 1, cap) \in Seq(Entries) /\ Len(SubSeq(s, 1, cap)) = cap
          /\ \A j \in 1 .. cap : SubSeq(s, 1, cap)[j] = s[j]
      BY <1>1, <1>6, <2>2
    <3> HIDE DEF r
    <3> QED BY <1>1, <2>2, <3>1, <3>2
  <2>3. n < cap \/ n = cap
    BY <1>1
  <2> HIDE DEF r
  <2> QED BY <2>1, <2>2, <2>3
<1> HIDE DEF r
<1>9. \A j \in 1 .. Len(r) :
        r[j] = IF j <= i THEN q[j] ELSE IF j = i + 1 THEN e ELSE q[j - 1]
  BY <1>6, <1>8
<1>10. i \in 0 .. Len(q)
  BY <1>1, <1>4
<1> QED BY <1>1, <1>5, <1>8, <1>9, <1>10 DEF r, Inserted

(* A search under way, and the points it may find. *)
Queries == [vec : Query, k : Ks, fn : DistFns]

LEMMA DistType ==
  ASSUME query \in Queries, NEW i \in Item
  PROVE  Dist(i) \in Nat /\ query.k \in Nat \ {0} /\ query.fn \in Functions
<1>1. /\ query.vec \in Vector /\ Vec[i] \in Vector /\ query.fn \in Functions
      /\ query.k \in Nat \ {0}
  BY KDAssumption DEF Queries
<1>2. 1 \in Dimension
  BY DimensionsAssumption DEF Dimension
<1>3. query.vec[1] \in Int /\ Vec[i][1] \in Int
  BY <1>1, <1>2 DEF Vector
<1>4. Between(query.vec, query.vec, Vec[i], 1)
  BY <1>3 DEF Between
<1> QED BY <1>1, <1>2, <1>4, GapBounds DEF Dist

(* The queue of a search: different points with their distances, nearest   *)
(* first, and no more than it may hold.                                    *)
Nearest(q) ==
  /\ q \in Seq(Entries) /\ Len(q) <= query.k
  /\ \A a \in DOMAIN q : q[a].prior = Dist(q[a].value)
  /\ \A a, b \in DOMAIN q : a < b => /\ q[a].prior <= q[b].prior
                                     /\ q[a].value # q[b].value

(* A point that is found or is not among the nearest k, and that stays so. *)
Settled(j, q) == \/ \E a \in DOMAIN q : q[a].value = j
                 \/ Len(q) = query.k /\ q[query.k].prior <= Dist(j)

LEMMA OfferMeans ==
  ASSUME query \in Queries, Nearest(queue), NEW i \in Item,
         \A a \in DOMAIN queue : queue[a].value # i
  PROVE  /\ Nearest(Offer(i))
         /\ \A a \in DOMAIN Offer(i) :
              \/ Offer(i)[a].value = i
              \/ \E b \in DOMAIN queue : Offer(i)[a].value = queue[b].value
         /\ \A j \in Item : Settled(j, queue) => Settled(j, Offer(i))
         /\ Settled(i, Offer(i))
<1> DEFINE n == Len(queue)
           k == query.k
           e == Entry(i, Dist(i))
           r == Push(queue, k, e)
<1>n. /\ n \in Nat /\ n = Len(queue) /\ n <= k /\ k = query.k
      /\ k \in Nat /\ 1 <= k /\ k \in Nat \ {0}
  BY DistType DEF Nearest
<1>0. /\ n \in Nat /\ n = Len(queue) /\ n <= k /\ k \in Nat \ {0} /\ k = query.k
      /\ queue \in Seq(Entries) /\ DOMAIN queue = 1 .. n
      /\ \A a \in 1 .. n : queue[a] \in Entries
  BY DistType DEF Nearest
<1>1. /\ n \in Nat /\ n = Len(queue) /\ n <= k /\ k \in Nat \ {0} /\ k = query.k
      /\ queue \in Seq(Entries) /\ DOMAIN queue = 1 .. n
      /\ \A a \in 1 .. n : queue[a].prior = Dist(queue[a].value) /\ queue[a].value \in Item
      /\ \A j \in Item : Dist(j) \in Nat
  <2>1. \A j \in Item : Dist(j) \in Nat
    BY DistType
  <2>2. ASSUME NEW a \in 1 .. n
        PROVE  queue[a].prior = Dist(queue[a].value) /\ queue[a].value \in Item
    BY <1>0 DEF Nearest, Entries
  <2> HIDE DEF n, k
  <2> QED BY <1>0, <2>1, <2>2
<1>2. \A a \in 1 .. n : queue[a].prior \in Nat
  BY <1>1
<1>3. \A a, b \in 1 .. n : a < b => /\ queue[a].prior <= queue[b].prior
                                    /\ queue[a].value # queue[b].value
  BY <1>1 DEF Nearest
<1> HIDE DEF n, k
<1>4. CASE ~ Closer(Dist(i), queue)
  <2>1. Offer(i) = queue
    BY <1>4 DEF Offer
  <2>2. n = k /\ queue[k].prior <= Dist(i)
    BY <1>1, <1>2, <1>4 DEF Closer
  <2>3. Settled(i, queue)
    BY <1>1, <2>2 DEF Settled
  <2> QED BY <2>1, <2>3
<1>5. CASE Closer(Dist(i), queue)
  <2>1. Offer(i) = r
    BY <1>1, <1>5 DEF Offer
  <2>2. e \in Entries /\ e.value = i /\ e.prior = Dist(i)
    BY <1>1 DEF Entry, Entries
  <2> HIDE DEF e
  <2>3. Sorted(queue)
    BY <1>1, <1>3 DEF Sorted
  <2>3a. PICK p : Inserted(queue, k, e, p, r)
    BY <1>0, <2>2, <2>3, PushMeans
  <2> HIDE DEF r
  <2>4. /\ p \in 0 .. n /\ r \in Seq(Entries)
        /\ Len(r) = IF n < k THEN n + 1 ELSE k
        /\ \A j \in 1 .. p : queue[j].prior <= e.prior
        /\ \A j \in (p + 1) .. n : e.prior < queue[j].prior
        /\ \A j \in 1 .. Len(r) :
             r[j] = IF j <= p THEN queue[j] ELSE IF j = p + 1 THEN e ELSE queue[j - 1]
    BY <1>0, <2>3a DEF Inserted
  <2>5. /\ DOMAIN r = 1 .. Len(r) /\ Len(r) \in Nat /\ n <= Len(r)
        /\ Len(r) <= n + 1 /\ Len(r) <= k /\ p \in Nat /\ p <= n
        /\ (n < Len(r) \/ n = k)
    BY <1>1, <2>4
  <2>6. \A a \in 1 .. p : a \in 1 .. n /\ a \in 1 .. Len(r) /\ r[a] = queue[a]
    BY <1>1, <2>4, <2>5
  <2>7. p + 1 <= Len(r) => r[p + 1] = e
    BY <1>1, <2>4, <2>5
  <2>8. \A a \in (p + 2) .. Len(r) : a - 1 \in 1 .. n /\ r[a] = queue[a - 1]
    BY <1>1, <2>4, <2>5
  <2>9. \A a \in 1 .. Len(r) : a \in 1 .. p \/ a = p + 1 \/ a \in (p + 2) .. Len(r)
    BY <1>1, <2>5
  <2>10. ASSUME NEW a \in 1 .. Len(r)
         PROVE  /\ r[a].prior = Dist(r[a].value)
                /\ r[a].value = i \/ \E b \in DOMAIN queue : r[a].value = queue[b].value
    <3>1. CASE a \in 1 .. p
      BY <1>1, <2>6, <3>1
    <3>2. CASE a = p + 1
      BY <1>1, <2>2, <2>7, <3>2
    <3>3. CASE a \in (p + 2) .. Len(r)
      BY <1>1, <2>8, <3>3
    <3> QED BY <2>9, <3>1, <3>2, <3>3
  <2>11. ASSUME NEW a \in 1 .. Len(r), NEW b \in 1 .. Len(r), a < b
         PROVE  r[a].prior <= r[b].prior /\ r[a].value # r[b].value
    <3>1. CASE a \in 1 .. p
      <4>1. CASE b \in 1 .. p
        BY <1>3, <2>6, <2>11, <3>1, <4>1
      <4>2. CASE b = p + 1
        <5>1. r[b] = e
          BY <2>5, <2>7, <4>2
        <5>2. r[a] = queue[a] /\ a \in DOMAIN queue /\ queue[a].prior <= e.prior
          BY <1>1, <2>4, <2>6, <3>1
        <5> QED BY <2>2, <5>1, <5>2
      <4>3. CASE b \in (p + 2) .. Len(r)
        <5>1. a < b - 1 /\ b - 1 \in 1 .. n /\ r[b] = queue[b - 1]
          BY <2>5, <2>8, <3>1, <4>3
        <5> QED BY <1>3, <2>6, <3>1, <5>1
      <4> QED BY <2>9, <4>1, <4>2, <4>3
    <3>2. CASE a = p + 1
      <4>1. b \in (p + 2) .. Len(r)
        BY <2>5, <2>11, <3>2
      <4>2. b - 1 \in (p + 1) .. n /\ b - 1 \in 1 .. n /\ r[b] = queue[b - 1]
        BY <2>5, <2>8, <4>1
      <4>3. e.prior < queue[b - 1].prior
        BY <2>4, <4>2
      <4>4. r[a] = e
        BY <2>5, <2>7, <3>2
      <4>5. queue[b - 1].prior \in Nat /\ e.prior \in Nat
        BY <1>1, <1>2, <2>2, <4>2
      <4> QED BY <1>1, <2>2, <4>2, <4>3, <4>4, <4>5
    <3>3. CASE a \in (p + 2) .. Len(r)
      <4>1. b \in (p + 2) .. Len(r)
        BY <2>5, <2>11, <3>3
      <4>2. /\ a - 1 \in 1 .. n /\ r[a] = queue[a - 1]
            /\ b - 1 \in 1 .. n /\ r[b] = queue[b - 1] /\ a - 1 < b - 1
        BY <2>5, <2>8, <2>11, <3>3, <4>1
      <4> QED BY <1>3, <4>2
    <3> QED BY <2>9, <3>1, <3>2, <3>3
  <2>12. Nearest(r)
    BY <1>1, <2>4, <2>5, <2>10, <2>11 DEF Nearest
  (* What is found stays, unless the queue is full of what is nearer. *)
  <2>13. ASSUME n = k PROVE Len(r) = k /\ r[k].prior <= queue[k].prior
    <3>1. Len(r) = k /\ k \in 1 .. n /\ k \in 1 .. Len(r)
      <4>1. k <= Len(r)
        BY <2>5, <2>13
      <4> QED BY <1>n, <2>5, <2>13, <4>1
    <3>2. queue[k].prior \in Nat /\ e.prior \in Nat
      BY <1>1, <1>2, <2>2, <3>1
    <3>3. CASE k \in 1 .. p
      BY <2>6, <3>1, <3>2, <3>3
    <3>4. CASE k = p + 1
      <4>1. k \in (p + 1) .. n /\ r[k] = e
        BY <2>5, <2>7, <3>1, <3>4
      <4> QED BY <2>4, <3>1, <3>2, <4>1
    <3>5. CASE k \in (p + 2) .. Len(r)
      <4>1. k - 1 \in 1 .. n /\ r[k] = queue[k - 1] /\ k - 1 < k
        BY <2>5, <2>8, <3>1, <3>5
      <4> QED BY <1>3, <3>1, <4>1
    <3> QED BY <2>9, <3>1, <3>3, <3>4, <3>5
  <2>14. ASSUME NEW j \in Item, Settled(j, queue) PROVE Settled(j, r)
    <3>1. CASE Len(queue) = query.k /\ queue[query.k].prior <= Dist(j)
      <4>1. k \in 1 .. n /\ queue[k].prior \in Nat /\ Dist(j) \in Nat
        BY <1>1, <1>2, <3>1
      <4>2. k \in 1 .. Len(r) /\ r[k] \in Entries
        BY <1>0, <2>4, <2>13, <3>1
      <4>3. r[k].prior \in Nat
        BY <4>2 DEF Entries
      <4> QED BY <1>1, <2>13, <3>1, <4>1, <4>3 DEF Settled
    <3>2. ASSUME NEW a \in 1 .. n, queue[a].value = j PROVE Settled(j, r)
      <4>1. CASE a \in 1 .. p
        BY <2>5, <2>6, <3>2, <4>1 DEF Settled
      <4>2. CASE a \in (p + 1) .. n /\ a + 1 <= Len(r)
        <5>1. /\ a + 1 \in (p + 2) .. Len(r) /\ (a + 1) - 1 = a
              /\ a + 1 \in 1 .. Len(r)
          BY <2>5, <4>2
        <5>2. r[a + 1] = queue[a]
          BY <2>8, <5>1
        <5> QED BY <2>5, <3>2, <5>1, <5>2 DEF Settled
      <4>3. CASE a \in (p + 1) .. n /\ ~ (a + 1 <= Len(r))
        <5>1. a = n /\ n = k
          BY <1>1, <2>5, <4>3
        <5>2. queue[k].prior = Dist(j)
          BY <1>1, <3>2, <5>1
        <5> QED BY <1>1, <2>13, <5>1, <5>2 DEF Settled
      <4> QED BY <2>5, <4>1, <4>2, <4>3
    <3> QED BY <1>1, <2>14, <3>1, <3>2 DEF Settled
  <2>15. Settled(i, r)
    <3>1. CASE p + 1 <= Len(r)
      <4>1. p + 1 \in DOMAIN r /\ r[p + 1].value = i
        BY <2>2, <2>5, <2>7, <3>1
      <4> QED BY <4>1 DEF Settled
    <3>2. CASE ~ (p + 1 <= Len(r))
      <4>1. p = n /\ n = k /\ Len(r) = k /\ k \in 1 .. p
        BY <1>1, <2>5, <3>2
      <4>2. r[k] = queue[k] /\ queue[k].prior <= e.prior
        BY <2>4, <2>6, <4>1
      <4> QED BY <1>1, <2>2, <4>1, <4>2 DEF Settled
    <3> QED BY <3>1, <3>2
  <2> QED BY <2>1, <2>5, <2>10, <2>12, <2>14, <2>15
<1> QED BY <1>4, <1>5

-----------------------------------------------------------------------------
(* The search.                                                             *)

(* The points that the search has still before it: where it is, and at and *)
(* on the far side of the nodes it comes back to.                          *)
Pending ==
  {j \in DOMAIN root :
     \/ IsPrefix(at, root[j])
     \/ \E a \in DOMAIN path :
          j = path[a] \/ IsPrefix(Far(query.vec, root, path[a]), root[j])}

(* Each node it comes back to has those after it, and where the search is, *)
(* on its near side.                                                       *)
WalkedDown ==
  \A a \in DOMAIN path :
    /\ IsPrefix(Near(query.vec, root, path[a]), at)
    /\ \A b \in DOMAIN path :
         a < b => IsPrefix(Near(query.vec, root, path[a]), root[path[b]])

SearchInv ==
  IF op = "knn"
  THEN /\ query \in Queries
       /\ at \in Place /\ path \in Seq(DOMAIN root) /\ WalkedDown
       /\ Nearest(queue)
       /\ \A a \in DOMAIN queue : queue[a].value \in DOMAIN root \ Pending
       /\ \A j \in DOMAIN root \ Pending : Settled(j, queue)
  ELSE at = <<>> /\ path = <<>> /\ queue = <<>>

(* The two sides of a node. *)
LEMMA Sides ==
  ASSUME TreeInv, NEW v, NEW i \in DOMAIN root, NEW p \in Place
  PROVE  /\ Near(v, root, i) \in Place /\ Far(v, root, i) \in Place
         /\ IsPrefix(root[i], Near(v, root, i)) /\ IsPrefix(root[i], Far(v, root, i))
         /\ ~ IsPrefix(Near(v, root, i), root[i]) /\ ~ IsPrefix(Far(v, root, i), root[i])
         /\ ~ (IsPrefix(Near(v, root, i), p) /\ IsPrefix(Far(v, root, i), p))
         /\ IsPrefix(root[i], p) => \/ root[i] = p
                                    \/ IsPrefix(Near(v, root, i), p)
                                    \/ IsPrefix(Far(v, root, i), p)
<1>1. root[i] \in Place
  BY DEF TreeInv, IsTree
<1>2. \A side \in Side : /\ Append(root[i], side) \in Place
                         /\ IsPrefix(root[i], Append(root[i], side))
                         /\ ~ IsPrefix(Append(root[i], side), root[i])
  BY <1>1, BelowSide
<1>3. /\ ~ (IsPrefix(Left(root, i), p) /\ IsPrefix(Right(root, i), p))
      /\ IsPrefix(root[i], p) => \/ root[i] = p
                                 \/ IsPrefix(Left(root, i), p)
                                 \/ IsPrefix(Right(root, i), p)
  BY <1>1, BelowPlace DEF Left, Right
<1>4. \/ Near(v, root, i) = Left(root, i) /\ Far(v, root, i) = Right(root, i)
      \/ Near(v, root, i) = Right(root, i) /\ Far(v, root, i) = Left(root, i)
  BY DEF Near, Far
<1>5. \A t \in {Left(root, i), Right(root, i)} :
        t \in Place /\ IsPrefix(root[i], t) /\ ~ IsPrefix(t, root[i])
  BY <1>2 DEF Left, Right, Side
<1> QED BY <1>3, <1>4, <1>5

(* Down goes to the near side, and keeps the node and its far side in      *)
(* mind: what is pending stays the same.                                   *)
LEMMA DownStep ==
  ASSUME TreeInv, SearchInv, Down
  PROVE  SearchInv'
<1>1. PICK i \in DOMAIN root : /\ root[i] = at
                               /\ path' = Append(path, i)
                               /\ at' = Near(query.vec, root, i)
  BY DEF Down
<1> DEFINE v == query.vec
           n == Len(path)
<1>2. /\ op = "knn" /\ op' = "knn" /\ query' = query /\ queue' = queue /\ root' = root
      /\ at \in Place /\ path \in Seq(DOMAIN root) /\ query \in Queries
  BY DEF Down, SearchInv, treeVars
<1>3. /\ n \in Nat /\ DOMAIN path = 1 .. n /\ DOMAIN path' = 1 .. (n + 1)
      /\ \A a \in 1 .. n : path[a] \in DOMAIN root /\ path'[a] = path[a]
      /\ path'[n + 1] = i /\ path' \in Seq(DOMAIN root)
  BY <1>1, <1>2
<1> HIDE DEF n
<1>4. /\ at' \in Place /\ IsPrefix(at, at')
  BY <1>1, <1>2, Sides
<1>5. \A j \in DOMAIN root : root[j] \in Place
  BY DEF TreeInv, IsTree
<1>6. Pending' = Pending
  <2>1. ASSUME NEW j \in DOMAIN root
        PROVE  IsPrefix(at, root[j]) <=> \/ j = i
                                         \/ IsPrefix(at', root[j])
                                         \/ IsPrefix(Far(v, root, i), root[j])
    <3>1. IsPrefix(at, root[j]) => \/ root[j] = root[i]
                                   \/ IsPrefix(at', root[j])
                                   \/ IsPrefix(Far(v, root, i), root[j])
      BY <1>1, <1>5, Sides
    <3>2. root[j] = root[i] => j = i
      BY DEF TreeInv, IsInjective
    <3>3. j = i => IsPrefix(at, root[j])
      BY <1>1, <1>2, PrefixOrder
    <3>4. IsPrefix(at', root[j]) => IsPrefix(at, root[j])
      BY <1>2, <1>4, <1>5, PrefixOrder
    <3>5. IsPrefix(Far(v, root, i), root[j]) => IsPrefix(at, root[j])
      BY <1>1, <1>2, <1>5, Sides, PrefixOrder
    <3> QED BY <3>1, <3>2, <3>3, <3>4, <3>5
  <2>2. ASSUME NEW j \in DOMAIN root
        PROVE  (\E a \in DOMAIN path' :
                  j = path'[a] \/ IsPrefix(Far(v, root, path'[a]), root[j]))
               <=> \/ j = i \/ IsPrefix(Far(v, root, i), root[j])
                   \/ \E a \in DOMAIN path :
                        j = path[a] \/ IsPrefix(Far(v, root, path[a]), root[j])
    <3>1. \A a \in DOMAIN path' : a \in 1 .. n \/ a = n + 1
      BY <1>3
    <3>2. \A a \in 1 .. n : a \in DOMAIN path'
      BY <1>3
    <3>3. n + 1 \in DOMAIN path'
      BY <1>3
    <3> QED BY <1>3, <3>1, <3>2, <3>3
  <2> QED BY <1>2, <2>1, <2>2 DEF Pending
<1>7. WalkedDown'
  <2>1. ASSUME NEW a \in 1 .. n
        PROVE  IsPrefix(Near(v, root, path[a]), at)
    BY <1>2, <1>3 DEF SearchInv, WalkedDown
  <2>2. ASSUME NEW a \in 1 .. n
        PROVE  IsPrefix(Near(v, root, path[a]), at')
    <3>1. Near(v, root, path[a]) \in Place
      BY <1>2, <1>3, Sides
    <3> QED BY <1>2, <1>4, <2>1, <3>1, PrefixOrder
  <2>3. IsPrefix(Near(v, root, i), at')
    BY <1>1, <1>4, PrefixOrder
  <2>4. ASSUME NEW a \in 1 .. (n + 1), NEW b \in 1 .. (n + 1), a < b
        PROVE  IsPrefix(Near(v, root, path'[a]), root[path'[b]])
    <3>1. a \in 1 .. n /\ (b \in 1 .. n \/ b = n + 1)
      BY <1>3, <2>4
    <3>2. CASE b \in 1 .. n
      BY <1>2, <1>3, <2>4, <3>1, <3>2 DEF SearchInv, WalkedDown
    <3>3. CASE b = n + 1
      BY <1>1, <1>3, <2>1, <3>1, <3>3
    <3> QED BY <3>1, <3>2, <3>3
  <2>5. ASSUME NEW a \in 1 .. (n + 1)
        PROVE  IsPrefix(Near(v, root, path'[a]), at')
    <3>1. a \in 1 .. n \/ a = n + 1
      BY <1>3
    <3> QED BY <1>3, <2>2, <2>3, <3>1
  <2> QED BY <1>2, <1>3, <2>4, <2>5 DEF WalkedDown
<1>8. Nearest(queue)' /\ \A j \in DOMAIN root : Settled(j, queue) <=> Settled(j, queue)'
  BY <1>2 DEF SearchInv, Nearest, Settled, Dist
<1> QED BY <1>2, <1>3, <1>4, <1>6, <1>7, <1>8 DEF SearchInv

(* What Back leaves out is not nearer than the k-th found so far. *)
LEMMA FarSide ==
  ASSUME TreeInv, query \in Queries, NEW i \in DOMAIN root, NEW j \in DOMAIN root,
         IsPrefix(Far(query.vec, root, i), root[j])
  PROVE  LET gap == Along(query.fn, query.vec, Vec[i], Dim(root[i])) IN
         gap \in Nat /\ gap <= Dist(j)
<1> DEFINE v == query.vec
           d == Dim(root[i])
<1>1. /\ d \in Dimension /\ i \in Item /\ j \in Item
  BY Levels DEF TreeInv, IsTree
<1>2. /\ v \in Vector /\ Vec[i] \in Vector /\ Vec[j] \in Vector
      /\ query.fn \in Functions /\ v[d] \in Int /\ Vec[i][d] \in Int
  BY <1>1, KDAssumption DEF Queries, Vector
<1>3. Between(v, Vec[i], Vec[j], d)
  <2>1. CASE Before(v, root, i)
    <3>1. IsPrefix(Right(root, i), root[j])
      BY <2>1 DEF Far
    <3>2. Vec[i][d] <= Vec[j][d]
      BY <3>1 DEF TreeInv, Splits
    <3> QED BY <1>2, <2>1, <3>2 DEF Before, Between
  <2>2. CASE ~ Before(v, root, i)
    <3>1. IsPrefix(Left(root, i), root[j])
      BY <2>2 DEF Far
    <3>2. Vec[j][d] <= Vec[i][d]
      BY <3>1 DEF TreeInv, Splits
    <3> QED BY <1>2, <2>2, <3>2 DEF Before, Between
  <2> QED BY <2>1, <2>2
<1> HIDE DEF v, d
<1>4. /\ Along(query.fn, v, Vec[i], d) \in Nat
      /\ Along(query.fn, v, Vec[i], d) <= Distance(query.fn, v, Vec[j])
  <2>1. v \in Vector /\ Vec[i] \in Vector /\ Vec[j] \in Vector
    BY <1>2
  <2>2. query.fn \in Functions /\ d \in Dimension
    BY <1>1, <1>2
  <2> QED BY <1>3, <2>1, <2>2, GapBounds
<1> QED BY <1>4 DEF Dist, v, d

(* Back offers the last node, and goes to its far side or leaves it out.   *)
LEMMA BackStep ==
  ASSUME TreeInv, SearchInv, Back
  PROVE  SearchInv'
<1> DEFINE v == query.vec
           n == Len(path)
           i == path[n]
           gap == Along(query.fn, v, Vec[i], Dim(root[i]))
<1>1. /\ op = "knn" /\ op' = "knn" /\ query' = query /\ root' = root
      /\ at \in Place /\ path \in Seq(DOMAIN root) /\ query \in Queries
      /\ Nearest(queue) /\ path # <<>> /\ at \notin Range(root)
      /\ WalkedDown
      /\ \A a \in DOMAIN queue : queue[a].value \in DOMAIN root \ Pending
      /\ \A j \in DOMAIN root \ Pending : Settled(j, queue)
  BY DEF Back, SearchInv, treeVars
<1>2. /\ queue' = Offer(i)
      /\ at' = IF Closer(gap, queue') THEN Far(v, root, i) ELSE at
      /\ path' = Front(path)
  BY DEF Back, Last
<1>3. /\ n \in Nat \ {0} /\ DOMAIN path = 1 .. n /\ DOMAIN path' = 1 .. (n - 1)
      /\ i \in DOMAIN root /\ i \in Item
      /\ \A a \in 1 .. (n - 1) : path[a] \in DOMAIN root /\ path'[a] = path[a]
      /\ path' \in Seq(DOMAIN root)
  <2>1. n \in Nat \ {0} /\ DOMAIN path = 1 .. n /\ \A a \in 1 .. n : path[a] \in DOMAIN root
    BY <1>1
  <2>2. path' = SubSeq(path, 1, n - 1)
    BY <1>2 DEF Front
  <2>3. /\ DOMAIN path' = 1 .. (n - 1) /\ path' \in Seq(DOMAIN root)
        /\ \A a \in 1 .. (n - 1) : path'[a] = path[a]
    BY <1>1, <2>1, <2>2
  <2>4. i \in DOMAIN root
    BY <2>1
  <2> QED BY <2>1, <2>3, <2>4 DEF TreeInv, IsTree
<1> HIDE DEF n, i, gap
<1>4. \A j \in DOMAIN root : root[j] \in Place /\ ~ IsPrefix(at, root[j]) /\ j \in Item
  BY <1>1 DEF TreeInv, IsTree
<1>5. at' \in Place
  BY <1>1, <1>2, <1>3, Sides
<1>6. i = path[n]
  BY DEF i
<1>7. \A a \in 1 .. (n - 1) : /\ IsPrefix(Near(v, root, path[a]), root[i])
                              /\ Near(v, root, path[a]) \in Place
  BY <1>1, <1>3, <1>6, Sides DEF WalkedDown
(* The node is pending, and no longer. *)
<1>8. i \in Pending
  BY <1>1, <1>3, <1>6 DEF Pending
<1>9. i \notin Pending'
  <2>1. ~ IsPrefix(at', root[i])
    BY <1>2, <1>3, <1>4, Sides
  <2>2. ASSUME NEW a \in 1 .. (n - 1)
        PROVE  i # path[a] /\ ~ IsPrefix(Far(v, root, path[a]), root[i])
    BY <1>3, <1>4, <1>7, <2>2, Sides
  <2> QED BY <1>1, <1>3, <2>1, <2>2 DEF Pending
<1>10. Pending' \subseteq Pending
  <2> SUFFICES ASSUME NEW j \in Pending' PROVE j \in Pending
    OBVIOUS
  <2>1. j \in DOMAIN root
    BY <1>1 DEF Pending
  <2>2. CASE IsPrefix(at', root[j])
    <3>1. IsPrefix(Far(v, root, i), root[j])
      BY <1>2, <1>4, <2>1, <2>2
    <3> QED BY <1>3, <1>6, <2>1, <3>1 DEF Pending
  <2>3. ASSUME NEW a \in 1 .. (n - 1),
               j = path[a] \/ IsPrefix(Far(v, root, path[a]), root[j])
        PROVE  j \in Pending
    BY <1>3, <2>1, <2>3 DEF Pending
  <2> QED BY <1>1, <1>3, <2>2, <2>3 DEF Pending
(* What else is no longer pending is on a far side that is left out. *)
<1>11. ASSUME NEW j \in Pending, j \notin Pending', j # i
       PROVE  j \in DOMAIN root /\ ~ Closer(gap, queue') /\ IsPrefix(Far(v, root, i), root[j])
  <2>1. j \in DOMAIN root
    BY DEF Pending
  <2>2. PICK a \in 1 .. n : j = path[a] \/ IsPrefix(Far(v, root, path[a]), root[j])
    BY <1>3, <1>4, <2>1 DEF Pending
  <2>3. ~ (a \in 1 .. (n - 1))
    BY <1>1, <1>3, <1>11, <2>1, <2>2 DEF Pending
  <2>4. a = n
    BY <1>3, <2>3
  <2>5. IsPrefix(Far(v, root, i), root[j])
    BY <1>6, <1>11, <2>2, <2>4
  <2>6. ~ IsPrefix(at', root[j])
    BY <1>1, <1>11, <2>1 DEF Pending
  <2> QED BY <1>2, <2>1, <2>5, <2>6
<1>12. \A a \in DOMAIN queue : queue[a].value # i
  BY <1>1, <1>8
<1>13. /\ Nearest(queue')
       /\ \A a \in DOMAIN queue' : \/ queue'[a].value = i
                                   \/ \E b \in DOMAIN queue : queue'[a].value = queue[b].value
       /\ \A j \in Item : Settled(j, queue) => Settled(j, queue')
       /\ Settled(i, queue')
  BY <1>1, <1>2, <1>3, <1>12, OfferMeans
<1>14. Nearest(queue)' /\ \A j : Settled(j, queue)' <=> Settled(j, queue')
  BY <1>1, <1>13 DEF Nearest, Settled, Dist
<1>15. \A a \in DOMAIN queue' : queue'[a].value \in DOMAIN root \ Pending'
  BY <1>1, <1>3, <1>9, <1>10, <1>13
<1>16. ASSUME NEW j \in DOMAIN root \ Pending' PROVE Settled(j, queue')
  <2>1. CASE j \notin Pending
    BY <1>1, <1>4, <1>13, <2>1
  <2>2. CASE j = i
    BY <1>13, <2>2
  <2>3. CASE j \in Pending /\ j # i
    <3>1. ~ Closer(gap, queue') /\ IsPrefix(Far(v, root, i), root[j])
      BY <1>11, <1>16, <2>3
    <3>2. gap \in Nat /\ gap <= Dist(j)
      BY <1>1, <1>3, <3>1, FarSide DEF gap
    <3>3. query.k \in Nat \ {0} /\ Dist(j) \in Nat
      BY <1>1, <1>4, <1>16, DistType
    <3>4. Len(queue') = query.k /\ queue'[query.k].prior <= gap
      <4>1. Len(queue') \in Nat /\ Len(queue') <= query.k /\ queue' \in Seq(Entries)
        BY <1>13 DEF Nearest
      <4>2. ~ (Len(queue') < query.k) /\ ~ (gap < queue'[query.k].prior)
        BY <3>1 DEF Closer
      <4>3. Len(queue') = query.k
        BY <3>3, <4>1, <4>2
      <4>4. queue'[query.k] \in Entries
        BY <3>3, <4>1, <4>3
      <4>5. queue'[query.k].prior \in Nat
        BY <4>4 DEF Entries
      <4> QED BY <3>2, <4>2, <4>3, <4>5
    <3>5. queue'[query.k].prior \in Nat
      <4>1. queue' \in Seq(Entries)
        BY <1>13 DEF Nearest
      <4>2. queue'[query.k] \in Entries
        BY <3>3, <3>4, <4>1
      <4> QED BY <4>2 DEF Entries
    <3> QED BY <3>2, <3>3, <3>4, <3>5 DEF Settled
  <2> QED BY <2>1, <2>2, <2>3
<1>17. WalkedDown'
  <2>1. ASSUME NEW a \in 1 .. (n - 1) PROVE IsPrefix(Near(v, root, path[a]), at')
    <3>1. CASE at' = at
      BY <1>1, <1>3, <3>1 DEF WalkedDown
    <3>2. CASE at' = Far(v, root, i)
      <4>1. IsPrefix(root[i], at')
        BY <1>3, <1>4, <3>2, Sides
      <4> QED BY <1>3, <1>4, <1>5, <1>7, <4>1, PrefixOrder
    <3> QED BY <1>2, <3>1, <3>2
  <2>2. ASSUME NEW a \in 1 .. (n - 1), NEW b \in 1 .. (n - 1), a < b
        PROVE  IsPrefix(Near(v, root, path[a]), root[path[b]])
    BY <1>1, <1>3, <2>2 DEF WalkedDown
  <2> QED BY <1>1, <1>3, <2>1, <2>2 DEF WalkedDown
<1> QED BY <1>1, <1>3, <1>5, <1>14, <1>15, <1>16, <1>17 DEF SearchInv

(* KNN begins at the root, with every point before it. *)
LEMMA KNNStep ==
  ASSUME TreeInv, SearchInv,
         NEW v \in Query, NEW k \in Ks, NEW fn \in DistFns, KNN(v, k, fn)
  PROVE  SearchInv'
<1>1. /\ op' = "knn" /\ query' = [vec |-> v, k |-> k, fn |-> fn] /\ root' = root
      /\ at' = <<>> /\ path' = <<>> /\ queue' = <<>>
  BY DEF KNN, SearchInv, treeVars
<1>2. query' \in Queries /\ query'.k \in Nat
  BY <1>1, KDAssumption DEF Queries
<1>3. \A j \in DOMAIN root : IsPrefix(<<>>, root[j])
  <2>1. <<>> \in Place /\ Len(<<>>) = 0 /\ \A j \in DOMAIN root : root[j] \in Place
    BY DEF TreeInv, IsTree, Place
  <2>2. \A j \in DOMAIN root : Len(root[j]) \in Nat
    BY <2>1 DEF Place
  <2> QED BY <2>1, <2>2, PrefixMeans
<1>4. Pending' = DOMAIN root
  BY <1>1, <1>3 DEF Pending
<1>5. Nearest(queue)'
  BY <1>1, <1>2 DEF Nearest
<1>6. at' \in Place /\ path' \in Seq(DOMAIN root) /\ WalkedDown'
  BY <1>1 DEF Place, WalkedDown
<1> QED BY <1>1, <1>2, <1>4, <1>5, <1>6 DEF SearchInv

LEMMA SearchInvariant == Spec => [](TreeInv /\ SearchInv)
<1>1. Init => SearchInv
  BY DEF Init, SearchInv
<1>2. TreeInv /\ SearchInv /\ [Next]_vars => SearchInv'
  <2> SUFFICES ASSUME TreeInv, SearchInv, [Next]_vars PROVE SearchInv'
    OBVIOUS
  <2>1. ASSUME op # "knn", op' # "knn", UNCHANGED searchVars PROVE SearchInv'
    BY <2>1 DEF SearchInv, searchVars
  <2>2. ASSUME NEW i \in Item, InsertPoint(i) PROVE SearchInv'
    BY <2>1, <2>2 DEF InsertPoint
  <2>3. CASE Balance
    BY <2>1, <2>3 DEF Balance, Start
  <2>4. ASSUME NEW S, Build(S) PROVE SearchInv'
    BY <2>1, <2>4 DEF Build, Start
  <2>5. ASSUME NEW s, Halve(s) PROVE SearchInv'
    BY <2>1, <2>5 DEF Halve
  <2>6. CASE Switch
    BY <2>1, <2>6 DEF Switch
  <2>7. ASSUME NEW v \in Query, NEW k \in Ks, NEW fn \in DistFns, KNN(v, k, fn)
        PROVE  SearchInv'
    BY <2>7, KNNStep
  <2>8. CASE Down
    BY <2>8, DownStep
  <2>9. CASE Back
    BY <2>9, BackStep
  <2>10. CASE Return
    BY <2>10 DEF Return, SearchInv
  <2>11. CASE UNCHANGED vars
    <3>1. /\ op' = op /\ query' = query /\ at' = at /\ path' = path /\ queue' = queue
          /\ root' = root
      BY <2>11 DEF vars, treeVars, searchVars
    <3> QED BY <3>1 DEF SearchInv, Pending, WalkedDown, Nearest, Settled, Dist
  <2> QED BY <2>2, <2>3, <2>4, <2>5, <2>6, <2>7, <2>8, <2>9, <2>10, <2>11 DEF Next
<1> QED BY <1>1, <1>2, TreeInvariant, PTL DEF Spec

(* When nothing is before a search any more, its queue holds the nearest:  *)
(* every other point has been seen, or lies in a part of the tree in which *)
(* nothing is nearer than the k-th found.                                  *)
THEOREM NearestFirst == Spec => []NearestFound
<1>1. TreeInv /\ SearchInv => NearestFound
  <2> SUFFICES ASSUME TreeInv, SearchInv, Finished PROVE NearestFound
    BY DEF NearestFound
  <2> DEFINE found == PopAll(queue)
  <2>1. /\ query \in Queries /\ Nearest(queue) /\ path = <<>> /\ at \notin Range(root)
        /\ \A a \in DOMAIN queue : queue[a].value \in DOMAIN root
        /\ \A j \in DOMAIN root \ Pending : Settled(j, queue)
    BY DEF SearchInv, Finished
  <2>2. Pending = {}
    <3>1. \A j \in DOMAIN root : ~ IsPrefix(at, root[j])
      BY <2>1 DEF TreeInv, IsTree, SearchInv, Finished
    <3> QED BY <2>1, <3>1 DEF Pending
  <2>3. \A j \in DOMAIN root : Settled(j, queue) /\ j \in Item
    BY <2>1, <2>2 DEF TreeInv, IsTree
  <2>4. /\ queue \in Seq(Entries) /\ Len(queue) \in Nat /\ Len(queue) <= query.k
        /\ DOMAIN queue = 1 .. Len(queue) /\ query.k \in Nat \ {0}
    <3>1. queue \in Seq(Entries) /\ Len(queue) <= query.k
      BY <2>1 DEF Nearest
    <3>2. query.k \in Nat \ {0}
      BY <2>1, KDAssumption DEF Queries
    <3> QED BY <3>1, <3>2
  <2>5. /\ found = [a \in 1 .. Len(queue) |-> queue[a].value]
        /\ DOMAIN found = 1 .. Len(queue) /\ Len(found) = Len(queue)
        /\ \A a \in 1 .. Len(queue) : found[a] = queue[a].value
    BY <2>4 DEF PopAll
  <2> HIDE DEF found
  <2>6. \A a \in 1 .. Len(queue) : /\ queue[a].prior = Dist(found[a])
                                   /\ found[a] \in DOMAIN root
                                   /\ queue[a].prior \in Nat
    <3>1. \A a \in 1 .. Len(queue) : queue[a] \in Entries
      BY <2>4
    <3> QED BY <2>1, <2>4, <2>5, <3>1 DEF Nearest, Entries
  <2>7. \A a, b \in 1 .. Len(queue) :
          a < b => queue[a].prior <= queue[b].prior /\ found[a] # found[b]
    BY <2>1, <2>4, <2>5 DEF Nearest
  <2>8. IsInjective(found)
    <3>1. ASSUME NEW a \in 1 .. Len(queue), NEW b \in 1 .. Len(queue), found[a] = found[b]
          PROVE  a = b
      <4>1. a < b \/ a = b \/ b < a
        BY <2>4
      <4> QED BY <2>7, <3>1, <4>1
    <3> QED BY <2>5, <3>1 DEF IsInjective
  <2>9. Range(found) \subseteq DOMAIN root
    BY <2>5, <2>6 DEF Range
  <2>10. ASSUME NEW j \in DOMAIN root, j \notin Range(found)
         PROVE  Len(queue) = query.k /\ queue[query.k].prior <= Dist(j)
    <3>1. \A a \in 1 .. Len(queue) : queue[a].value # j
      BY <2>5, <2>10 DEF Range
    <3> QED BY <2>3, <2>4, <3>1 DEF Settled
  <2>11. Len(found) < query.k => Range(found) = DOMAIN root
    <3>1. ASSUME Len(found) < query.k, NEW j \in DOMAIN root PROVE j \in Range(found)
      <4>1. Len(queue) # query.k
        BY <2>4, <2>5, <3>1
      <4> QED BY <2>10, <4>1
    <3> QED BY <2>9, <3>1
  <2>12. ASSUME NEW a \in 1 .. Len(queue)
         PROVE  /\ \A b \in 1 .. Len(queue) : a < b => Dist(found[a]) <= Dist(found[b])
                /\ \A j \in DOMAIN root \ Range(found) : Dist(found[a]) <= Dist(j)
    <3>1. \A b \in 1 .. Len(queue) : a < b => Dist(found[a]) <= Dist(found[b])
      BY <2>6, <2>7
    <3>2. ASSUME NEW j \in DOMAIN root \ Range(found) PROVE Dist(found[a]) <= Dist(j)
      <4>1. Len(queue) = query.k /\ queue[query.k].prior <= Dist(j)
        BY <2>10, <3>2
      <4>2. query.k \in 1 .. Len(queue) /\ (a < query.k \/ a = query.k)
        BY <2>4, <4>1
      <4>3. queue[a].prior <= queue[query.k].prior
        BY <2>6, <2>7, <4>2
      <4>4. Dist(j) \in Nat /\ queue[a].prior \in Nat /\ queue[query.k].prior \in Nat
        BY <2>1, <2>3, <2>6, <4>2, DistType
      <4> QED BY <2>6, <4>1, <4>3, <4>4
    <3> QED BY <3>1, <3>2
  <2> QED BY <2>4, <2>5, <2>8, <2>9, <2>11, <2>12 DEF NearestFound, found
<1> QED BY <1>1, SearchInvariant, PTL

=============================================================================
