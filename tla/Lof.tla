--------------------------------- MODULE Lof ---------------------------------
(***************************************************************************)
(* internal/predictor/lof: the verdict on a vector, from searches in the   *)
(* data points of Brute.                                                   *)
(*                                                                         *)
(* The densities are floating-point numbers: 1 / 0 is +Inf, +Inf / +Inf is *)
(* NaN, which is not greater than anything.  The module keeps the sums of  *)
(* distances, which are numbers, and compares the fractions multiplied     *)
(* out; rounding is left out.                                              *)
(***************************************************************************)
EXTENDS Brute

CONSTANTS
  SkipItems,  \* opts.skipItems
  Query       \* the vectors that are judged: numbers, like those of Vec

ASSUME LofAssumption == SkipItems \in Nat /\ Query \subseteq Nat

MinKNum == 3

SumOf(s) ==
  LET sum[j \in 0 .. Len(s)] == IF j = 0 THEN 0 ELSE sum[j - 1] + s[j]
  IN sum[Len(s)]

Product(s) ==
  LET product[j \in 0 .. Len(s)] == IF j = 0 THEN 1 ELSE product[j - 1] * s[j]
  IN product[Len(s)]

(* The searches fail together: when there are too few points.              *)
Fails(list) == Len(list) < KNum \/ Len(list) < 3

(* math.Max(kDistance(vec), the distance between vec and vec1), and        *)
(* kDistance goes to the first of three: the nearest, not the farthest.    *)
KDistance(list, vec) == Dist(vec, KNN(list, vec, 3)[1])

(* The sum in lrd, whose quotient is KNum / RSum(vec).                     *)
RSum(list, vec) ==
  LET kDistance == KDistance(list, vec)
      nn == KNN(list, vec, KNum)
      Reach(vec1) == IF kDistance > Dist(vec, vec1) THEN kDistance ELSE Dist(vec, vec1)
  IN SumOf([j \in DOMAIN nn |-> Reach(nn[j])])

(* avgLrd / lrd > LOF, where r is the sum of the vector, s those of its    *)
(* neighbours: the sum of r / s[i] against KNum, unless one of them is     *)
(* zero.  With r = 0 the quotient is NaN or zero, with s[i] = 0 it is +Inf.*)
Denser(r, s) ==
  r * SumOf([i \in DOMAIN s |-> Product(s) \div s[i]]) > KNum * Product(s)

(* Mutant: NaN is taken for an outlier: the comparison is turned round. *)
ExceedsOrNaN(r, s) ==
  IF \E i \in DOMAIN s : s[i] = 0 THEN TRUE ELSE r > 0 /\ Denser(r, s)

Exceeds(r, s) == r > 0 /\ ((\E i \in DOMAIN s : s[i] = 0) \/ Denser(r, s))

Predict(list, vec) ==
  IF data.len = 0 \/ data.len < SkipItems \/ KNum < MinKNum \/ Fails(list) THEN "error"
  ELSE LET nn == KNN(list, vec, KNum)
       IN IF Exceeds(RSum(list, vec), [j \in DOMAIN nn |-> RSum(list, nn[j])])
          THEN "outlier" ELSE "normal"

-----------------------------------------------------------------------------
(* Properties.                                                             *)

Vectors(list) == [j \in DOMAIN list |-> Vec[list[j].v]]
Copies(vectors, vec) == Cardinality({j \in DOMAIN vectors : vectors[j] = vec})
Diameter(vectors) == {Dist(vectors[i], vectors[j]) : i, j \in DOMAIN vectors}

(* A vector that is farther from every stored one than these are from each *)
(* other is an outlier, though the search for the neighbours of a stored   *)
(* point finds the point itself, and even when all of these coincide and   *)
(* their densities are infinite.                                           *)
FarIsOutlier(list, vec) ==
  LET vectors == Vectors(list) IN
  (\A j \in DOMAIN vectors : \A d \in Diameter(vectors) : Dist(vec, vectors[j]) > d)
    => Predict(list, vec) = "outlier"

(* A vector that is stored as often as a search looks for neighbours is    *)
(* not, though its density is infinite and the quotient not a number.      *)
RepeatedIsNormal(list, vec) ==
  Copies(Vectors(list), vec) >= KNum => Predict(list, vec) = "normal"

(* There is an answer as soon as there are KNum points, at least three, and *)
(* then these two hold, whatever was added, repeated and removed.          *)
LofVerdict ==
  LET list == Points(data) IN
  \A vec \in Query :
    IF KNum < MinKNum \/ data.len < KNum \/ data.len < SkipItems THEN Predict(list, vec) = "error"
    ELSE FarIsOutlier(list, vec) /\ RepeatedIsNormal(list, vec)
=============================================================================
