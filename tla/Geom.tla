-------------------------------- MODULE Geom --------------------------------
(***************************************************************************)
(* internal/geom/distance.go: the distances between vectors, each a loop   *)
(* over the coordinates.  Coordinates are integers, and the Euclidean      *)
(* distance is left squared, here and along one dimension: distances are   *)
(* only compared.                                                          *)
(***************************************************************************)
EXTENDS Integers

CONSTANT Dimensions   \* of every vector

ASSUME DimensionsAssumption == Dimensions \in Nat \ {0}

Dimension == 1 .. Dimensions
Vector == [Dimension -> Int]

Apart(a, b) == [d \in Dimension |-> IF a[d] < b[d] THEN b[d] - a[d]
                                                   ELSE a[d] - b[d]]

Total(x) ==
  LET sum[d \in 0 .. Dimensions] == IF d = 0 THEN 0 ELSE sum[d - 1] + x[d]
  IN sum[Dimensions]

Greatest(x) ==
  LET most[d \in 0 .. Dimensions] ==
        IF d = 0 THEN 0
        ELSE IF most[d - 1] < x[d] THEN x[d] ELSE most[d - 1]
  IN most[Dimensions]

Functions == {"EUCLIDEAN", "CHEBYSHEV", "MANHATTAN"}

Distance(fn, a, b) ==
  CASE fn = "EUCLIDEAN" -> Total([d \in Dimension |-> Apart(a, b)[d] * Apart(a, b)[d]])
    [] fn = "CHEBYSHEV" -> Greatest(Apart(a, b))
    [] fn = "MANHATTAN" -> Total(Apart(a, b))

(* distanceForDimension of pkg/kdtree. *)
Along(fn, a, b, d) ==
  IF fn = "EUCLIDEAN" THEN Apart(a, b)[d] * Apart(a, b)[d] ELSE Apart(a, b)[d]
=============================================================================
