------------------------------ MODULE MCKDTree ------------------------------
(* Model checking KDTree: up to six points of two coordinates, which       *)
(* coincide, share one coordinate or differ in both.                       *)
EXTENDS KDTree

CONSTANTS p1, p2, p3, p4, p5, p6

MCVec == [i \in Item |-> CASE i = p1 -> <<0, 1>> [] i = p2 -> <<1, 0>>
                           [] i = p3 -> <<1, 1>> [] i = p4 -> <<1, 1>>
                           [] i = p5 -> <<2, 1>> [] i = p6 -> <<2, 2>>]
MCQuery == {<<1, 1>>, <<2, 0>>, <<0, 3>>}
=============================================================================
