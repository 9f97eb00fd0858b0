------------------------------- MODULE MCGbkd -------------------------------
(* Model checking Gbkd: data points with the times 1 to 4.                 *)
EXTENDS Gbkd

CONSTANTS i1, i2, i3, i4

MCTimeOf == [i \in Item |-> CASE i = i1 -> 1 [] i = i2 -> 2
                               [] i = i3 -> 3 [] i = i4 -> 4]
=============================================================================
