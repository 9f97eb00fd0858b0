------------------------------ MODULE MCBrute -------------------------------
(* Model checking Brute and Lof: six data points with three possible times, *)
(* half of them with the same vector, and a query far from all of them.     *)
EXTENDS Lof

MCQuery == {5, 6, 8, 14, 42}
MCVec == <<5, 5, 5, 6, 8, 14>>
=============================================================================
