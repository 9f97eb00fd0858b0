---------------------------- MODULE MCDBScheduler ----------------------------
(* Model checking DBScheduler: three metrics of the one entity that is     *)
(* listed.                                                                 *)
EXTENDS DBScheduler

CONSTANTS m1, m2, m3

MCMetric == {m1, m2, m3}
MCEntityOf == [m \in MCMetric |-> "a"]
(* m2 and m3 were created at the same instant, after m1. *)
MCCreatedAt == [m \in MCMetric |-> IF m = m1 THEN 0 ELSE 1]
=============================================================================
