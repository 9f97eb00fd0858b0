----------------------------- MODULE MCShutdown -----------------------------
(* Model checking Shutdown: one entity, whose workers share one queue.     *)
EXTENDS Shutdown

CONSTANTS a1, r1, w1, w2

MCEntityOf == [m \in All |-> "a"]
MCWorksFor == [w \in Worker |-> "a"]
=============================================================================
