---------------------------- MODULE MCDispatcher ----------------------------
(* Model checking Dispatcher: two workers of an entity "a" and, in some    *)
(* configurations, one of an entity "b".                                   *)
EXTENDS Dispatcher

CONSTANTS b1, v1

MCEntityOf == [m \in Metric |-> IF m = b1 THEN "b" ELSE "a"]
MCWorksFor == [w \in Worker |-> IF w = v1 THEN "b" ELSE "a"]
=============================================================================
