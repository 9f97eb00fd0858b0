------------------------------ MODULE MCIQueue ------------------------------
(* Model checking IQueue: two values, up to MaxSends sends.                *)
EXTENDS IQueue
=============================================================================
