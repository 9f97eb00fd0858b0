---------------------------- MODULE MCTxExecutor ----------------------------
(* Model checking TxExecutor.                                              *)
EXTENDS TxExecutor
=============================================================================
