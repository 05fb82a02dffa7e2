----------------------------- MODULE MCExecutor -----------------------------
(* TLC instances of Executor.                                              *)
EXTENDS Executor

AllFaults == FaultKind
NoFaults == {}
=============================================================================
