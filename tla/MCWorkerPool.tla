---------------------------- MODULE MCWorkerPool ----------------------------
(***************************************************************************)
(* Small instances of WorkerPool for TLC: the constants are numbers that   *)
(* the configurations give.                                                *)
(***************************************************************************)
EXTENDS WorkerPool
=============================================================================
