---------------------------- MODULE MCWorkerPool ----------------------------
(* Instances of WorkerPool for TLC; the .cfg files give the constants. *)
EXTENDS WorkerPool
=============================================================================
