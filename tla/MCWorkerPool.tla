---------------------------- MODULE MCWorkerPool ----------------------------
(* Up to three workers; 8 stands for 2^64. *)
EXTENDS WorkerPool
=============================================================================
