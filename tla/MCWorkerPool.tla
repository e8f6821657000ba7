---------------------------- MODULE MCWorkerPool -----------------------------
(* An instance of WorkerPool for TLC.                                        *)
EXTENDS WorkerPool

CONSTANTS w1, w2, w3
==============================================================================
