---------------------------- MODULE MCWorkerSync ----------------------------
(* Small instances of WorkerSync.                                          *)
EXTENDS WorkerSync, TLC

CONSTANTS s1, r1, r2
=============================================================================
