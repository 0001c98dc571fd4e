---------------------------- MODULE MCScheduler -----------------------------
(* Small instances of Scheduler.                                           *)
EXTENDS Scheduler, TLC

CONSTANT s1
=============================================================================
