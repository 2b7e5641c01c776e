----------------------------- MODULE MCScheduler ----------------------------
(* Scheduler on a small machine.                                           *)
EXTENDS Scheduler

MCVDelta == {0, 1}
=============================================================================
