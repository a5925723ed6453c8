---------------------------- MODULE MCScheduler ----------------------------
(* Replicas for checking Scheduler.                                        *)
EXTENDS Scheduler

CONSTANTS r1, r2

Replicas == {r1, r2}
=============================================================================
