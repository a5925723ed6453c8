---------------------------- MODULE MCTaskQueue ----------------------------
(* Model values and symmetry for checking TaskQueue.                       *)
EXTENDS TaskQueueRefinement, TLC

CONSTANTS p1, c1, s1, s2

PublishedAndCron == {p1, c1}
OneCron == {c1}
TwoServers == {s1, s2}
============================================================================
