----------------------------- MODULE MCAlgoExec -----------------------------
(* Model values for checking AlgoExec.                                     *)
EXTENDS AlgoExec, TLC

CONSTANTS t1, t2, a1, g1, d1, d2, r1

TwoTasks == {t1, t2}
OneAlgo == {a1}
OneGraph == {g1}
TwoDroppers == {d1, d2}
OneReader == {r1}
TheAlgo == [t \in Task |-> a1]
TheGraph == [t \in Task |-> g1]
=============================================================================
