---------------------------- MODULE MCGroupTree ----------------------------
(* Groups and graphs for checking GroupTree.                               *)
EXTENDS GroupTree, TLC

CONSTANTS g0, g1, g2, h1, d1, d2, q1

Groups == {g0, g1, g2}
OneGraph == {h1}
TwoCallers == {d1, d2}
OneReader == {q1}

Symmetry == Permutations(Group \ {Root}) \cup Permutations(Caller)
=============================================================================
