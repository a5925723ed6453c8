-------------------------- MODULE MCGraphLifecycle --------------------------
(* Model values for checking GraphLifecycle.                               *)
EXTENDS GraphLifecycle, TLC

CONSTANTS g1, g2, u1, u2, b1, b2, h1

OneGraph == {g1}
TwoGraphs == {g1, g2}
OneHost == {h1}
OneUpdate == {u1}
TwoUpdates == {u1, u2}
OnePage == {b1}
TwoPages == {b1, b2}

AllOfTheFirst == [u \in Update |-> g1]

PageSymmetry == Permutations(Page)
=============================================================================
