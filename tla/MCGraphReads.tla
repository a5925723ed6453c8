---------------------------- MODULE MCGraphReads ----------------------------
(* A graph for checking GraphReads.  Queries only read, so that they do    *)
(* not meet each other: one is enough.                                     *)
EXTENDS GraphReads

CONSTANT q1

OneRequest == {q1}

\* A path of three vertices and an edge back to the first.
Cycle == {<<1, 2>>, <<2, 3>>, <<3, 1>>}
=============================================================================
