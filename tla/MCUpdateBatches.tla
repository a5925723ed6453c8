--------------------------- MODULE MCUpdateBatches ---------------------------
(* Files for checking UpdateBatches.                                       *)
EXTENDS UpdateBatches, TLC

Row(s, t) == [src |-> s, tgt |-> t, kind |-> "good"]
Bad(k) == [src |-> 1, tgt |-> 1, kind |-> k]
Csv(type, rows) ==
  [type |-> type, known |-> TRUE, rows |-> rows, format |-> "csv",
   columns |-> "all", breaks |-> FALSE]
ToThree == Csv("edge", <<Row(3, 1)>>)

\* u = 1 has an edge twice, a loop and a row in error, and files of several
\* batches; u = 2 brings vertex 2 again, and an edge to a vertex that only u = 1
\* brings; u = 3 reads a stream that breaks, an id that is no number, or a
\* spreadsheet.
SomeLoads ==
     1 :> {<<Csv("edge", <<Row(1, 2), Bad("short"), Row(1, 2), Row(2, 2)>>),
             Csv("node", <<Row(1, 1), Row(2, 2)>>)>>}
  @@ 2 :> {<<ToThree, Csv("node", <<Row(3, 3), Row(2, 2)>>)>>}
  @@ 3 :> {<<[ToThree EXCEPT !.breaks = TRUE]>>,
           <<Csv("edge", <<Bad("text")>>)>>,
           <<[ToThree EXCEPT !.format = "xlsx"]>>}
=============================================================================
