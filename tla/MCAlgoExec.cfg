\* Two tasks of one algorithm on one graph, two calls that drop, one reader of results.
SPECIFICATION FairSpec
CONSTANTS
  t1 = t1
  t2 = t2
  a1 = a1
  g1 = g1
  d1 = d1
  d2 = d2
  r1 = r1
  Task <- TwoTasks
  Algo <- OneAlgo
  Graph <- OneGraph
  AlgoOf <- TheAlgo
  GraphOf <- TheGraph
  Dropper <- TwoDroppers
  Reader <- OneReader
INVARIANTS
  HotFindsFile
  TaskIsBacked
PROPERTY TaskFinishes
