\* Failures, crashes, lost replies, and replicas of the Graph service that start again.
SPECIFICATION FairSpec
CONSTANTS
  t1 = t1
  t2 = t2
  g1 = g1
  c1 = c1
  c2 = c2
  None = None
  MaxTries <- OneAgain
  Task <- TwoTasks
  Graph <- OneGraph
  Consumer <- TwoConsumers
INVARIANTS
  IInv
  AckedIsStored
PROPERTY
  AddedIsFinished
