\* What Group/index.tsx says of dropping a group, against a create handler.
SPECIFICATION Spec
CONSTANTS
  g1 = g1
  g2 = g2
  u1 = u1
  u2 = u2
  b1 = b1
  b2 = b2
  h1 = h1
  NoPage = NoPage
  Cron = Cron
  Main = Main
  Host <- OneHost
  Fixed <- OneGraph
  Graph <- TwoGraphs
  Update <- OneUpdate
  Target <- AllOfTheFirst
  Page <- OnePage
  MaxBatch = 1
  MaxRestarts = 0
INVARIANT GroupDropIsComplete
