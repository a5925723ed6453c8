\* One graph, an update of it, two pages and a consumer that is restarted.
SPECIFICATION Spec
CONSTANTS
  g1 = g1
  g2 = g2
  u1 = u1
  u2 = u2
  b1 = b1
  b2 = b2
  h1 = h1
  NoPage = NoPage
  Cron = Cron
  Main = Main
  Host <- OneHost
  Fixed <- OneGraph
  Graph <- OneGraph
  Update <- OneUpdate
  Target <- AllOfTheFirst
  Page <- TwoPages
  MaxBatch = 2
  MaxRestarts = 1
SYMMETRY PageSymmetry
INVARIANTS
  IInv
  CreatedHasSpace
  DeletedLeavesNoSpace
