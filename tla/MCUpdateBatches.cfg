\* Three updates at any time, files with errors, failing calls and a restart.
SPECIFICATION FairSpec
CONSTANTS
  Update = {1, 2, 3}
  Loads <- SomeLoads
  Vertex = {1, 2, 3}
  maxInsertNum = 1
  Batch = 1
  Group = 2
  Direct = FALSE
  MaxRestarts = 1
CHECK_DEADLOCK FALSE
INVARIANTS
  DegreesOfLastLoad
  DoneLeavesNoDanglingEdge
  CountersMatchRows
  DataAgree
PROPERTY UpdateEnds
