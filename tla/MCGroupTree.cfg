\* Two drops that may fail, a reader, and creations at any time.
SPECIFICATION Spec
CONSTANTS
  g0 = g0
  g1 = g1
  g2 = g2
  h1 = h1
  d1 = d1
  d2 = d2
  q1 = q1
  None = None
  Root = g0
  Group <- Groups
  Graph <- OneGraph
  Caller <- TwoCallers
  Reader <- OneReader
SYMMETRY Symmetry
CHECK_DEADLOCK FALSE
INVARIANTS
  SpacesHaveRows
  GroupsHaveParents
  DropOK
  IInv
