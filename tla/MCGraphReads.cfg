\* One query, of any kind, on a cycle that is being imported or dropped.
SPECIFICATION ReadSpec
CONSTANTS
  q1 = q1
  Vertex = {1, 2, 3}
  Tagged = {1, 2}
  Edge <- Cycle
  Request <- OneRequest
  MaxMax = 4
  MaxTop = 2
CHECK_DEADLOCK FALSE
INVARIANTS
  WalkIsConnected
  RepliesAgree
