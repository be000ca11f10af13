CONSTANTS
  k1 = k1
  k2 = k2
  o1 = o1
  o2 = o2
  Connections = {k1, k2}
  PoolConnections = {k1, k2}
  Peers = {p}
  Labels = {alice}
  Ops = {o1, o2}
  NoConnection = none
  NoLane = noLane
  Rejects = FALSE
  MaxRuns = 3
SYMMETRY AnyOp
SPECIFICATION Spec
INVARIANTS
  NothingInTheVoid
CHECK_DEADLOCK FALSE
