CONSTANTS
  k1 = k1
  k2 = k2
  o1 = o1
  o2 = o2
  Connections = {k1, k2}
  PoolConnections = {k1}
  Peers = {p}
  Labels = {alice}
  Ops = {o1, o2}
  NoConnection = none
  NoLane = noLane
  Rejects = TRUE
  MaxRuns = 3
SPECIFICATION FairSpec
INVARIANTS
  NoContactLost
  LabelsUnique
  NeverSyncLocked
  ConfirmedIsReadable
PROPERTY LanesGetFound
CHECK_DEADLOCK FALSE
