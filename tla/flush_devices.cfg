CONSTANTS
  h1 = h1
  h2 = h2
  p1 = p1
  p2 = p2
  lane1 = lane1
  Pool = pool
  EmptyPayload <- EmptyCiphertext
  Lanes = {lane1}
  Payloads = {1, 2, 3, 4}
  Homes = {h1, h2}
  Procs = {p1, p2}
  HomeOf <- DevicesHomeOf
  MsgHome <- DevicesMsgHome
  LaneOf <- DevicesLaneOf
  MaxAttempts = 3
  Caps = {4}
  PoolMode = TRUE
  MaxRuns = 2
SPECIFICATION Spec
INVARIANTS
  LaneDense
  CursorSound
  ConfirmedOnChain
  OrderKept
  NothingDropped
  AtMostOnce
PROPERTIES
  LanesAreLogs
CHECK_DEADLOCK FALSE
