CONSTANTS
  o1 = o1
  o2 = o2
  lane1 = lane1
  lane2 = lane2
  Pool = pool
  NoOp = noOp
  EmptyPayload <- EmptyCiphertext
  Lanes = {lane1, lane2}
  LaneOf <- WebLaneOf
  Payloads = {1, 3, 4, 5}
  Ops = {o1, o2}
  Outgoing = {1, 3}
  Memos = {4}
  Foreign = {5}
  Modes = {"demo", "direct", "pool", "wallet"}
  MaxRuns = 3
SYMMETRY AnyOp
SPECIFICATION Spec
INVARIANTS
  NeverStuck
  NeverLocked
  ConfirmedOnChain
  AtMostOnce
CHECK_DEADLOCK FALSE
