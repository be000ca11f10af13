CONSTANTS
  p1 = p1
  p2 = p2
  Procs = {p1, p2}
  Peers = {bob}
  Labels = {alias}
  NoKey = noKey
  Torn = torn
  Text = text
  Broken = broken
  MaxAttempts = 3
  MaxRuns = 3
  MaxPosts = 1
  MaxTears = 1
SYMMETRY AnyProc
SPECIFICATION Spec
INVARIANTS
  UnreadKept
  SentOnce
  QueuedKept
  ChannelsKept
  SnapshotWhole
CHECK_DEADLOCK FALSE
