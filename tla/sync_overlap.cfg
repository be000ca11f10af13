CONSTANTS
  a = a
  b = b
  Lanes = {lane1}
  Payloads = {a, b}
  Batches <- MixedBatches
  Syncers = {p1, p2}
  Window = 2
  FullScans = TRUE
  MaxBlocks = 3
SPECIFICATION Spec
INVARIANTS
  HistorySound
SYMMETRY Interchangeable
