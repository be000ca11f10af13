CONSTANTS
  a = a
  b = b
  Lanes = {lane1, lane2}
  Payloads = {a, b}
  Batches <- SingleBatches
  Syncers = {p1}
  Window = 2
  FullScans = FALSE
  MaxBlocks = 2
SPECIFICATION FairSpec
INVARIANTS
  WatermarkHonest
PROPERTIES
  HistoryGrows
  CatchesUp
