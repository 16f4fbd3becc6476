SPECIFICATION RSpec
CONSTANTS
  Miners = {m1, m2}
  Notes = {}
  Works = {1}
  COINBASE_MATURITY = 2
  MAX_UNCLE_DEPTH = 1
  MAX_UNCLE_COUNT = 0
  KeyBase = 16
  MaxHeight = 3
  MaxSpends = 0
  MaxReorgDepth = 2
  StorageFaults = TRUE
  MaxFailedWork = 1
  Anchored = {m2}
  SyncPath = TRUE
  MAX_REORG_DEPTH = 3
CHECK_DEADLOCK FALSE
PROPERTY FinalizedKept
PROPERTY ReorgEnds

