SPECIFICATION RSpec
CONSTANTS
  Miners = {m1, m2}
  Notes = {}
  Works = {1}
  COINBASE_MATURITY = 2
  MAX_UNCLE_DEPTH = 1
  MAX_UNCLE_COUNT = 0
  KeyBase = 16
  MaxHeight = 5
  MaxSpends = 1
  MaxReorgDepth = 1
  StorageFaults = FALSE
  MaxFailedWork = 0
  Anchored = {}
  SyncPath = FALSE
  MAX_REORG_DEPTH = 3
CHECK_DEADLOCK FALSE
INVARIANT HeightIsChainHeight
INVARIANT SupplyAgreesOutside
INVARIANT CoinbaseMaturity
INVARIANT WorkIsChainWork
INVARIANT SupplyTreeAgrees
INVARIANT UndoAgrees
PROPERTY FailedReorgRestores
