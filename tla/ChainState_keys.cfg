SPECIFICATION Spec
CONSTANTS
  Miners = {m1}
  Notes = {}
  Works = {1}
  Anchored = {}
  COINBASE_MATURITY = 2
  MAX_UNCLE_DEPTH = 1
  MAX_UNCLE_COUNT = 0
  KeyBase = 3
  MaxHeight = 4
  MaxSpends = 0
  MaxReorgDepth = 0
  StorageFaults = FALSE
  MaxFailedWork = 0
CHECK_DEADLOCK FALSE
INVARIANT HeightIsChainHeight
