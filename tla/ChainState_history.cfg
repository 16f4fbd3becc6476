SPECIFICATION Spec
CONSTANTS
  Miners = {m1}
  Notes = {n1, n2}
  Works = {1}
  Anchored = {}
  COINBASE_MATURITY = 2
  MAX_UNCLE_DEPTH = 2
  MAX_UNCLE_COUNT = 2
  KeyBase = 16
  MaxHeight = 3
  MaxSpends = 2
  MaxReorgDepth = 2
  StorageFaults = TRUE
  MaxFailedWork = 1
CHECK_DEADLOCK FALSE
SYMMETRY NoteSymmetry
INVARIANT TypeOK
INVARIANT NoDoubleSpend
INVARIANT ReplayGateExact
INVARIANT UnclePaidByOneBlock
