SPECIFICATION Spec
CONSTANTS
  Builders = {t1}
  Ids = {b1}
  MAX_COMPETING_BLOCKS = 1
  MAX_UNCLE_DEPTH = 1
  MaxHeight = 3
  MaxHeld = 2
SYMMETRY Symmetry
CHECK_DEADLOCK FALSE
INVARIANT NoLockCycle
