SPECIFICATION Spec
CONSTANTS
  Builders = {t1, t2}
  Ids = {b1}
  MAX_COMPETING_BLOCKS = 2
  MAX_UNCLE_DEPTH = 0
  MaxHeight = 2
  MaxHeld = 2
SYMMETRY Symmetry
CHECK_DEADLOCK FALSE
INVARIANT TypeOK
INVARIANT SeenHasBlock
INVARIANT StoredOnce
