SPECIFICATION Spec
CONSTANTS
  TargetMod = 2000
  initial_target = 1600
  min_target = 1
  max_target = 1999
  target_block_time = 120
  TIMESTAMP_WINDOW = 4
  ADJUST_WINDOW = 3
  MEDIAN_BLOCK_COUNT = 3
  Intervals <- MCIntervals
  MaxHeight = 5
  MaxUndone = 2
  EarlyReturns = TRUE
CHECK_DEADLOCK FALSE
INVARIANT TypeOK
INVARIANT CachedTargetIsWalked
PROPERTY StepSteers
