SPECIFICATION Spec
CONSTANTS
  TargetMod = 2000
  initial_target = 500
  min_target = 1
  max_target = 1999
  target_block_time = 120
  TIMESTAMP_WINDOW = 4
  ADJUST_WINDOW = 3
  MEDIAN_BLOCK_COUNT = 3
  Intervals <- MCSlow
  MaxHeight = 16
  MaxUndone = 0
  EarlyReturns = FALSE
CHECK_DEADLOCK FALSE
PROPERTY StepCapped
