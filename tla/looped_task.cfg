SPECIFICATION LoopSpec
CONSTANTS
  Intervals = {0, 1, 250, 999, 1000, 1250, 2000}
  Step = 250
  LastSecond = 3
  MaxSets = 2
INVARIANTS
  PunctualBreak
PROPERTIES
  MinimumBreak
CHECK_DEADLOCK FALSE
