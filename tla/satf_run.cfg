SPECIFICATION SatfFairSpec
CONSTANTS
  w1 = w1
  w2 = w2
  Unset = Unset
  Workers = {w1, w2}
  Arguments <- MCArguments
  MaxSize = 3
  DataNames <- MCDataNames
  Algorithms <- MCAlgorithms
  Comparisons <- MCComparisons
  Failures = {"directory", "open"}
  MaxLost = 1
INVARIANTS
  CountsBelongToLines
  OneLineEach
  CompleteWhenMainReturns
  LittleOutOfOrder
PROPERTIES
  MainReturns
CHECK_DEADLOCK FALSE
