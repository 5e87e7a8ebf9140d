SPECIFICATION SortSpec
CONSTANTS
  Values = {1, 2, 3}
  MaxLength = 5
INVARIANTS
  ReturnsSorted
  DepthBounded
  ComparisonsBounded
CHECK_DEADLOCK FALSE
