SPECIFICATION ScriptFairSpec
CONSTANTS
  Year <- MCYear
  Month <- MCMonth
  Arguments <- MCArguments
  MaxSize = 10
  FileNames <- MCFileNames
  Comparisons <- MCComparisons
  MaxCalls = 2
INVARIANTS
  SortedWhenPlotted
  RangeCoversPlots
  PlotsComplete
  NewestWithinMonth
PROPERTIES
  LinesAreKept
  ScriptEnds
CHECK_DEADLOCK FALSE
