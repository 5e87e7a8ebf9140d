SPECIFICATION ScriptSpec
CONSTANTS
  Year <- MCYear
  Month <- MCMonth
  Arguments <- MCArguments
  MaxSize = 10
  FileNames <- MCFileNames
  Comparisons <- MCComparisons
  MaxCalls = 2
INVARIANTS
  LastLogIsNewest
CHECK_DEADLOCK FALSE
