SPECIFICATION FutureFairSpec
CONSTANTS
  Tasks = {t1}
  Callers = {c1, c2}
  EmptyFunctions = {}
  ThrowingFunctions = {}
  SchedulingPolicy = "lifo_scheduler"
  ShutdownPolicy = "immediately"
  Priority <- MCPriority
PROPERTIES
  GetReturns
CHECK_DEADLOCK FALSE
