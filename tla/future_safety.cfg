SPECIFICATION FutureSpec
CONSTANTS
  Tasks = {t1, t2}
  Callers = {c1, c2}
  EmptyFunctions = {t2}
  ThrowingFunctions = {t1}
  SchedulingPolicy = "fifo_scheduler"
  ShutdownPolicy = "wait_for_active_tasks"
  Priority <- MCPriority
INVARIANTS
  ReadyMeansComputed
  NoMissedValue
PROPERTIES
  CancelTakesEffect
  RefusedMeansOver
SYMMETRY Symmetry
CHECK_DEADLOCK FALSE
