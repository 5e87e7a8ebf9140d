SPECIFICATION Spec
CONSTANTS
  t1 = t1  t2 = t2  t3 = t3
  Workers = {w1, w2, w3}
  Clients = {c1}
  Tasks = {t1, t2, t3}
  EndlessTasks = {}
  ThrowingTasks = {t1, t2, t3}
  NoTask = NoTask
  Owner = Owner
  ShutdownPolicy = "wait_for_active_tasks"
  SchedulingPolicy = "lifo_scheduler"
  Priority <- MCPriority
  InitialThreads = 2
  Sizes = {1, 2, 3}
  Thresholds = {0}
  Uses = {"timed_wait", "spurious_wakeup"}
SYMMETRY Symmetry
INVARIANTS
  NoMissedIdleEvent
CHECK_DEADLOCK FALSE
