SPECIFICATION Spec
CONSTANTS
  t1 = t1  t2 = t2  t3 = t3
  Workers = {w1, w2}
  Clients = {c1}
  Tasks = {t1, t2}
  EndlessTasks = {}
  ThrowingTasks = {}
  NoTask = NoTask
  Owner = Owner
  ShutdownPolicy = "wait_for_all_tasks"
  SchedulingPolicy = "fifo_scheduler"
  Priority <- MCPriority
  InitialThreads = 2
  Sizes = {}
  Thresholds = {}
  Uses = {}
INVARIANTS
  ShutdownAwaitsWorkers
CHECK_DEADLOCK FALSE
