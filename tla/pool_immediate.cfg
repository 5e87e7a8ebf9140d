SPECIFICATION Spec
CONSTANTS
  t1 = t1  t2 = t2  t3 = t3
  Workers = {w1, w2, w3}
  Clients = {c1}
  Tasks = {t1, t2, t3}
  EndlessTasks = {t3}
  ThrowingTasks = {t2}
  NoTask = NoTask
  Owner = Owner
  ShutdownPolicy = "immediately"
  SchedulingPolicy = "prio_scheduler"
  Priority <- MCPriority
  InitialThreads = 2
  Sizes = {0, 3}
  Thresholds = {0}
  Uses = {"clear", "thread_resource_error", "task_drops_last_copy"}
PROPERTIES
  ImplementsTaskPool
CHECK_DEADLOCK FALSE
