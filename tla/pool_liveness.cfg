SPECIFICATION FairSpec
CONSTANTS
  t1 = t1  t2 = t2  t3 = t3
  Workers = {w1, w2}
  Clients = {c1}
  Tasks = {t1, t2, t3}
  EndlessTasks = {}
  ThrowingTasks = {t1}
  NoTask = NoTask
  Owner = Owner
  ShutdownPolicy = "wait_for_all_tasks"
  SchedulingPolicy = "prio_scheduler"
  Priority <- MCPriority
  InitialThreads = 1
  Sizes = {2}
  Thresholds = {0, 1}
  Uses = {"clear", "timed_wait"}
INVARIANTS
  SizePreserved
PROPERTIES
  EveryTaskEnds
  ImplementsFairTaskPool
  WaitReturns
  ShutdownReturns
  WorkersLeave
CHECK_DEADLOCK FALSE
