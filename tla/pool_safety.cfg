SPECIFICATION Spec
CONSTANTS
  t1 = t1  t2 = t2  t3 = t3
  Workers = {w1, w2, w3}
  Clients = {c1}
  Tasks = {t1, t2, t3}
  EndlessTasks = {}
  ThrowingTasks = {t1, t2, t3}
  NoTask = NoTask
  Owner = Owner
  ShutdownPolicy = "wait_for_all_tasks"
  SchedulingPolicy = "fifo_scheduler"
  Priority <- MCPriority
  InitialThreads = 2
  Sizes = {0, 1, 3}
  Thresholds = {0, 1}
  Uses = {"clear", "timed_wait", "thread_resource_error", "spurious_wakeup"}
SYMMETRY Symmetry
INVARIANTS
  TypeOK
  CountersExact
  ExecutedOnce
  NoLostTaskWakeup
  ShrinkReachesSleepers
  ShutdownKeepsPromise
PROPERTIES
  WaitReturnsQuiet
  NoNewWorkersAfterTermination
  ImplementsTaskPool
CHECK_DEADLOCK FALSE
