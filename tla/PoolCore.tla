------------------------------ MODULE PoolCore ------------------------------
(***************************************************************************)
(* The thread pool of boost/threadpool: pool_core with its worker_threads, *)
(* the size and shutdown policies, and the thread_pool handle that creates *)
(* it and shuts it down.                                                   *)
(*                                                                         *)
(* Everything the pool shares is guarded by the recursive mutex m_monitor, *)
(* so an action is one critical section: what a thread does from locking   *)
(* m_monitor until it unlocks it or waits on a condition.  The monitor is  *)
(* held across actions in one place only, the joins of                     *)
(* terminate_all_workers (shutdown = "joining").                           *)
(*                                                                         *)
(* A thread waiting on m_task_or_terminate_workers_event is "asleep" in    *)
(* wpc; one waiting on m_worker_idle_or_terminated_event is "asleep" in    *)
(* cpc or in shutdown.  "woken" threads were notified, or woke spuriously, *)
(* and contend for the monitor.                                            *)
(***************************************************************************)
EXTENDS Naturals, FiniteSets, SchedulingPolicies

CONSTANTS
  Workers,          \* slots for worker_thread objects
  Clients,          \* threads that call wait() on a thread_pool
  Tasks,            \* task function objects, each scheduled at most once
  EndlessTasks,     \* tasks that never return (a looped_task_func may not)
  ThrowingTasks,    \* tasks that may leave with thread_interrupted
  NoTask,           \* a worker executes no task
  Owner,            \* the thread that drops the last thread_pool copy
  ShutdownPolicy,   \* the pool's template argument
  InitialThreads,   \* thread_pool(initial_threads)
  Sizes,            \* arguments callers give resize()
  Thresholds,       \* arguments callers give wait()
  Uses              \* which of the optional calls and failures happen

ASSUME PoolAssumption ==
  /\ IsFiniteSet(Workers)
  /\ NoTask \notin Tasks
  /\ Owner \notin Workers
  /\ EndlessTasks \subseteq Tasks
  /\ ThrowingTasks \subseteq Tasks
  /\ ShutdownPolicy \in
       {"wait_for_all_tasks", "wait_for_active_tasks", "immediately"}
  /\ InitialThreads \in Nat
  /\ Sizes \subseteq Nat
  /\ Thresholds \subseteq Nat
  /\ Uses \subseteq {"clear", "timed_wait", "thread_resource_error",
                     "task_drops_last_copy", "spurious_wakeup"}

VARIABLES
  m_worker_count, m_target_worker_count, m_active_worker_count,
  m_scheduler,              \* the pending tasks
  m_terminate_all_workers,
  m_terminated_workers,     \* the workers in that vector
  wpc,                      \* where each worker is in worker_thread::run
  task,                     \* the task each worker executes
  cpc,                      \* where each client is in pool_core::wait
  threshold, timed,         \* the arguments of the client's wait
  shutdown,                 \* where the pool is between creation and the end
                            \* of ShutdownPolicy::shutdown
  shutter,                  \* the thread that executes that function
  done, dropped             \* history: tasks executed, tasks cleared

poolVars   == <<m_worker_count, m_target_worker_count, m_active_worker_count,
                m_terminate_all_workers, m_terminated_workers>>
taskVars   == <<m_scheduler, task, done, dropped>>
waitVars   == <<threshold, timed>>
vars == <<poolVars, taskVars, wpc, cpc, waitVars, shutdown, shutter>>

-----------------------------------------------------------------------------
(* Where a worker is.                                                      *)
ActiveStates  == {"fetching", "executing", "leaving", "dying"}
AsleepStates  == {"asleep", "woken"}
GoneStates    == {"none", "finishing", "exited"}

In(states)    == {w \in Workers : wpc[w] \in states}
Executing     == In({"executing"})

TypeOK ==
  /\ m_worker_count \in Nat
  /\ m_target_worker_count \in Nat
  /\ m_active_worker_count \in Nat
  /\ m_scheduler \in Seq(Tasks)
  /\ m_terminate_all_workers \in BOOLEAN
  /\ m_terminated_workers \in SUBSET Workers
  /\ wpc \in [Workers -> ActiveStates \cup AsleepStates \cup GoneStates]
  /\ task \in [Workers -> Tasks \cup {NoTask}]
  /\ cpc \in [Clients -> {"out", "asleep", "woken", "timed_out"}]
  /\ threshold \in [Clients -> Nat]
  /\ timed \in [Clients -> BOOLEAN]
  /\ shutdown \in {"constructing", "open", "clear", "wait", "wait_asleep",
                   "wait_woken", "terminate", "term_asleep", "term_woken",
                   "joining", "done"}
  /\ shutter \in Workers \cup {Owner}
  /\ done \in SUBSET Tasks
  /\ dropped \in SUBSET Tasks

(* The members of pool_core() and no worker yet.                           *)
Init ==
  /\ m_worker_count = 0
  /\ m_target_worker_count = 0
  /\ m_active_worker_count = 0
  /\ m_scheduler = <<>>
  /\ m_terminate_all_workers = FALSE
  /\ m_terminated_workers = {}
  /\ wpc = [w \in Workers |-> "none"]
  /\ task = [w \in Workers |-> NoTask]
  /\ cpc = [c \in Clients |-> "out"]
  /\ threshold = [c \in Clients |-> 0]
  /\ timed = [c \in Clients |-> FALSE]
  /\ shutdown = "constructing"
  /\ shutter = Owner
  /\ done = {}
  /\ dropped = {}

-----------------------------------------------------------------------------
(* The monitor and its two conditions.                                     *)

MonitorFree == shutdown # "joining"

(* A name with an underscore is a variant of the definition after it, with *)
(* a mistake that a property must exclude.                                 *)
NotifyOneWorker_Forgotten == UNCHANGED wpc

(* m_task_or_terminate_workers_event.notify_one()                          *)
NotifyOneWorker ==
  IF In({"asleep"}) = {} THEN UNCHANGED wpc
  ELSE \E w \in In({"asleep"}) : wpc' = [wpc EXCEPT ![w] = "woken"]

NotifyAllWorkers_OnlyOne == NotifyOneWorker

(* m_task_or_terminate_workers_event.notify_all()                          *)
NotifyAllWorkers ==
  wpc' = [w \in Workers |-> IF wpc[w] = "asleep" THEN "woken" ELSE wpc[w]]

(* m_worker_idle_or_terminated_event.notify_all()                          *)
NotifyIdle ==
  /\ cpc' = [c \in Clients |-> IF cpc[c] = "asleep" THEN "woken" ELSE cpc[c]]
  /\ shutdown' = CASE shutdown = "wait_asleep" -> "wait_woken"
                   [] shutdown = "term_asleep" -> "term_woken"
                   [] OTHER -> shutdown

Load_OnlyPending == Len(m_scheduler)

Load == m_active_worker_count + Len(m_scheduler)

TooManyWorkers == m_worker_count > m_target_worker_count

-----------------------------------------------------------------------------
(* Sizing.                                                                 *)

(* The while loop of resize: threads are created one by one until the      *)
(* target is met or one cannot be created.  S is the set of new workers.   *)
CreatedWorkers(missing) ==
  {S \in SUBSET In({"none"}) :
     \/ Cardinality(S) = missing
     \/ "thread_resource_error" \in Uses /\ Cardinality(S) < missing}

Resize_AfterTermination(size) ==
  /\ m_target_worker_count' = size
  /\ m_worker_count <= size
  /\ \E S \in CreatedWorkers(size - m_worker_count) :
       /\ wpc' = [w \in Workers |-> IF w \in S THEN "fetching" ELSE wpc[w]]
       /\ m_worker_count' = m_worker_count + Cardinality(S)
       /\ m_active_worker_count' = m_active_worker_count + Cardinality(S)
  /\ UNCHANGED <<m_terminate_all_workers, m_terminated_workers>>

Resize(size) ==
  /\ ~m_terminate_all_workers
  /\ m_target_worker_count' = size
  /\ \/ /\ m_worker_count <= size
        /\ \E S \in CreatedWorkers(size - m_worker_count) :
             /\ wpc' = [w \in Workers |-> IF w \in S THEN "fetching"
                                                     ELSE wpc[w]]
             /\ m_worker_count' = m_worker_count + Cardinality(S)
             /\ m_active_worker_count' = m_active_worker_count + Cardinality(S)
     \/ /\ m_worker_count > size
        /\ NotifyAllWorkers
        /\ UNCHANGED <<m_worker_count, m_active_worker_count>>
  /\ UNCHANGED <<m_terminate_all_workers, m_terminated_workers>>

(* thread_pool(initial_threads); the result of the resize is ignored.      *)
Construct ==
  /\ shutdown = "constructing"
  /\ Resize(InitialThreads)
  /\ shutdown' = "open"
  /\ UNCHANGED <<taskVars, cpc, waitVars, shutter>>

(* resize_controller::resize.  A controller keeps the core alive, so it    *)
(* can be used while the pool shuts down and after.                        *)
ControllerResize(size) ==
  /\ shutdown # "constructing" /\ MonitorFree
  /\ \/ Resize(size)
     \/ m_terminate_all_workers /\ UNCHANGED <<poolVars, wpc>>
  /\ UNCHANGED <<taskVars, cpc, waitVars, shutdown, shutter>>

-----------------------------------------------------------------------------
(* Calls on a thread_pool; they need a copy of it, so none is made once    *)
(* the last copy is dropped.                                               *)

Submitted(t) == \/ t \in ToSet(m_scheduler) \cup done \cup dropped
                \/ \E w \in Workers : task[w] = t

Schedule(t) ==
  /\ shutdown = "open"
  /\ ~Submitted(t)
  /\ m_scheduler' = push(m_scheduler, t)
  /\ NotifyOneWorker
  /\ UNCHANGED <<poolVars, task, done, dropped, cpc, waitVars, shutdown,
                 shutter>>

ClearScheduler ==
  /\ dropped' = dropped \cup ToSet(m_scheduler)
  /\ m_scheduler' = <<>>

Clear ==
  /\ "clear" \in Uses
  /\ shutdown = "open"
  /\ ClearScheduler
  /\ UNCHANGED <<poolVars, task, done, wpc, cpc, waitVars, shutdown, shutter>>

(* wait(threshold) and wait(timestamp, threshold): the first evaluation of *)
(* the loop condition.                                                     *)
Wait(c, k, t) ==
  /\ shutdown = "open"
  /\ cpc[c] = "out"
  /\ t => "timed_wait" \in Uses
  /\ IF Load <= k
     THEN UNCHANGED <<cpc, waitVars>>
     ELSE /\ cpc' = [cpc EXCEPT ![c] = "asleep"]
          /\ threshold' = [threshold EXCEPT ![c] = k]
          /\ timed' = [timed EXCEPT ![c] = t]
  /\ UNCHANGED <<poolVars, taskVars, wpc, shutdown, shutter>>

(* The client has the monitor again and evaluates its loop condition.      *)
ResumeWait(c) ==
  /\ cpc[c] = "woken" /\ MonitorFree
  /\ cpc' = [cpc EXCEPT ![c] = IF Load <= threshold[c] THEN "out"
                                                       ELSE "asleep"]
  /\ UNCHANGED <<poolVars, taskVars, wpc, waitVars, shutdown, shutter>>

(* The timestamp passes while the client sleeps.                           *)
Timeout(c) ==
  /\ cpc[c] = "asleep" /\ timed[c]
  /\ cpc' = [cpc EXCEPT ![c] = "timed_out"]
  /\ UNCHANGED <<poolVars, taskVars, wpc, waitVars, shutdown, shutter>>

(* timed_wait returned false: wait returns false without another look.     *)
ReturnFalse(c) ==
  /\ cpc[c] = "timed_out" /\ MonitorFree
  /\ cpc' = [cpc EXCEPT ![c] = "out"]
  /\ UNCHANGED <<poolVars, taskVars, wpc, waitVars, shutdown, shutter>>

-----------------------------------------------------------------------------
(* Workers: run() and execute_task().                                      *)

(* execute_task returns false.                                             *)
Leave(w, active) ==
  /\ wpc' = [wpc EXCEPT ![w] = "leaving"]
  /\ m_active_worker_count' = active
  /\ UNCHANGED <<taskVars, cpc, shutdown>>

Sleep_Silent(w, active) ==
  /\ wpc' = [wpc EXCEPT ![w] = "asleep"]
  /\ m_active_worker_count' = active - 1
  /\ UNCHANGED <<taskVars, cpc, shutdown>>

(* One pass through the loop that waits for a task.                        *)
Sleep(w, active) ==
  /\ wpc' = [wpc EXCEPT ![w] = "asleep"]
  /\ m_active_worker_count' = active - 1
  /\ NotifyIdle
  /\ UNCHANGED taskVars

Take(w, active) ==
  /\ \E i \in TopPositions(m_scheduler) :
       /\ task' = [task EXCEPT ![w] = top(m_scheduler, i)]
       /\ m_scheduler' = pop(m_scheduler, i)
  /\ wpc' = [wpc EXCEPT ![w] = "executing"]
  /\ m_active_worker_count' = active
  /\ UNCHANGED <<done, dropped, cpc, shutdown>>

(* The loop of execute_task, with active the worker's m_active_worker_count *)
WaitForTask(w, active) ==
  \/ m_scheduler = <<>> /\ TooManyWorkers /\ Leave(w, active)
  \/ m_scheduler = <<>> /\ ~TooManyWorkers /\ Sleep(w, active)
  \/ m_scheduler # <<>> /\ Take(w, active)

UnchangedByExecuteTask ==
  UNCHANGED <<m_worker_count, m_target_worker_count, m_terminate_all_workers,
              m_terminated_workers, waitVars, shutter>>

(* execute_task from its first line.                                       *)
FetchTask(w) ==
  /\ wpc[w] = "fetching" /\ MonitorFree
  /\ \/ TooManyWorkers /\ Leave(w, m_active_worker_count)
     \/ ~TooManyWorkers /\ WaitForTask(w, m_active_worker_count)
  /\ UnchangedByExecuteTask

ResumeFetch_NotCounted(w) ==
  /\ wpc[w] = "woken" /\ MonitorFree
  /\ WaitForTask(w, m_active_worker_count)
  /\ UnchangedByExecuteTask

(* execute_task from the return of m_task_or_terminate_workers_event.wait  *)
ResumeFetch(w) ==
  /\ wpc[w] = "woken" /\ MonitorFree
  /\ WaitForTask(w, m_active_worker_count + 1)
  /\ UnchangedByExecuteTask

(* The thread executing the shutdown inside a task is busy until its end.  *)
MayContinue(w) == shutter = w => shutdown \in {"open", "done"}

EndTask(w, next) ==
  /\ wpc[w] = "executing" /\ MayContinue(w)
  /\ wpc' = [wpc EXCEPT ![w] = next]
  /\ done' = done \cup {task[w]}
  /\ task' = [task EXCEPT ![w] = NoTask]
  /\ UNCHANGED <<poolVars, m_scheduler, dropped, cpc, waitVars, shutdown,
                 shutter>>

TaskReturns(w) == task[w] \notin EndlessTasks /\ EndTask(w, "fetching")

TaskThrows(w) == task[w] \in ThrowingTasks /\ EndTask(w, "dying")

Retire_StaysActive(w) ==
  /\ wpc' = [wpc EXCEPT ![w] = IF m_terminate_all_workers THEN "finishing"
                                                          ELSE "none"]
  /\ m_worker_count' = m_worker_count - 1
  /\ m_terminated_workers' = IF m_terminate_all_workers
                             THEN m_terminated_workers \cup {w}
                             ELSE m_terminated_workers
  /\ UNCHANGED <<m_active_worker_count, m_target_worker_count,
                 m_terminate_all_workers>>

(* What worker_destructed and worker_died_unexpectedly have in common; the *)
(* slot of a worker that is in no vector is free when its thread ends.     *)
Retire(w) ==
  /\ wpc' = [wpc EXCEPT ![w] = IF m_terminate_all_workers THEN "finishing"
                                                          ELSE "none"]
  /\ m_worker_count' = m_worker_count - 1
  /\ m_active_worker_count' = m_active_worker_count - 1
  /\ m_terminated_workers' = IF m_terminate_all_workers
                             THEN m_terminated_workers \cup {w}
                             ELSE m_terminated_workers
  /\ UNCHANGED <<m_target_worker_count, m_terminate_all_workers>>

WorkerDestructed_Silent(w) ==
  /\ wpc[w] = "leaving" /\ MonitorFree
  /\ Retire(w)
  /\ UNCHANGED <<taskVars, cpc, shutdown, waitVars, shutter>>

WorkerDestructed(w) ==
  /\ wpc[w] = "leaving" /\ MonitorFree
  /\ Retire(w)
  /\ NotifyIdle
  /\ UNCHANGED <<taskVars, waitVars, shutter>>

Replace_OffByOne(w) ==
  /\ m_target_worker_count' = m_worker_count - 1
  /\ wpc' = [wpc EXCEPT ![w] = "none"]
  /\ m_worker_count' = m_worker_count - 1
  /\ m_active_worker_count' = m_active_worker_count - 1
  /\ UNCHANGED <<m_terminate_all_workers, m_terminated_workers>>

(* static_size::worker_died_unexpectedly(count) calls resize(count + 1)    *)
(* with the monitor held: one new worker, in the slot of the dead one.     *)
Replace(w) ==
  /\ m_target_worker_count' = m_worker_count - 1 + 1
  /\ UNCHANGED <<m_terminate_all_workers, m_terminated_workers>>
  /\ \/ /\ wpc' = [wpc EXCEPT ![w] = "fetching"]
        /\ UNCHANGED <<m_worker_count, m_active_worker_count>>
     \/ /\ "thread_resource_error" \in Uses
        /\ wpc' = [wpc EXCEPT ![w] = "none"]
        /\ m_worker_count' = m_worker_count - 1
        /\ m_active_worker_count' = m_active_worker_count - 1

WorkerDiedUnexpectedly(w) ==
  /\ wpc[w] = "dying" /\ MonitorFree
  /\ \/ m_terminate_all_workers /\ Retire(w)
     \/ ~m_terminate_all_workers /\ Replace(w)
  /\ NotifyIdle
  /\ UNCHANGED <<taskVars, waitVars, shutter>>

(* run() returns and the thread ends.                                      *)
ThreadExit(w) ==
  /\ wpc[w] = "finishing"
  /\ wpc' = [wpc EXCEPT ![w] = "exited"]
  /\ UNCHANGED <<poolVars, taskVars, cpc, waitVars, shutdown, shutter>>

-----------------------------------------------------------------------------
(* ~thread_pool of the last copy: ShutdownPolicy::shutdown.                *)

BeginShutdown(by) ==
  /\ shutdown = "open"
  /\ \A c \in Clients : cpc[c] = "out"
  /\ \/ by = Owner
     \/ "task_drops_last_copy" \in Uses /\ by \in Executing
  /\ shutter' = by
  /\ shutdown' = IF ShutdownPolicy = "wait_for_all_tasks" THEN "wait"
                                                          ELSE "clear"
  /\ UNCHANGED <<poolVars, taskVars, wpc, cpc, waitVars>>

ShutdownClear ==
  /\ shutdown = "clear"
  /\ ClearScheduler
  /\ shutdown' = IF ShutdownPolicy = "immediately" THEN "terminate" ELSE "wait"
  /\ UNCHANGED <<poolVars, task, done, wpc, cpc, waitVars, shutter>>

ShutdownWait_OnlyPending ==
  /\ shutdown \in {"wait", "wait_woken"}
  /\ shutdown' = IF m_scheduler = <<>> THEN "terminate" ELSE "wait_asleep"
  /\ UNCHANGED <<poolVars, taskVars, wpc, cpc, waitVars, shutter>>

(* pool.wait(), on entry and after every wakeup.                           *)
ShutdownWait ==
  /\ shutdown \in {"wait", "wait_woken"}
  /\ shutdown' = IF Load = 0 THEN "terminate" ELSE "wait_asleep"
  /\ UNCHANGED <<poolVars, taskVars, wpc, cpc, waitVars, shutter>>

AfterActiveCheck ==
  IF m_active_worker_count > 0 THEN "term_asleep" ELSE "joining"

(* terminate_all_workers(wait), where only immediately passes false.       *)
TerminateAllWorkers ==
  /\ shutdown = "terminate"
  /\ m_terminate_all_workers' = TRUE
  /\ m_target_worker_count' = 0
  /\ NotifyAllWorkers
  /\ shutdown' = IF ShutdownPolicy = "immediately" THEN "done"
                                                   ELSE AfterActiveCheck
  /\ UNCHANGED <<m_worker_count, m_active_worker_count, m_terminated_workers,
                 taskVars, cpc, waitVars, shutter>>

ResumeTerminate ==
  /\ shutdown = "term_woken"
  /\ shutdown' = AfterActiveCheck
  /\ UNCHANGED <<poolVars, taskVars, wpc, cpc, waitVars, shutter>>

(* The joins end when the joined threads have ended; the vector is cleared *)
(* and the workers in it are destroyed.                                    *)
JoinTerminated ==
  /\ shutdown = "joining"
  /\ \A w \in m_terminated_workers : wpc[w] = "exited"
  /\ wpc' = [w \in Workers |-> IF w \in m_terminated_workers THEN "none"
                                                             ELSE wpc[w]]
  /\ m_terminated_workers' = {}
  /\ shutdown' = "done"
  /\ UNCHANGED <<m_worker_count, m_target_worker_count, m_active_worker_count,
                 m_terminate_all_workers, taskVars, cpc, waitVars, shutter>>

-----------------------------------------------------------------------------
(* Condition variables may wake a waiter that nobody notified.             *)
SpuriousWakeup ==
  /\ "spurious_wakeup" \in Uses
  /\ \/ /\ \E w \in In({"asleep"}) : wpc' = [wpc EXCEPT ![w] = "woken"]
        /\ UNCHANGED <<cpc, shutdown>>
     \/ /\ \E c \in Clients : /\ cpc[c] = "asleep"
                              /\ cpc' = [cpc EXCEPT ![c] = "woken"]
        /\ UNCHANGED <<wpc, shutdown>>
     \/ /\ shutdown \in {"wait_asleep", "term_asleep"}
        /\ shutdown' = IF shutdown = "wait_asleep" THEN "wait_woken"
                                                   ELSE "term_woken"
        /\ UNCHANGED <<wpc, cpc>>
  /\ UNCHANGED <<poolVars, taskVars, waitVars, shutter>>

WorkerStep(w) ==
  \/ FetchTask(w) \/ ResumeFetch(w)
  \/ TaskReturns(w) \/ TaskThrows(w)
  \/ WorkerDestructed(w) \/ WorkerDiedUnexpectedly(w) \/ ThreadExit(w)

ClientStep(c) == ResumeWait(c) \/ Timeout(c) \/ ReturnFalse(c)

ShutdownStep ==
  \/ ShutdownClear \/ ShutdownWait
  \/ TerminateAllWorkers \/ ResumeTerminate \/ JoinTerminated

CallerStep ==
  \/ \E size \in Sizes : ControllerResize(size)
  \/ \E t \in Tasks : Schedule(t)
  \/ Clear
  \/ \E c \in Clients, k \in Thresholds, t \in BOOLEAN : Wait(c, k, t)
  \/ \E by \in Workers \cup {Owner} : BeginShutdown(by)

Next ==
  \/ Construct
  \/ CallerStep
  \/ \E w \in Workers : WorkerStep(w)
  \/ \E c \in Clients : ClientStep(c)
  \/ ShutdownStep
  \/ SpuriousWakeup

Spec == Init /\ [][Next]_vars

(* A thread that can run does, and one that contends for a monitor that is *)
(* released again and again gets it.  Nothing obliges callers to call.     *)
Fairness ==
  /\ WF_vars(Construct)
  /\ \A w \in Workers : WF_vars(WorkerStep(w))
  /\ \A c \in Clients : WF_vars(ClientStep(c))
  /\ WF_vars(ShutdownStep)

FairSpec == Spec /\ Fairness

=============================================================================
