--------------------------- MODULE PoolProperties ---------------------------
(***************************************************************************)
(* What the thread pool of PoolCore must, and must not, do.                *)
(***************************************************************************)
EXTENDS PoolCore

LiveStates == ActiveStates \cup AsleepStates
Ready      == In({"fetching", "woken"})

-----------------------------------------------------------------------------
(* Invariants.                                                             *)

(* m_worker_count and m_active_worker_count, updated at seven places by    *)
(* different threads, never drift from the threads they count: the first   *)
(* counts those attached to the pool, the second those that are not        *)
(* waiting for a task.  A drift ends wait() early or never, or wraps the   *)
(* unsigned counters.                                                      *)
CountersExact ==
  /\ m_worker_count = Cardinality(In(LiveStates))
  /\ m_active_worker_count = Cardinality(In(ActiveStates))

(* "The task will be executed once only" (pool_core.hpp:178): a task is    *)
(* pending once, or executed by one worker, or executed, or cleared, and   *)
(* never two of these, whichever workers race for it.                      *)
ExecutedOnce ==
  /\ \A i, j \in DOMAIN m_scheduler :
       m_scheduler[i] = m_scheduler[j] => i = j
  /\ \A v, w \in Executing : task[v] = task[w] => v = w
  /\ \A i \in DOMAIN m_scheduler : m_scheduler[i] \notin done \cup dropped
  /\ \A w \in Executing : /\ task[w] \notin done \cup dropped
                          /\ \A i \in DOMAIN m_scheduler :
                               task[w] # m_scheduler[i]
  /\ done \cap dropped = {}

(* schedule() notifies one worker and the notified worker may find its     *)
(* task taken by another, or the pool resized: still no task is left       *)
(* pending behind a sleeping worker without an awake worker to fetch it.   *)
NoLostTaskWakeup ==
  In({"asleep"}) # {} => Len(m_scheduler) <= Cardinality(Ready)

(* A worker that has to leave is not asleep: every decrease of the target  *)
(* reaches the workers that wait for a task.                               *)
ShrinkReachesSleepers == TooManyWorkers => In({"asleep"}) = {}

(* Nobody sleeps on m_worker_idle_or_terminated_event in wait(0) or in     *)
(* terminate_all_workers when what it waits for holds: every step that     *)
(* makes it hold notifies.  (clear() is the exception: it does not notify, *)
(* so this is stated of pools that are not cleared while threads wait.)    *)
NoMissedIdleEvent ==
  /\ \A c \in Clients : cpc[c] = "asleep" /\ threshold[c] = 0 => Load > 0
  /\ shutdown = "wait_asleep" => Load > 0
  /\ shutdown = "term_asleep" => m_active_worker_count > 0

(* When the pool starts to terminate its workers the promise of its        *)
(* shutdown policy is kept and stays kept: nothing is pending, and nothing *)
(* is executing unless the policy does not wait.                           *)
ShutdownKeepsPromise ==
  shutdown \in {"terminate", "term_asleep", "term_woken", "joining", "done"} =>
    /\ m_scheduler = <<>>
    /\ ShutdownPolicy # "immediately" => Executing = {}

(* static_size "preserves the thread count" (size_policies.hpp:63): while  *)
(* no one shrinks the pool and threads can be created it has the number of *)
(* workers asked for, and never fewer than it was created with, though     *)
(* tasks throw and kill their workers.                                     *)
SizePreserved ==
  shutdown # "constructing" /\ ~m_terminate_all_workers =>
    /\ m_worker_count = m_target_worker_count
    /\ m_worker_count >= InitialThreads

-----------------------------------------------------------------------------
(* Action properties.                                                      *)

(* wait(k) returns only when at most k tasks are pending or executing,     *)
(* counting the tasks themselves and not m_active_worker_count.            *)
WaitReturnsQuiet ==
  [][\A c \in Clients : cpc[c] = "woken" /\ cpc'[c] = "out" =>
       Cardinality(Executing) + Len(m_scheduler) <= threshold[c]]_vars

(* Once termination was triggered, resize() and dying workers, which may   *)
(* run at any moment of the shutdown, do not bring workers back.           *)
NoNewWorkersAfterTermination ==
  [][m_terminate_all_workers =>
       /\ m_terminate_all_workers'
       /\ m_target_worker_count' = 0
       /\ m_worker_count' <= m_worker_count]_vars

-----------------------------------------------------------------------------
(* Liveness.                                                               *)

(* Every scheduled task is executed or cleared.                            *)
EveryTaskEnds == \A t \in Tasks : Submitted(t) ~> t \in done \cup dropped

(* wait() returns once every task has been executed.                       *)
WaitReturns == \A c \in Clients : cpc[c] # "out" ~> cpc[c] = "out"

(* "If the last pool holding a pointer to the core is deleted the          *)
(* controller shuts the pool down" (pool.hpp:81): the shutdown returns,    *)
(* unless a task of the pool deletes it, which waits for itself.           *)
ShutdownReturns == shutdown \notin {"constructing", "open"} ~> shutdown = "done"

(* After the shutdown every worker thread leaves the pool.                 *)
WorkersLeave == shutdown = "done" ~> m_worker_count = 0

-----------------------------------------------------------------------------
(* PoolCore implements TaskPool.                                           *)

(* lifo_scheduler keeps its deque with the newest task in front.           *)
Arrived == IF SchedulingPolicy = "lifo_scheduler" THEN Reverse(m_scheduler)
                                                  ELSE m_scheduler

Running == {t \in Tasks : \E w \in Workers : task[w] = t}

Phase ==
  CASE shutdown \in {"constructing", "open"} -> "open"
    [] shutdown = "clear" -> "closing"
    [] shutdown \in {"wait", "wait_asleep", "wait_woken"} -> "draining"
    [] OTHER -> "terminated"

Promised == INSTANCE TaskPool WITH
              arrived <- Arrived, running <- Running, phase <- Phase

(* Whatever its threads do, the pool is to its users the sequential object *)
(* of TaskPool: tasks start in the order of the scheduling policy even     *)
(* when workers race for them, each once, and the destructor gets past its *)
(* wait only when it may.                                                  *)
ImplementsTaskPool == Promised!TaskPoolSpec

(* With at least one worker it also keeps starting tasks and gets past     *)
(* that wait.                                                              *)
ImplementsFairTaskPool == Promised!TaskPoolFairSpec

-----------------------------------------------------------------------------
(* What the documentation says and the code does not do.                   *)

(* "waits for the completion of all tasks and the worker termination       *)
(* afterwards" (shutdown_policies.hpp:29-30).                              *)
ShutdownAwaitsWorkers ==
  shutdown = "done" /\ ShutdownPolicy # "immediately" => m_worker_count = 0

=============================================================================
