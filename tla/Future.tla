------------------------------- MODULE Future -------------------------------
(***************************************************************************)
(* The futures of boost/threadpool/future.hpp on top of the pool: what     *)
(* schedule(pool, function) returns, the task that delivers the value, and *)
(* the threads that wait for it or cancel it.                              *)
(*                                                                         *)
(* The pool is what PoolCore implements, TaskPool; a future is named by    *)
(* its task.  wait and set_value are critical sections of the future's     *)
(* m_monitor.  ready, cancel, is_cancelled and set_execution_status take   *)
(* no lock, hence one action for each access to a member that another      *)
(* thread may write; as cancel may come between the test and the writes of *)
(* set_value, that is two actions, which hold the monitor in between.      *)
(***************************************************************************)
EXTENDS TaskPool

CONSTANTS
  Callers,            \* threads that hold copies of the futures
  EmptyFunctions,     \* tasks whose function object is empty
  ThrowingFunctions   \* tasks whose function may throw thread_interrupted

VARIABLES
  m_ready, m_is_cancelled, m_executing,   \* members of each future_impl
  rpc,     \* how far each task is in future_impl_task_func::operator()
  cpc,     \* where each caller is in wait, timed_wait or cancel
  future,  \* the future that call is on
  timed    \* whether the wait has a timestamp

futureVars == <<m_ready, m_is_cancelled, m_executing>>
callVars   == <<cpc, future, timed>>
allVars    == <<taskPoolVars, futureVars, rpc, callVars>>

FutureTypeOK ==
  /\ m_ready \in [Tasks -> BOOLEAN]
  /\ m_is_cancelled \in [Tasks -> BOOLEAN]
  /\ m_executing \in [Tasks -> BOOLEAN]
  /\ rpc \in [Tasks -> {"idle", "started", "executing", "calling",
                        "computed", "delivering", "leaving", "ended"}]
  /\ cpc \in [Callers -> {"out", "asleep", "woken", "timed_out",
                          "checking", "setting"}]
  /\ future \in [Callers -> Tasks]
  /\ timed \in [Callers -> BOOLEAN]

FutureInit ==
  /\ TaskPoolInit
  /\ m_ready = [t \in Tasks |-> FALSE]
  /\ m_is_cancelled = [t \in Tasks |-> FALSE]
  /\ m_executing = [t \in Tasks |-> FALSE]
  /\ rpc = [t \in Tasks |-> "idle"]
  /\ cpc = [c \in Callers |-> "out"]
  /\ future \in [Callers -> Tasks]
  /\ timed = [c \in Callers |-> FALSE]

Scheduled(t) == t \in ToSet(arrived) \cup running \cup done \cup dropped

-----------------------------------------------------------------------------
(* A name with an underscore is a variant of the definition after it, with *)
(* a mistake that a property must exclude.                                 *)
ScheduleFuture_NotInitialised(t) ==
  /\ Accept(t)
  /\ \E b \in BOOLEAN : m_ready' = [m_ready EXCEPT ![t] = b]
  /\ UNCHANGED <<m_is_cancelled, m_executing, rpc, callVars>>

(* schedule(pool, function).  The constructor of future_impl initialises   *)
(* m_ready and m_is_cancelled; m_executing has whatever value is there.    *)
ScheduleFuture(t) ==
  /\ Accept(t)
  /\ \E b \in BOOLEAN : m_executing' = [m_executing EXCEPT ![t] = b]
  /\ UNCHANGED <<m_ready, m_is_cancelled, rpc, callVars>>

(* The pool clears its tasks, or is shut down.                             *)
PoolStep ==
  /\ DropAll \/ Close \/ DropAtClose \/ Terminate
  /\ UNCHANGED <<futureVars, rpc, callVars>>

-----------------------------------------------------------------------------
(* A worker of the pool executes future_impl_task_func::operator().        *)

StartTask(t) ==
  /\ Start
  /\ t \in running' \ running
  /\ rpc' = [rpc EXCEPT ![t] = IF t \in EmptyFunctions THEN "ended"
                                                       ELSE "started"]
  /\ UNCHANGED <<futureVars, callVars>>

(* set_execution_status(true)                                              *)
BeginExecution(t) ==
  /\ rpc[t] = "started"
  /\ m_executing' = [m_executing EXCEPT ![t] = TRUE]
  /\ rpc' = [rpc EXCEPT ![t] = "executing"]
  /\ UNCHANGED <<taskPoolVars, m_ready, m_is_cancelled, callVars>>

CheckCancelled(t) ==
  /\ rpc[t] = "executing"
  /\ rpc' = [rpc EXCEPT ![t] = IF m_is_cancelled[t] THEN "leaving"
                                                    ELSE "calling"]
  /\ UNCHANGED <<taskPoolVars, futureVars, callVars>>

(* m_function() returns its value, or throws: then neither set_value nor   *)
(* set_execution_status is called.                                         *)
CallFunction(t) ==
  /\ rpc[t] = "calling"
  /\ \/ rpc' = [rpc EXCEPT ![t] = "computed"]
     \/ t \in ThrowingFunctions /\ rpc' = [rpc EXCEPT ![t] = "ended"]
  /\ UNCHANGED <<taskPoolVars, futureVars, callVars>>

(* m_condition_ready.notify_all() of a future                              *)
NotifyReady(t) ==
  cpc' = [c \in Callers |-> IF cpc[c] = "asleep" /\ future[c] = t
                            THEN "woken" ELSE cpc[c]]

SetValue_IgnoresCancel(t) ==
  /\ rpc[t] = "computed"
  /\ rpc' = [rpc EXCEPT ![t] = IF m_ready[t] THEN "leaving" ELSE "delivering"]
  /\ UNCHANGED <<taskPoolVars, futureVars, callVars>>

(* set_value locks the monitor and looks at m_ready and m_is_cancelled ... *)
SetValue(t) ==
  /\ rpc[t] = "computed"
  /\ rpc' = [rpc EXCEPT ![t] = IF m_ready[t] \/ m_is_cancelled[t]
                               THEN "leaving" ELSE "delivering"]
  /\ UNCHANGED <<taskPoolVars, futureVars, callVars>>

Deliver_NotifyOne(t) ==
  /\ rpc[t] = "delivering"
  /\ m_ready' = [m_ready EXCEPT ![t] = TRUE]
  /\ LET asleep == {c \in Callers : cpc[c] = "asleep" /\ future[c] = t}
     IN  IF asleep = {} THEN UNCHANGED cpc
         ELSE \E c \in asleep : cpc' = [cpc EXCEPT ![c] = "woken"]
  /\ rpc' = [rpc EXCEPT ![t] = "leaving"]
  /\ UNCHANGED <<taskPoolVars, m_is_cancelled, m_executing, future, timed>>

(* ... and then writes the value, whatever cancel did meanwhile.           *)
Deliver(t) ==
  /\ rpc[t] = "delivering"
  /\ m_ready' = [m_ready EXCEPT ![t] = TRUE]
  /\ NotifyReady(t)
  /\ rpc' = [rpc EXCEPT ![t] = "leaving"]
  /\ UNCHANGED <<taskPoolVars, m_is_cancelled, m_executing, future, timed>>

(* set_execution_status(false)                                             *)
EndExecution(t) ==
  /\ rpc[t] = "leaving"
  /\ m_executing' = [m_executing EXCEPT ![t] = FALSE]
  /\ rpc' = [rpc EXCEPT ![t] = "ended"]
  /\ UNCHANGED <<taskPoolVars, m_ready, m_is_cancelled, callVars>>

TaskEnds(t) ==
  /\ rpc[t] = "ended"
  /\ Finish(t)
  /\ UNCHANGED <<futureVars, rpc, callVars>>

RunStep(t) ==
  \/ BeginExecution(t) \/ CheckCancelled(t) \/ CallFunction(t)
  \/ SetValue(t) \/ Deliver(t) \/ EndExecution(t) \/ TaskEnds(t)

-----------------------------------------------------------------------------
(* The callers.                                                            *)

(* Nobody holds the m_monitor of the future.                               *)
MonitorFree(t) == rpc[t] # "delivering"

(* wait, timed_wait, get and operator() on a future that is not ready; on  *)
(* one that is they return at once.                                        *)
Wait(c, t, withTimestamp) ==
  /\ cpc[c] = "out"
  /\ Scheduled(t) /\ MonitorFree(t) /\ ~m_ready[t]
  /\ cpc' = [cpc EXCEPT ![c] = "asleep"]
  /\ future' = [future EXCEPT ![c] = t]
  /\ timed' = [timed EXCEPT ![c] = withTimestamp]
  /\ UNCHANGED <<taskPoolVars, futureVars, rpc>>

ResumeWait(c) ==
  /\ cpc[c] = "woken" /\ MonitorFree(future[c])
  /\ cpc' = [cpc EXCEPT ![c] = IF m_ready[future[c]] THEN "out" ELSE "asleep"]
  /\ UNCHANGED <<taskPoolVars, futureVars, rpc, future, timed>>

Timeout(c) ==
  /\ cpc[c] = "asleep" /\ timed[c]
  /\ cpc' = [cpc EXCEPT ![c] = "timed_out"]
  /\ UNCHANGED <<taskPoolVars, futureVars, rpc, future, timed>>

(* timed_wait has the monitor again and returns false.                     *)
ReturnFalse(c) ==
  /\ cpc[c] = "timed_out" /\ MonitorFree(future[c])
  /\ cpc' = [cpc EXCEPT ![c] = "out"]
  /\ UNCHANGED <<taskPoolVars, futureVars, rpc, future, timed>>

(* cancel() reads m_ready ...                                              *)
Cancel(c, t) ==
  /\ cpc[c] = "out"
  /\ Scheduled(t)
  /\ cpc' = [cpc EXCEPT ![c] = IF m_ready[t] THEN "checking" ELSE "setting"]
  /\ future' = [future EXCEPT ![c] = t]
  /\ UNCHANGED <<taskPoolVars, futureVars, rpc, timed>>

CancelCheck_Inverted(c) ==
  /\ cpc[c] = "checking"
  /\ cpc' = [cpc EXCEPT ![c] = IF m_executing[future[c]] THEN "out"
                                                         ELSE "setting"]
  /\ UNCHANGED <<taskPoolVars, futureVars, rpc, future, timed>>

(* ... then m_executing, if the future is ready, and returns false ...     *)
CancelCheck(c) ==
  /\ cpc[c] = "checking"
  /\ cpc' = [cpc EXCEPT ![c] = IF m_executing[future[c]] THEN "setting"
                                                         ELSE "out"]
  /\ UNCHANGED <<taskPoolVars, futureVars, rpc, future, timed>>

(* ... or sets m_is_cancelled and returns true.                            *)
CancelSet(c) ==
  /\ cpc[c] = "setting"
  /\ m_is_cancelled' = [m_is_cancelled EXCEPT ![future[c]] = TRUE]
  /\ cpc' = [cpc EXCEPT ![c] = "out"]
  /\ UNCHANGED <<taskPoolVars, m_ready, m_executing, rpc, future, timed>>

SpuriousWakeup(c) ==
  /\ cpc[c] = "asleep"
  /\ cpc' = [cpc EXCEPT ![c] = "woken"]
  /\ UNCHANGED <<taskPoolVars, futureVars, rpc, future, timed>>

(* What a caller does without deciding to.                                 *)
CallStep(c) ==
  ResumeWait(c) \/ Timeout(c) \/ ReturnFalse(c) \/ CancelCheck(c) \/ CancelSet(c)

-----------------------------------------------------------------------------
FutureNext ==
  \/ \E t \in Tasks : ScheduleFuture(t) \/ StartTask(t) \/ RunStep(t)
  \/ PoolStep
  \/ \E c \in Callers :
       \/ \E t \in Tasks, b \in BOOLEAN : Wait(c, t, b)
       \/ \E t \in Tasks : Cancel(c, t)
       \/ CallStep(c) \/ SpuriousWakeup(c)

FutureSpec == FutureInit /\ [][FutureNext]_allVars

(* Workers start the pending tasks and execute them to their end, as       *)
(* TaskPool has it, and callers that can run do.                           *)
FutureFairness ==
  /\ WF_allVars(\E t \in Tasks : StartTask(t))
  /\ \A t \in Tasks : WF_allVars(RunStep(t))
  /\ \A c \in Callers : WF_allVars(CallStep(c))

FutureFairSpec == FutureSpec /\ FutureFairness

-----------------------------------------------------------------------------
(* Properties.                                                             *)

(* A future is ready only when its task was taken from the pool and its    *)
(* function returned the value: get() never reads m_result before it is    *)
(* there, and a task that was cleared, skipped or left by an exception     *)
(* leaves its future unready.                                              *)
ReadyMeansComputed ==
  \A t \in Tasks :
    m_ready[t] => /\ rpc[t] \in {"leaving", "ended"}
                  /\ t \in running \cup done
                  /\ t \notin EmptyFunctions \cup dropped

(* No caller sleeps on a future that is ready, whichever of its loads and  *)
(* the value's delivery came first.                                        *)
NoMissedValue ==
  \A c \in Callers : cpc[c] = "asleep" => ~m_ready[future[c]]

(* The future is cancelled, and was so when set_value looked.              *)
CalledOff(t) ==
  m_is_cancelled[t] /\ ~m_ready[t] /\ rpc[t] # "delivering"

(* The future is cancelled, and nobody is about to call its function.      *)
NotToBeCalled(t) ==
  m_is_cancelled[t] /\ rpc[t] \notin {"calling", "computed", "delivering"}

(* A cancellation that comes before the test of set_value is final: the    *)
(* value is never delivered; and one that comes before is_cancelled() is   *)
(* read keeps the function from ever being called.  (One that comes later, *)
(* but before m_ready is set, is answered true as well and changes         *)
(* nothing.)                                                               *)
CancelTakesEffect ==
  [][\A t \in Tasks : /\ CalledOff(t) => CalledOff(t)'
                      /\ NotToBeCalled(t) => NotToBeCalled(t)']_allVars

(* cancel() returns false only for a future whose task is over and that    *)
(* has its value: whoever is refused can get() without blocking.           *)
RefusedMeansOver ==
  [][\A c \in Callers :
       cpc[c] = "checking" /\ cpc'[c] = "out" =>
         m_ready[future[c]] /\ rpc[future[c]] = "ended"]_allVars

(* Whoever waits for a future gets its value, unless the task was cleared  *)
(* or has none to give, or was cancelled before its value was tested for   *)
(* delivery: a cancellation that comes too late makes nobody wait.         *)
GetReturns ==
  \A c \in Callers, t \in Tasks :
    cpc[c] \in {"asleep", "woken"} /\ future[c] = t ~>
      \/ cpc[c] \notin {"asleep", "woken"}
      \/ t \in dropped \cup EmptyFunctions \cup ThrowingFunctions
      \/ CalledOff(t)

=============================================================================
