------------------------------ MODULE TaskPool ------------------------------
(***************************************************************************)
(* What a thread_pool promises its users, without workers, monitor and     *)
(* conditions: every task scheduled is started once, in the order of the   *)
(* scheduling policy, unless it is cleared, and the destructor of the last *)
(* copy keeps the promise of the shutdown policy.                          *)
(***************************************************************************)
EXTENDS Naturals, Sequences, SequencesExt

CONSTANTS Tasks, SchedulingPolicy, Priority, ShutdownPolicy

VARIABLES
  arrived,        \* the pending tasks in the order they were scheduled
  running,        \* the tasks being executed
  done, dropped,  \* the tasks executed, and those cleared
  phase           \* of the destruction: "open" until it begins, "closing"
                  \* until pending tasks are dropped, "draining" while tasks
                  \* are waited for, then "terminated"

taskPoolVars == <<arrived, running, done, dropped, phase>>

TaskPoolInit ==
  /\ arrived = <<>>
  /\ running = {}
  /\ done = {}
  /\ dropped = {}
  /\ phase = "open"

Accept(t) ==
  /\ phase = "open"
  /\ t \notin ToSet(arrived) \cup running \cup done \cup dropped
  /\ arrived' = Append(arrived, t)
  /\ UNCHANGED <<running, done, dropped, phase>>

DropPending ==
  /\ dropped' = dropped \cup ToSet(arrived)
  /\ arrived' = <<>>
  /\ UNCHANGED <<running, done>>

DropAll == phase = "open" /\ DropPending /\ UNCHANGED phase

(* The pending tasks that the scheduling policy lets start next.           *)
MostUrgent ==
  {i \in DOMAIN arrived :
     CASE SchedulingPolicy = "fifo_scheduler" -> i = 1
       [] SchedulingPolicy = "lifo_scheduler" -> i = Len(arrived)
       [] SchedulingPolicy = "prio_scheduler" ->
            \A j \in DOMAIN arrived :
              ~(Priority[arrived[i]] < Priority[arrived[j]])}

Start ==
  /\ \E i \in MostUrgent : /\ running' = running \cup {arrived[i]}
                           /\ arrived' = RemoveAt(arrived, i)
  /\ UNCHANGED <<done, dropped, phase>>

Finish(t) ==
  /\ t \in running
  /\ running' = running \ {t}
  /\ done' = done \cup {t}
  /\ UNCHANGED <<arrived, dropped, phase>>

Close ==
  /\ phase = "open"
  /\ phase' = IF ShutdownPolicy = "wait_for_all_tasks" THEN "draining"
                                                       ELSE "closing"
  /\ UNCHANGED <<arrived, running, done, dropped>>

DropAtClose ==
  /\ phase = "closing"
  /\ DropPending
  /\ phase' = IF ShutdownPolicy = "immediately" THEN "terminated"
                                                ELSE "draining"

Terminate ==
  /\ phase = "draining"
  /\ arrived = <<>> /\ running = {}
  /\ phase' = "terminated"
  /\ UNCHANGED <<arrived, running, done, dropped>>

TaskPoolNext ==
  \/ \E t \in Tasks : Accept(t) \/ Finish(t)
  \/ DropAll \/ Start
  \/ Close \/ DropAtClose \/ Terminate

TaskPoolSpec == TaskPoolInit /\ [][TaskPoolNext]_taskPoolVars

(* A pool with a worker, of tasks that end, starts every task and lets the *)
(* destructor proceed.                                                     *)
TaskPoolFairness ==
  /\ WF_taskPoolVars(Start)
  /\ \A t \in Tasks : WF_taskPoolVars(Finish(t))
  /\ WF_taskPoolVars(DropAtClose \/ Terminate)

TaskPoolFairSpec == TaskPoolSpec /\ TaskPoolFairness

=============================================================================
