------------------------ MODULE PoolRefinementProofs ------------------------
(***************************************************************************)
(* PoolCore implements TaskPool: each critical section of a thread is one  *)
(* step of the abstract pool or changes nothing its users can tell.        *)
(***************************************************************************)
EXTENDS PoolCoreProofs

-----------------------------------------------------------------------------
(* What the container of each policy is in order of arrival.               *)

ArrivedIn(q) == IF SchedulingPolicy = "lifo_scheduler" THEN Reverse(q) ELSE q

LEMMA ArrivedInProperties ==
  ASSUME NEW q \in Seq(Tasks)
  PROVE  /\ ArrivedIn(q) \in Seq(Tasks)
         /\ Len(ArrivedIn(q)) = Len(q)
         /\ ToSet(ArrivedIn(q)) = ToSet(q)
         /\ q = <<>> <=> ArrivedIn(q) = <<>>
<1>0. Len(q) \in Nat /\ DOMAIN q = 1..Len(q)
  BY LenProperties
<1>1. CASE SchedulingPolicy # "lifo_scheduler"
  BY <1>1 DEF ArrivedIn
<1>2. CASE SchedulingPolicy = "lifo_scheduler"
  <2> DEFINE r == Reverse(q)
  <2>1. /\ r \in Seq(Tasks)
        /\ Len(r) = Len(q)
        /\ DOMAIN r = 1..Len(q)
        /\ \A i \in 1..Len(q) : r[i] = q[Len(q) - i + 1]
    BY ReverseProperties
  <2> HIDE DEF r
  <2>2. \A i \in 1..Len(q) : Len(q) - i + 1 \in 1..Len(q)
                             /\ Len(q) - (Len(q) - i + 1) + 1 = i
    BY <1>0
  <2>3. \A i \in 1..Len(q) : \E j \in 1..Len(q) : q[i] = r[j]
    BY <2>1, <2>2
  <2>4. ToSet(r) = ToSet(q)
    <3>1. /\ ToSet(q) = {q[i] : i \in 1..Len(q)}
          /\ ToSet(r) = {r[i] : i \in 1..Len(q)}
      BY <1>0, <2>1 DEF ToSet
    <3>2. \A i \in 1..Len(q) : \E j \in 1..Len(q) : r[i] = q[j]
      BY <2>1, <2>2
    <3> QED BY <2>3, <3>1, <3>2, Zenon
  <2>5. q = <<>> <=> r = <<>>
    BY <1>0, <2>1, EmptySeq
  <2> QED BY <1>2, <2>1, <2>4, <2>5 DEF ArrivedIn, r
<1> QED BY <1>1, <1>2

(* schedule() appends to the order of arrival.                             *)
LEMMA ArrivedInPush ==
  ASSUME NEW q \in Seq(Tasks), NEW t \in Tasks
  PROVE  ArrivedIn(push(q, t)) = Append(ArrivedIn(q), t)
BY ReversePush DEF ArrivedIn, push

(* The task fetched is one that the policy of TaskPool lets start.         *)
LEMMA ArrivedInPop ==
  ASSUME NEW q \in Seq(Tasks), NEW i \in TopPositions(q)
  PROVE  \E k \in 1..Len(q) :
           /\ SchedulingPolicy = "fifo_scheduler" => k = 1
           /\ SchedulingPolicy = "lifo_scheduler" => k = Len(q)
           /\ SchedulingPolicy = "prio_scheduler" =>
                \A j \in 1..Len(q) :
                  ~(Priority[ArrivedIn(q)[k]] < Priority[ArrivedIn(q)[j]])
           /\ ArrivedIn(q)[k] = top(q, i)
           /\ ArrivedIn(pop(q, i)) = RemoveAt(ArrivedIn(q), k)
<1>0. Len(q) \in Nat /\ DOMAIN q = 1..Len(q) /\ i \in 1..Len(q)
  BY LenProperties DEF TopPositions
<1>1. CASE SchedulingPolicy # "lifo_scheduler"
  BY <1>0, <1>1 DEF ArrivedIn, TopPositions, Less, top, pop
<1>2. CASE SchedulingPolicy = "lifo_scheduler"
  <2>1. i = 1 /\ Len(q) > 0 /\ Len(q) \in 1..Len(q)
    BY <1>0, <1>2 DEF TopPositions
  <2>2. Reverse(RemoveAt(q, 1)) = RemoveAt(Reverse(q), Len(q))
    BY <2>1, ReversePop
  <2>3. Reverse(q)[Len(q)] = q[Len(q) - Len(q) + 1]
    BY <2>1, ReverseProperties
  <2>4. Len(q) - Len(q) + 1 = 1
    BY <1>0
  <2> QED BY <1>2, <2>1, <2>2, <2>3, <2>4 DEF ArrivedIn, top, pop
<1> QED BY <1>1, <1>2

(* TaskPool takes its operators on sequences from the same library.        *)
LEMMA SameOperators ==
  /\ \A q, i : Promised!RemoveAt(q, i) = RemoveAt(q, i)
  /\ \A q : Promised!ToSet(q) = ToSet(q)
BY DEF Promised!RemoveAt, RemoveAt, Promised!ToSet, ToSet

-----------------------------------------------------------------------------
(* The steps that the users of the pool can tell.                          *)

LEMMA PhaseSteps ==
  ASSUME IInv, [Next]_vars
  PROVE  \/ UNCHANGED <<taskVars, Phase>>
         \/ \E t \in Tasks : Schedule(t)
         \/ Clear
         \/ \E w \in Workers : \E active :
              Take(w, active) /\ wpc[w] \in {"fetching", "woken"}
         \/ \E w \in Workers : \E next \in {"fetching", "dying"} :
              EndTask(w, next)
         \/ \E by \in Workers \cup {Owner} : BeginShutdown(by)
         \/ ShutdownClear
         \/ ShutdownWait /\ Load = 0
<1>0. UNCHANGED shutdown => UNCHANGED Phase
  BY DEF Phase
<1>1. NotifyIdle => UNCHANGED Phase
  BY DEF NotifyIdle, Phase
<1>2. CASE UNCHANGED vars
  BY <1>0, <1>2 DEF vars
<1>3. CASE Construct
  BY <1>3 DEF Construct, Phase
<1>4. CASE CallerStep
  BY <1>0, <1>4 DEF CallerStep, ControllerResize, Wait
<1>5. ASSUME NEW w \in Workers, WorkerStep(w)
      PROVE  \/ UNCHANGED <<taskVars, Phase>>
             \/ \E active : /\ Take(w, active)
                            /\ wpc[w] \in {"fetching", "woken"}
             \/ \E next \in {"fetching", "dying"} : EndTask(w, next)
  <2>1. CASE FetchTask(w)
    BY <1>0, <1>1, <2>1 DEF FetchTask, WaitForTask, Leave, Sleep
  <2>2. CASE ResumeFetch(w)
    BY <1>0, <1>1, <2>2 DEF ResumeFetch, WaitForTask, Leave, Sleep
  <2>3. CASE TaskReturns(w) \/ TaskThrows(w)
    BY <2>3 DEF TaskReturns, TaskThrows
  <2>4. CASE WorkerDestructed(w) \/ WorkerDiedUnexpectedly(w) \/ ThreadExit(w)
    BY <1>0, <1>1, <2>4 DEF WorkerDestructed, WorkerDiedUnexpectedly,
       ThreadExit
  <2> QED BY <1>5, <2>1, <2>2, <2>3, <2>4 DEF WorkerStep
<1>6. CASE \E c \in Clients : ClientStep(c)
  BY <1>0, <1>6 DEF ClientStep, ResumeWait, Timeout, ReturnFalse
<1>7. CASE ShutdownStep
  <2>1. CASE ShutdownWait /\ Load # 0
    BY <2>1 DEF ShutdownWait, Phase
  <2>2. CASE TerminateAllWorkers \/ ResumeTerminate \/ JoinTerminated
    BY <2>2 DEF TerminateAllWorkers, ResumeTerminate, AfterActiveCheck,
       JoinTerminated, Phase
  <2> QED BY <1>7, <2>1, <2>2 DEF ShutdownStep
<1>8. CASE SpuriousWakeup
  BY <1>0, <1>8 DEF SpuriousWakeup, Phase
<1> QED BY <1>2, <1>3, <1>4, <1>5, <1>6, <1>7, <1>8 DEF Next

(* The tasks being executed, in the terms of TaskInv and OnePlace.         *)
LEMMA RunningSteps ==
  ASSUME TaskInv, OnePlace, NEW w \in Workers
  PROVE  /\ \A t \in Tasks : task[w] = NoTask /\ task' = [task EXCEPT ![w] = t]
              => Running' = Running \cup {t}
         /\ task[w] # NoTask /\ task' = [task EXCEPT ![w] = NoTask]
              => task[w] \in Running /\ Running' = Running \ {task[w]}
<1>0. NoTask \notin Tasks
  BY PoolAssumption DEF PoolAssumption
<1>1. ASSUME NEW t \in Tasks, task[w] = NoTask,
             task' = [task EXCEPT ![w] = t]
      PROVE  Running' = Running \cup {t}
  <2>1. task'[w] = t /\ \A v \in Workers \ {w} : task'[v] = task[v]
    BY <1>1 DEF TaskInv
  <2> QED BY <1>0, <1>1, <2>1 DEF Running
<1>2. ASSUME task[w] # NoTask, task' = [task EXCEPT ![w] = NoTask]
      PROVE  task[w] \in Running /\ Running' = Running \ {task[w]}
  <2>1. task'[w] = NoTask /\ \A v \in Workers \ {w} : task'[v] = task[v]
    BY <1>2 DEF TaskInv
  <2>2. \A v \in Workers \ {w} : task[v] # task[w]
    BY <1>2 DEF OnePlace
  <2> QED BY <1>0, <1>2, <2>1, <2>2 DEF Running, TaskInv
<1> QED BY <1>1, <1>2

LEMMA InitRefines == Init => Promised!TaskPoolInit
BY PoolAssumption DEF PoolAssumption, Init, Promised!TaskPoolInit, Arrived,
   Running, Phase, Reverse

LEMMA StepRefines ==
  IInv /\ OnePlace /\ [Next]_vars
    => [Promised!TaskPoolNext]_(Promised!taskPoolVars)
<1> SUFFICES ASSUME IInv, OnePlace, [Next]_vars
             PROVE  [Promised!TaskPoolNext]_(Promised!taskPoolVars)
  OBVIOUS
<1>0. PoolInv /\ TaskInv
  BY IInvParts
<1>1. m_scheduler \in Seq(Tasks) /\ Len(m_scheduler) \in Nat
  BY <1>0, LenProperties DEF PoolInv
<1>2. Arrived = ArrivedIn(m_scheduler) /\ Arrived' = ArrivedIn(m_scheduler')
  BY DEF Arrived, ArrivedIn
<1>3. /\ Arrived \in Seq(Tasks)
      /\ Len(Arrived) = Len(m_scheduler)
      /\ ToSet(Arrived) = ToSet(m_scheduler)
      /\ m_scheduler = <<>> <=> Arrived = <<>>
  BY <1>1, <1>2, ArrivedInProperties, Zenon
<1>4. UNCHANGED shutdown => UNCHANGED Phase
  BY DEF Phase
<1>5. CASE UNCHANGED <<taskVars, Phase>>
  BY <1>5 DEF Promised!taskPoolVars, taskVars, Arrived, Running
<1>6. ASSUME NEW t \in Tasks, Schedule(t)
      PROVE  Promised!Accept(t)
  <2>1. /\ m_scheduler' = push(m_scheduler, t)
        /\ UNCHANGED <<task, done, dropped, shutdown>>
        /\ shutdown = "open"
        /\ t \notin ToSet(m_scheduler) \cup done \cup dropped
        /\ \A w \in Workers : task[w] # t
    BY <1>6 DEF Schedule, Submitted
  <2>2. Arrived' = Append(Arrived, t)
    BY <1>1, <1>2, <2>1, ArrivedInPush
  <2>3. t \notin Promised!ToSet(Arrived) \cup Running \cup done \cup dropped
    BY <1>3, <2>1, SameOperators DEF Running
  <2>4. UNCHANGED <<Running, done, dropped, Phase>> /\ Phase = "open"
    BY <1>4, <2>1 DEF Running, Phase
  <2> QED BY <2>2, <2>3, <2>4 DEF Promised!Accept
<1>7. ASSUME ClearScheduler, UNCHANGED <<task, done>>
      PROVE  Promised!DropPending
  <2>1. dropped' = dropped \cup Promised!ToSet(Arrived)
    BY <1>3, <1>7, SameOperators DEF ClearScheduler
  <2>2. Arrived' = <<>>
    BY <1>7 DEF ClearScheduler, Arrived, Reverse
  <2>3. UNCHANGED <<Running, done>>
    BY <1>7 DEF Running
  <2> QED BY <2>1, <2>2, <2>3 DEF Promised!DropPending
<1>8. CASE Clear
  <2>1. Promised!DropPending
    BY <1>7, <1>8 DEF Clear
  <2>2. Phase = "open" /\ UNCHANGED Phase
    BY <1>8 DEF Clear, Phase
  <2> QED BY <2>1, <2>2 DEF Promised!DropAll, Promised!TaskPoolNext
<1>9. ASSUME NEW w \in Workers, NEW active, Take(w, active),
             wpc[w] \in {"fetching", "woken"}
      PROVE  Promised!Start
  <2>1. PICK i \in TopPositions(m_scheduler) :
          /\ task' = [task EXCEPT ![w] = top(m_scheduler, i)]
          /\ m_scheduler' = pop(m_scheduler, i)
    BY <1>9 DEF Take
  <2>2. PICK k \in 1..Len(m_scheduler) :
          /\ SchedulingPolicy = "fifo_scheduler" => k = 1
          /\ SchedulingPolicy = "lifo_scheduler" => k = Len(m_scheduler)
          /\ SchedulingPolicy = "prio_scheduler" =>
               \A j \in 1..Len(m_scheduler) :
                 ~(Priority[Arrived[k]] < Priority[Arrived[j]])
          /\ Arrived[k] = top(m_scheduler, i)
          /\ ArrivedIn(pop(m_scheduler, i)) = RemoveAt(Arrived, k)
    BY <1>1, <1>2, ArrivedInPop
  <2>3. DOMAIN Arrived = 1..Len(m_scheduler)
    BY <1>3, LenProperties
  <2>4. k \in Promised!MostUrgent
    BY <1>3, <2>2, <2>3, SchedulingPolicyAssumption
       DEF Promised!MostUrgent, SchedulingPolicyAssumption
  <2>5. Arrived' = Promised!RemoveAt(Arrived, k)
    BY <1>2, <2>1, <2>2, SameOperators
  <2>6. top(m_scheduler, i) \in Tasks
    BY <1>1, PopProperties
  <2>7. Running' = Running \cup {Arrived[k]}
    BY <1>0, <1>9, <2>1, <2>2, <2>6, RunningSteps DEF TaskInv
  <2>8. UNCHANGED <<done, dropped, Phase>>
    BY <1>4, <1>9 DEF Take
  <2> QED BY <2>4, <2>5, <2>7, <2>8 DEF Promised!Start
<1>10. ASSUME NEW w \in Workers, NEW next \in {"fetching", "dying"},
              EndTask(w, next)
       PROVE  \E t \in Tasks : Promised!Finish(t)
  <2>1. /\ task' = [task EXCEPT ![w] = NoTask]
        /\ done' = done \cup {task[w]}
        /\ UNCHANGED <<m_scheduler, dropped, shutdown>>
        /\ task[w] # NoTask
    BY <1>0, <1>10 DEF EndTask, TaskInv
  <2>2. task[w] \in Running /\ Running' = Running \ {task[w]}
    BY <1>0, <2>1, RunningSteps
  <2>3. UNCHANGED <<Arrived, Phase>> /\ task[w] \in Tasks
    BY <1>0, <1>4, <2>1 DEF Arrived, TaskInv
  <2> QED BY <2>1, <2>2, <2>3 DEF Promised!Finish
<1>11. ASSUME NEW by \in Workers \cup {Owner}, BeginShutdown(by)
       PROVE  Promised!Close
  <2>1. UNCHANGED <<Arrived, Running, done, dropped>>
    BY <1>11 DEF BeginShutdown, Arrived, Running, taskVars
  <2>2. /\ Phase = "open"
        /\ Phase' = IF ShutdownPolicy = "wait_for_all_tasks" THEN "draining"
                                                             ELSE "closing"
    BY <1>11 DEF BeginShutdown, Phase
  <2> QED BY <2>1, <2>2 DEF Promised!Close
<1>12. CASE ShutdownClear
  <2>1. Promised!DropPending
    BY <1>7, <1>12 DEF ShutdownClear
  <2>2. /\ Phase = "closing"
        /\ Phase' = IF ShutdownPolicy = "immediately" THEN "terminated"
                                                      ELSE "draining"
    BY <1>12 DEF ShutdownClear, Phase
  <2> QED BY <2>1, <2>2 DEF Promised!DropAtClose, Promised!TaskPoolNext
<1>13. CASE ShutdownWait /\ Load = 0
  <2>1. m_scheduler = <<>> /\ \A w \in Workers : task[w] = NoTask
    BY <1>13, IdleLoad
  <2>2. Arrived = <<>> /\ Running = {}
    BY <1>3, <2>1, PoolAssumption DEF PoolAssumption, Running
  <2>3. UNCHANGED <<Arrived, Running, done, dropped>>
    BY <1>13 DEF ShutdownWait, Arrived, Running, taskVars
  <2>4. Phase = "draining" /\ Phase' = "terminated"
    BY <1>13 DEF ShutdownWait, Phase
  <2> QED BY <2>2, <2>3, <2>4 DEF Promised!Terminate, Promised!TaskPoolNext
<1> QED
  BY <1>5, <1>6, <1>8, <1>9, <1>10, <1>11, <1>12, <1>13, PhaseSteps
     DEF Promised!TaskPoolNext

(* The threads of the pool, whatever their number and however they race,   *)
(* show its users a sequential object: every task is started in the order  *)
(* of the scheduling policy, once, unless it was cleared, and the last     *)
(* copy's destructor gets past its wait with no task left.                 *)
THEOREM PoolImplementsTaskPool == Spec => ImplementsTaskPool
<1>1. Init => OnePlace
  BY DEF Init, OnePlace, NoDuplicates
<1>2. Spec => []OnePlace
  BY <1>1, StepOnePlace, Invariance, PTL DEF Spec
<1> QED
  BY <1>2, Invariance, InitRefines, StepRefines, PTL
     DEF Spec, ImplementsTaskPool, Promised!TaskPoolSpec

=============================================================================
