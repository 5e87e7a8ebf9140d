---------------------------- MODULE FutureProofs ----------------------------
(***************************************************************************)
(* The safety properties of futures, proved for every number of callers    *)
(* and tasks and every policy of the pool.                                 *)
(***************************************************************************)
EXTENDS Future, SequenceLemmas

-----------------------------------------------------------------------------
(* A task is in one place of the pool.                                     *)
PlacesInv ==
  /\ arrived \in Seq(Tasks)
  /\ NoDuplicates(arrived)
  /\ running \in SUBSET Tasks
  /\ done \in SUBSET Tasks
  /\ dropped \in SUBSET Tasks
  /\ ToSet(arrived) \cap (running \cup done \cup dropped) = {}
  /\ running \cap (done \cup dropped) = {}
  /\ done \cap dropped = {}

(* Where the execution of a task is, its future is too: the value is there *)
(* from set_value's writes on, and m_executing is set until                *)
(* set_execution_status.                                                   *)
ExecutionInv ==
  \A t \in Tasks :
    /\ rpc[t] # "idle" => t \in running \cup done
    /\ rpc[t] \in {"started", "executing", "calling", "computed",
                   "delivering", "leaving"}
         => t \in running \ EmptyFunctions
    /\ rpc[t] \in {"executing", "calling", "computed", "delivering", "leaving"}
         => m_executing[t]
    /\ m_ready[t] => rpc[t] \in {"leaving", "ended"} /\ t \notin EmptyFunctions

CallsInv ==
  \A c \in Callers : /\ cpc[c] = "asleep" => ~m_ready[future[c]]
                     /\ cpc[c] = "checking" => m_ready[future[c]]

FutureInv == FutureTypeOK /\ PlacesInv /\ ExecutionInv /\ CallsInv

-----------------------------------------------------------------------------
(* Steps of the pool.                                                      *)

LEMMA ToSetProperties ==
  ASSUME NEW q \in Seq(Tasks)
  PROVE  /\ Len(q) \in Nat
         /\ DOMAIN q = 1..Len(q)
         /\ ToSet(q) \in SUBSET Tasks
         /\ \A x : x \in ToSet(q) <=> \E i \in 1..Len(q) : q[i] = x
<1>1. Len(q) \in Nat /\ DOMAIN q = 1..Len(q)
  BY LenProperties
<1>2. \A i \in 1..Len(q) : q[i] \in Tasks
  BY ElementOfSeq
<1>3. ToSet(q) = {q[i] : i \in 1..Len(q)}
  BY <1>1 DEF ToSet
<1> QED BY <1>1, <1>2, <1>3

LEMMA AcceptPlaces ==
  ASSUME PlacesInv, NEW t \in Tasks, Accept(t)
  PROVE  PlacesInv'
<1>1. /\ t \notin ToSet(arrived) \cup running \cup done \cup dropped
      /\ arrived' = Append(arrived, t)
      /\ UNCHANGED <<running, done, dropped>>
  BY DEF Accept
<1>2. /\ Len(arrived) \in Nat
      /\ DOMAIN arrived = 1..Len(arrived)
      /\ \A x : x \in ToSet(arrived) <=>
                  \E i \in 1..Len(arrived) : arrived[i] = x
  BY ToSetProperties DEF PlacesInv
<1>3. /\ arrived' \in Seq(Tasks)
      /\ Len(arrived') = Len(arrived) + 1
      /\ \A i \in 1..Len(arrived) : arrived'[i] = arrived[i]
      /\ arrived'[Len(arrived) + 1] = t
  BY <1>1, AppendProperties DEF PlacesInv
<1>4. /\ DOMAIN arrived' = 1..Len(arrived) + 1
      /\ \A x : x \in ToSet(arrived') <=>
                  \E i \in 1..Len(arrived) + 1 : arrived'[i] = x
  BY <1>3, ToSetProperties
<1>5. \A i \in 1..Len(arrived) + 1 : i \in 1..Len(arrived) \/ i = Len(arrived) + 1
  BY <1>2
<1>6. \A x : x \in ToSet(arrived') <=> x \in ToSet(arrived) \/ x = t
  <2>1. Len(arrived) + 1 \in 1..Len(arrived) + 1
        /\ \A i \in 1..Len(arrived) : i \in 1..Len(arrived) + 1
    BY <1>2
  <2> QED BY <1>2, <1>3, <1>4, <1>5, <2>1
<1>7. NoDuplicates(arrived')
  <2> SUFFICES ASSUME NEW i \in 1..Len(arrived) + 1,
                      NEW j \in 1..Len(arrived) + 1, arrived'[i] = arrived'[j]
               PROVE  i = j
    BY <1>4 DEF NoDuplicates
  <2>1. \A k \in 1..Len(arrived) : arrived[k] # t
    BY <1>1, <1>2
  <2> QED BY <1>2, <1>3, <1>5, <2>1 DEF PlacesInv, NoDuplicates
<1> QED BY <1>1, <1>3, <1>6, <1>7 DEF PlacesInv

LEMMA DropPlaces ==
  ASSUME PlacesInv, DropPending
  PROVE  PlacesInv' /\ UNCHANGED <<running, done>>
<1>1. arrived' = <<>> /\ ToSet(arrived') = {} /\ NoDuplicates(arrived')
  BY DEF DropPending, ToSet, NoDuplicates
<1>2. dropped' = dropped \cup ToSet(arrived) /\ UNCHANGED <<running, done>>
  BY DEF DropPending
<1>3. ToSet(arrived) \in SUBSET Tasks
  BY ToSetProperties DEF PlacesInv
<1> QED BY <1>1, <1>2, <1>3 DEF PlacesInv

LEMMA StartPlaces ==
  ASSUME PlacesInv, Start
  PROVE  /\ PlacesInv'
         /\ UNCHANGED <<done, dropped>>
         /\ \E t \in Tasks : /\ t \notin running \cup done \cup dropped
                             /\ running' = running \cup {t}
<1>1. PICK i \in MostUrgent : /\ running' = running \cup {arrived[i]}
                              /\ arrived' = RemoveAt(arrived, i)
  BY DEF Start
<1>2. UNCHANGED <<done, dropped>>
  BY DEF Start
<1>3. /\ Len(arrived) \in Nat
      /\ DOMAIN arrived = 1..Len(arrived)
      /\ ToSet(arrived) \in SUBSET Tasks
      /\ \A x : x \in ToSet(arrived) <=>
                  \E k \in 1..Len(arrived) : arrived[k] = x
  BY ToSetProperties DEF PlacesInv
<1>4. i \in 1..Len(arrived)
  BY <1>3 DEF MostUrgent
<1>5. /\ arrived[i] \in ToSet(arrived)
      /\ arrived[i] \in Tasks
      /\ arrived[i] \notin running \cup done \cup dropped
  BY <1>3, <1>4 DEF PlacesInv
<1>6. /\ arrived' \in Seq(Tasks)
      /\ Len(arrived') = Len(arrived) - 1
      /\ \A j \in 1..Len(arrived) - 1 :
           arrived'[j] = arrived[IF j < i THEN j ELSE j + 1]
  BY <1>1, <1>4, RemoveAtProperties DEF PlacesInv
<1>7. /\ DOMAIN arrived' = 1..Len(arrived) - 1
      /\ \A x : x \in ToSet(arrived') <=>
                  \E k \in 1..Len(arrived) - 1 : arrived'[k] = x
  BY <1>6, ToSetProperties
<1> DEFINE at(j) == IF j < i THEN j ELSE j + 1
<1>8. \A j \in 1..Len(arrived) - 1 :
        at(j) \in 1..Len(arrived) /\ at(j) # i /\ arrived'[j] = arrived[at(j)]
  BY <1>3, <1>4, <1>6
<1>9. \A j, k \in 1..Len(arrived) - 1 : at(j) = at(k) => j = k
  BY <1>3, <1>4
<1> HIDE DEF at
<1>10. \A j, k \in 1..Len(arrived) : arrived[j] = arrived[k] => j = k
  BY <1>3 DEF PlacesInv, NoDuplicates
<1>11. NoDuplicates(arrived')
  BY <1>7, <1>8, <1>9, <1>10 DEF NoDuplicates
<1>12. \A x \in ToSet(arrived') : x \in ToSet(arrived) /\ x # arrived[i]
  BY <1>3, <1>4, <1>7, <1>8, <1>10
<1>13. PlacesInv'
  BY <1>1, <1>2, <1>5, <1>6, <1>11, <1>12 DEF PlacesInv
<1> QED BY <1>1, <1>2, <1>5, <1>13

-----------------------------------------------------------------------------
(* The invariant.                                                          *)

LEMMA InitFutureInv == FutureInit => FutureInv
BY DEF FutureInit, TaskPoolInit, FutureInv, FutureTypeOK, PlacesInv,
   ExecutionInv, CallsInv, ToSet, NoDuplicates

LEMMA ScheduleFutureInv ==
  ASSUME FutureInv, NEW t \in Tasks, ScheduleFuture(t)
  PROVE  FutureInv'
<1>1. Accept(t) /\ UNCHANGED <<m_ready, m_is_cancelled, rpc, callVars>>
  BY DEF ScheduleFuture
<1>2. PlacesInv' /\ UNCHANGED <<running, done>> /\ t \notin running \cup done
  BY <1>1, AcceptPlaces DEF FutureInv, Accept
<1>3. PICK b \in BOOLEAN : m_executing' = [m_executing EXCEPT ![t] = b]
  BY DEF ScheduleFuture
<1>4. /\ m_executing' \in [Tasks -> BOOLEAN]
      /\ \A u \in Tasks \ {t} : m_executing'[u] = m_executing[u]
  BY <1>3 DEF FutureInv, FutureTypeOK
<1>5. FutureTypeOK'
  BY <1>1, <1>4 DEF FutureInv, FutureTypeOK, callVars
<1>6. ExecutionInv'
  BY <1>1, <1>2, <1>4 DEF FutureInv, ExecutionInv
<1>7. CallsInv'
  BY <1>1 DEF FutureInv, CallsInv, callVars
<1> QED BY <1>2, <1>5, <1>6, <1>7 DEF FutureInv

LEMMA PoolStepInv ==
  ASSUME FutureInv, PoolStep
  PROVE  FutureInv'
<1>1. UNCHANGED <<futureVars, rpc, callVars>>
  BY DEF PoolStep
<1>2. PlacesInv' /\ UNCHANGED <<running, done>>
  <2>1. CASE DropPending
    BY <2>1, DropPlaces DEF FutureInv
  <2>2. CASE UNCHANGED <<arrived, running, done, dropped>>
    BY <2>2 DEF FutureInv, PlacesInv
  <2> QED BY <2>1, <2>2 DEF PoolStep, DropAll, Close, DropAtClose, Terminate
<1> QED
  BY <1>1, <1>2 DEF FutureInv, FutureTypeOK, ExecutionInv, CallsInv,
     futureVars, callVars

LEMMA StartTaskInv ==
  ASSUME FutureInv, NEW t \in Tasks, StartTask(t)
  PROVE  FutureInv'
<1>1. /\ Start
      /\ t \in running' \ running
      /\ rpc' = [rpc EXCEPT ![t] = IF t \in EmptyFunctions THEN "ended"
                                                           ELSE "started"]
      /\ UNCHANGED <<futureVars, callVars>>
  BY DEF StartTask
<1>2. /\ PlacesInv'
      /\ UNCHANGED <<done, dropped>>
      /\ running' = running \cup {t}
      /\ t \notin running \cup done
  BY <1>1, StartPlaces DEF FutureInv
<1>3. /\ rpc'[t] = IF t \in EmptyFunctions THEN "ended" ELSE "started"
      /\ \A u \in Tasks \ {t} : rpc'[u] = rpc[u]
      /\ FutureTypeOK'
  BY <1>1 DEF FutureInv, FutureTypeOK, futureVars, callVars
<1>4. rpc[t] = "idle" /\ ~m_ready[t]
  BY <1>2 DEF FutureInv, ExecutionInv
<1>5. ExecutionInv'
  BY <1>1, <1>2, <1>3, <1>4 DEF FutureInv, ExecutionInv, futureVars
<1>6. CallsInv'
  BY <1>1 DEF FutureInv, CallsInv, futureVars, callVars
<1> QED BY <1>2, <1>3, <1>5, <1>6 DEF FutureInv

LEMMA RunStepInv ==
  ASSUME FutureInv, NEW t \in Tasks, RunStep(t)
  PROVE  FutureInv'
<1>0. FutureTypeOK /\ PlacesInv /\ ExecutionInv /\ CallsInv
  BY DEF FutureInv
<1>1. CASE BeginExecution(t) \/ EndExecution(t)
  <2>1. PICK b \in BOOLEAN, from \in {"started", "leaving"},
             to \in {"executing", "ended"} :
          /\ b <=> to = "executing"
          /\ from = "started" <=> to = "executing"
          /\ rpc[t] = from
          /\ m_executing' = [m_executing EXCEPT ![t] = b]
          /\ rpc' = [rpc EXCEPT ![t] = to]
    BY <1>1 DEF BeginExecution, EndExecution
  <2>2. UNCHANGED <<taskPoolVars, m_ready, m_is_cancelled, callVars>>
    BY <1>1 DEF BeginExecution, EndExecution
  <2>3. /\ m_executing'[t] <=> b
        /\ rpc'[t] = to
        /\ \A u \in Tasks \ {t} : /\ rpc'[u] = rpc[u]
                                  /\ m_executing'[u] = m_executing[u]
        /\ FutureTypeOK'
    BY <1>0, <2>1, <2>2 DEF FutureTypeOK, callVars
  <2>4. ExecutionInv'
    BY <1>0, <2>1, <2>2, <2>3 DEF ExecutionInv, taskPoolVars
  <2> QED
    BY <1>0, <2>2, <2>3, <2>4
       DEF FutureInv, PlacesInv, CallsInv, taskPoolVars, callVars
<1>2. CASE CheckCancelled(t) \/ CallFunction(t) \/ SetValue(t)
  <2>1. PICK to \in {"leaving", "calling", "computed", "delivering", "ended"} :
          rpc' = [rpc EXCEPT ![t] = to]
    BY <1>2 DEF CheckCancelled, CallFunction, SetValue
  <2>2. /\ rpc[t] \in {"executing", "calling", "computed"}
        /\ UNCHANGED <<taskPoolVars, futureVars, callVars>>
    BY <1>2 DEF CheckCancelled, CallFunction, SetValue
  <2>3. /\ rpc'[t] = to
        /\ \A u \in Tasks \ {t} : rpc'[u] = rpc[u]
        /\ FutureTypeOK'
    BY <1>0, <2>1, <2>2 DEF FutureTypeOK, futureVars, callVars
  <2>4. ExecutionInv'
    BY <1>0, <2>1, <2>2, <2>3 DEF ExecutionInv, taskPoolVars, futureVars
  <2> QED
    BY <1>0, <2>2, <2>3, <2>4
       DEF FutureInv, PlacesInv, CallsInv, taskPoolVars, futureVars, callVars
<1>3. CASE Deliver(t)
  <2>1. /\ rpc[t] = "delivering"
        /\ rpc' = [rpc EXCEPT ![t] = "leaving"]
        /\ m_ready' = [m_ready EXCEPT ![t] = TRUE]
        /\ NotifyReady(t)
        /\ UNCHANGED <<taskPoolVars, m_is_cancelled, m_executing, future, timed>>
    BY <1>3 DEF Deliver
  <2>2. /\ rpc'[t] = "leaving"
        /\ \A u \in Tasks \ {t} : rpc'[u] = rpc[u] /\ m_ready'[u] = m_ready[u]
        /\ \A u \in Tasks : m_ready[u] => m_ready'[u]
        /\ FutureTypeOK'
    BY <1>0, <2>1 DEF FutureTypeOK, NotifyReady
  <2>3. ExecutionInv'
    BY <1>0, <2>1, <2>2 DEF ExecutionInv, taskPoolVars
  <2>4. CallsInv'
    BY <1>0, <2>1, <2>2 DEF CallsInv, NotifyReady, FutureTypeOK
  <2> QED
    BY <1>0, <2>1, <2>2, <2>3, <2>4 DEF FutureInv, PlacesInv, taskPoolVars
<1>4. CASE TaskEnds(t)
  <2>1. /\ rpc[t] = "ended"
        /\ running' = running \ {t}
        /\ done' = done \cup {t}
        /\ UNCHANGED <<arrived, dropped, futureVars, rpc, callVars>>
        /\ t \in running
    BY <1>4 DEF TaskEnds, Finish
  <2>2. PlacesInv'
    BY <1>0, <2>1 DEF PlacesInv
  <2>3. ExecutionInv'
    BY <1>0, <2>1 DEF ExecutionInv, futureVars
  <2> QED
    BY <1>0, <2>1, <2>2, <2>3
       DEF FutureInv, FutureTypeOK, CallsInv, futureVars, callVars
<1> QED BY <1>1, <1>2, <1>3, <1>4 DEF RunStep

(* The calls change nothing of the future but m_is_cancelled.              *)
LEMMA CallInv ==
  ASSUME FutureInv, NEW c \in Callers,
         \/ \E t \in Tasks, b \in BOOLEAN : Wait(c, t, b)
         \/ \E t \in Tasks : Cancel(c, t)
         \/ CallStep(c)
         \/ SpuriousWakeup(c)
  PROVE  FutureInv'
<1>0. FutureTypeOK /\ PlacesInv /\ ExecutionInv /\ CallsInv
  BY DEF FutureInv
<1>1. /\ UNCHANGED <<taskPoolVars, m_ready, m_executing, rpc>>
      /\ FutureTypeOK'
      /\ \A d \in Callers \ {c} : cpc'[d] = cpc[d] /\ future'[d] = future[d]
      /\ cpc'[c] = "asleep" => ~m_ready[future'[c]]
      /\ cpc'[c] = "checking" => m_ready[future'[c]]
  <2>1. ASSUME NEW t \in Tasks, NEW b \in BOOLEAN, Wait(c, t, b)
        PROVE  /\ UNCHANGED <<taskPoolVars, m_ready, m_executing, rpc>>
               /\ FutureTypeOK'
               /\ \A d \in Callers \ {c} :
                    cpc'[d] = cpc[d] /\ future'[d] = future[d]
               /\ cpc'[c] = "asleep" => ~m_ready[future'[c]]
               /\ cpc'[c] = "checking" => m_ready[future'[c]]
    BY <1>0, <2>1 DEF Wait, FutureTypeOK, futureVars
  <2>2. ASSUME NEW t \in Tasks, Cancel(c, t)
        PROVE  /\ UNCHANGED <<taskPoolVars, m_ready, m_executing, rpc>>
               /\ FutureTypeOK'
               /\ \A d \in Callers \ {c} :
                    cpc'[d] = cpc[d] /\ future'[d] = future[d]
               /\ cpc'[c] = "asleep" => ~m_ready[future'[c]]
               /\ cpc'[c] = "checking" => m_ready[future'[c]]
    BY <1>0, <2>2 DEF Cancel, FutureTypeOK, futureVars
  <2>3. CASE ResumeWait(c)
    BY <1>0, <2>3 DEF ResumeWait, FutureTypeOK, futureVars
  <2>4. CASE Timeout(c) \/ ReturnFalse(c) \/ SpuriousWakeup(c)
    BY <1>0, <2>4 DEF Timeout, ReturnFalse, SpuriousWakeup, FutureTypeOK,
       futureVars
  <2>5. CASE CancelCheck(c) \/ CancelSet(c)
    BY <1>0, <2>5 DEF CancelCheck, CancelSet, FutureTypeOK, futureVars
  <2> QED BY <2>1, <2>2, <2>3, <2>4, <2>5 DEF CallStep
<1>2. PlacesInv' /\ ExecutionInv'
  BY <1>0, <1>1 DEF PlacesInv, ExecutionInv, taskPoolVars
<1>3. CallsInv'
  BY <1>0, <1>1 DEF CallsInv
<1> QED BY <1>1, <1>2, <1>3 DEF FutureInv

LEMMA StepFutureInv == FutureInv /\ [FutureNext]_allVars => FutureInv'
<1> SUFFICES ASSUME FutureInv, [FutureNext]_allVars PROVE FutureInv'
  OBVIOUS
<1>1. CASE UNCHANGED allVars
  BY <1>1 DEF allVars, taskPoolVars, futureVars, callVars, FutureInv,
     FutureTypeOK, PlacesInv, ExecutionInv, CallsInv
<1>2. CASE FutureNext
  BY <1>2, ScheduleFutureInv, StartTaskInv, RunStepInv, PoolStepInv, CallInv
     DEF FutureNext
<1> QED BY <1>1, <1>2

THEOREM FutureInvariance == FutureSpec => []FutureInv
BY InitFutureInv, StepFutureInv, PTL DEF FutureSpec

(* A future is ready only if its function returned: no get() reads a value *)
(* that is not there.                                                      *)
THEOREM ReadyOnlyWhenComputed == FutureSpec => []ReadyMeansComputed
<1>1. FutureInv => ReadyMeansComputed
  BY DEF FutureInv, ExecutionInv, PlacesInv, ReadyMeansComputed
<1> QED BY <1>1, FutureInvariance, PTL

(* No caller sleeps on a future whose value was delivered.                 *)
THEOREM NoValueIsMissed == FutureSpec => []NoMissedValue
<1>1. FutureInv => NoMissedValue
  BY DEF FutureInv, CallsInv, NoMissedValue
<1> QED BY <1>1, FutureInvariance, PTL

-----------------------------------------------------------------------------
(* cancel().                                                               *)

(* Which steps change what cancel() is about.                              *)
LEMMA CancelSteps ==
  ASSUME FutureInv, [FutureNext]_allVars
  PROVE  /\ \/ UNCHANGED m_ready
            \/ \E t \in Tasks : Deliver(t)
         /\ \/ UNCHANGED m_is_cancelled
            \/ \E c \in Callers : CancelSet(c)
         /\ \/ UNCHANGED rpc
            \/ \E t \in Tasks : StartTask(t) \/ RunStep(t)
         /\ \/ \A c \in Callers : cpc[c] = "checking" => cpc'[c] = "checking"
            \/ \E c \in Callers : CancelCheck(c)
<1>0. FutureTypeOK
  BY DEF FutureInv
<1> DEFINE Goal ==
      /\ \/ UNCHANGED m_ready
         \/ \E t \in Tasks : Deliver(t)
      /\ \/ UNCHANGED m_is_cancelled
         \/ \E c \in Callers : CancelSet(c)
      /\ \/ UNCHANGED rpc
         \/ \E t \in Tasks : StartTask(t) \/ RunStep(t)
      /\ \/ \A c \in Callers : cpc[c] = "checking" => cpc'[c] = "checking"
         \/ \E c \in Callers : CancelCheck(c)
<1>1. CASE UNCHANGED allVars
  BY <1>1 DEF allVars, futureVars, callVars
<1>2. ASSUME NEW t \in Tasks, ScheduleFuture(t)
      PROVE  Goal
  BY <1>2 DEF ScheduleFuture, callVars
<1>3. ASSUME NEW t \in Tasks, StartTask(t)
      PROVE  Goal
  <2>1. UNCHANGED <<futureVars, callVars>>
    BY <1>3 DEF StartTask
  <2> QED BY <1>3, <2>1 DEF futureVars, callVars
<1>4. ASSUME NEW t \in Tasks, RunStep(t)
      PROVE  Goal
  <2>1. CASE Deliver(t)
    <3>1. \A c \in Callers : cpc[c] = "checking" => cpc'[c] = "checking"
      BY <2>1 DEF Deliver, NotifyReady
    <3>2. UNCHANGED m_is_cancelled
      BY <2>1 DEF Deliver
    <3> QED BY <1>4, <2>1, <3>1, <3>2
  <2>2. CASE ~Deliver(t)
    <3>1. UNCHANGED <<m_ready, m_is_cancelled, callVars>>
      BY <1>4, <2>2 DEF RunStep, BeginExecution, CheckCancelled, CallFunction,
         SetValue, EndExecution, TaskEnds, futureVars
    <3> QED BY <1>4, <3>1 DEF callVars
  <2> QED BY <2>1, <2>2
<1>5. CASE PoolStep
  BY <1>5 DEF PoolStep, futureVars, callVars
<1>6. ASSUME NEW c \in Callers,
             \/ \E t \in Tasks, b \in BOOLEAN : Wait(c, t, b)
             \/ \E t \in Tasks : Cancel(c, t)
             \/ CallStep(c)
             \/ SpuriousWakeup(c)
      PROVE  Goal
  <2>1. ASSUME NEW t \in Tasks, NEW b \in BOOLEAN, Wait(c, t, b)
        PROVE  Goal
    BY <1>0, <2>1 DEF Wait, FutureTypeOK, futureVars
  <2>2. ASSUME NEW t \in Tasks, Cancel(c, t)
        PROVE  Goal
    BY <1>0, <2>2 DEF Cancel, FutureTypeOK, futureVars
  <2>3. CASE \/ ResumeWait(c) \/ Timeout(c) \/ ReturnFalse(c)
             \/ SpuriousWakeup(c)
    BY <1>0, <2>3 DEF ResumeWait, Timeout, ReturnFalse, SpuriousWakeup,
       FutureTypeOK, futureVars
  <2>4. CASE CancelCheck(c)
    BY <2>4 DEF CancelCheck, futureVars
  <2>5. CASE CancelSet(c)
    BY <1>0, <2>5 DEF CancelSet, FutureTypeOK
  <2> QED BY <1>6, <2>1, <2>2, <2>3, <2>4, <2>5 DEF CallStep
<1> QED BY <1>1, <1>2, <1>3, <1>4, <1>5, <1>6 DEF FutureNext

(* A task whose future is cancelled goes on only to what it has not been   *)
(* called off from.                                                        *)
LEMMA CancelledExecution ==
  ASSUME FutureInv, [FutureNext]_allVars, NEW t \in Tasks, m_is_cancelled[t]
  PROVE  /\ m_is_cancelled'[t]
         /\ rpc'[t] = "delivering" => rpc[t] = "delivering"
         /\ rpc'[t] = "calling" => rpc[t] = "calling"
         /\ rpc'[t] = "computed" => rpc[t] \in {"calling", "computed"}
<1>0. FutureTypeOK
  BY DEF FutureInv
<1>1. m_is_cancelled'[t]
  <2>1. ASSUME NEW c \in Callers, CancelSet(c)
        PROVE  m_is_cancelled'[t]
    BY <1>0, <2>1 DEF CancelSet, FutureTypeOK
  <2> QED BY <2>1, CancelSteps
<1> DEFINE Goal == /\ rpc'[t] = "delivering" => rpc[t] = "delivering"
                   /\ rpc'[t] = "calling" => rpc[t] = "calling"
                   /\ rpc'[t] = "computed" => rpc[t] \in {"calling", "computed"}
<1>2. ASSUME NEW u \in Tasks, StartTask(u) \/ RunStep(u)
      PROVE  Goal
  <2>1. CASE StartTask(u)
    BY <1>0, <2>1 DEF StartTask, FutureTypeOK
  <2>2. CASE BeginExecution(u) \/ EndExecution(u) \/ TaskEnds(u)
    BY <1>0, <2>2 DEF BeginExecution, EndExecution, TaskEnds, FutureTypeOK
  <2>3. CASE CheckCancelled(u) \/ SetValue(u)
    <3>1. CASE u = t
      <4>1. rpc'[t] = "leaving"
        BY <1>0, <2>3, <3>1 DEF CheckCancelled, SetValue, FutureTypeOK
      <4> QED BY <4>1
    <3>2. CASE u # t
      <4>1. rpc'[t] = rpc[t]
        BY <1>0, <2>3, <3>2 DEF CheckCancelled, SetValue, FutureTypeOK
      <4> QED BY <4>1
    <3> QED BY <3>1, <3>2
  <2>4. CASE CallFunction(u)
    BY <1>0, <2>4 DEF CallFunction, FutureTypeOK
  <2>5. CASE Deliver(u)
    BY <1>0, <2>5 DEF Deliver, FutureTypeOK
  <2> QED BY <1>2, <2>1, <2>2, <2>3, <2>4, <2>5 DEF RunStep
<1>3. Goal
  BY <1>2, CancelSteps
<1> QED BY <1>1, <1>3

(* A future that was cancelled before set_value looked never gets its      *)
(* value, and one that was cancelled before the worker looked never has    *)
(* its function called, although cancel() takes no lock.                   *)
THEOREM CancellationTakesEffect == FutureSpec => CancelTakesEffect
<1> DEFINE A == \A t \in Tasks : /\ CalledOff(t) => CalledOff(t)'
                                 /\ NotToBeCalled(t) => NotToBeCalled(t)'
<1>1. FutureInv /\ [FutureNext]_allVars => [A]_allVars
  <2> SUFFICES ASSUME FutureInv, [FutureNext]_allVars, NEW t \in Tasks
               PROVE  /\ CalledOff(t) => CalledOff(t)'
                      /\ NotToBeCalled(t) => NotToBeCalled(t)'
    OBVIOUS
  <2>0. FutureTypeOK
    BY DEF FutureInv
  <2>1. ASSUME CalledOff(t)
        PROVE  CalledOff(t)'
    <3>1. m_is_cancelled'[t] /\ rpc'[t] # "delivering"
      BY <2>1, CancelledExecution DEF CalledOff
    <3>2. ASSUME NEW u \in Tasks, Deliver(u)
          PROVE  ~m_ready'[t]
      <4>1. u # t
        BY <2>1, <3>2 DEF Deliver, CalledOff
      <4> QED BY <2>0, <2>1, <3>2, <4>1 DEF Deliver, CalledOff, FutureTypeOK
    <3>3. ~m_ready'[t]
      BY <2>1, <3>2, CancelSteps DEF CalledOff
    <3> QED BY <3>1, <3>3 DEF CalledOff
  <2>2. ASSUME NotToBeCalled(t)
        PROVE  NotToBeCalled(t)'
    BY <2>2, CancelledExecution DEF NotToBeCalled
  <2> QED BY <2>1, <2>2
<1> QED BY <1>1, FutureInvariance, PTL DEF FutureSpec, CancelTakesEffect

(* A caller whose cancellation is refused finds the task over and its      *)
(* value there, although cancel() looks at two members without a lock.     *)
THEOREM RefusedCancellationIsOver == FutureSpec => RefusedMeansOver
<1> DEFINE A == \A c \in Callers :
                  cpc[c] = "checking" /\ cpc'[c] = "out" =>
                    m_ready[future[c]] /\ rpc[future[c]] = "ended"
<1>1. FutureInv /\ [FutureNext]_allVars => [A]_allVars
  <2> SUFFICES ASSUME FutureInv, [FutureNext]_allVars, NEW c \in Callers,
                      cpc[c] = "checking", cpc'[c] = "out"
               PROVE  m_ready[future[c]] /\ rpc[future[c]] = "ended"
    OBVIOUS
  <2>0. FutureTypeOK /\ ExecutionInv /\ CallsInv
    BY DEF FutureInv
  <2>1. PICK d \in Callers : CancelCheck(d)
    BY CancelSteps
  <2>2. d = c /\ ~m_executing[future[c]]
    BY <2>0, <2>1 DEF CancelCheck, FutureTypeOK
  <2>3. future[c] \in Tasks /\ m_ready[future[c]]
    BY <2>0 DEF CallsInv, FutureTypeOK
  <2> QED BY <2>0, <2>2, <2>3 DEF ExecutionInv
<1> QED BY <1>1, FutureInvariance, PTL DEF FutureSpec, RefusedMeansOver

=============================================================================
