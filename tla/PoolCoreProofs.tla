--------------------------- MODULE PoolCoreProofs ---------------------------
(***************************************************************************)
(* The safety properties of the thread pool, proved for every number of    *)
(* workers, clients and tasks, every policy and every optional behaviour.  *)
(***************************************************************************)
EXTENDS PoolProperties, SequenceLemmas, FiniteSetTheorems

-----------------------------------------------------------------------------
(* What the task containers do to the tasks in them, for every policy, set *)
(* of tasks and content.                                                   *)

(* schedule() adds exactly the new task: the container grows by one, holds *)
(* nothing it did not hold but that task, and holds no task twice if the   *)
(* new one was not in it.                                                  *)
THEOREM PushProperties ==
  ASSUME NEW S, NEW q \in Seq(S), NEW t \in S
  PROVE  /\ push(q, t) \in Seq(S)
         /\ Len(push(q, t)) = Len(q) + 1
         /\ \A j \in 1..Len(q) + 1 :
              push(q, t)[j] = t \/ \E k \in 1..Len(q) : push(q, t)[j] = q[k]
         /\ NoDuplicates(q) /\ (\A k \in 1..Len(q) : q[k] # t)
              => NoDuplicates(push(q, t))
<1>0. Len(q) \in Nat /\ DOMAIN q = 1..Len(q)
  BY LenProperties
<1>1. CASE SchedulingPolicy # "lifo_scheduler"
  <2>1. /\ push(q, t) = Append(q, t)
        /\ Append(q, t) \in Seq(S)
        /\ Len(Append(q, t)) = Len(q) + 1
        /\ \A j \in 1..Len(q) : Append(q, t)[j] = q[j]
        /\ Append(q, t)[Len(q) + 1] = t
    BY <1>1, <1>0, AppendProperties DEF push
  <2>2. DOMAIN push(q, t) = 1..Len(q) + 1
    BY <2>1, LenProperties
  <2> QED BY <1>0, <2>1, <2>2 DEF NoDuplicates
<1>2. CASE SchedulingPolicy = "lifo_scheduler"
  <2>1. <<t>> \in Seq(S) /\ Len(<<t>>) = 1 /\ <<t>>[1] = t
    OBVIOUS
  <2>2. /\ <<t>> \o q \in Seq(S)
        /\ Len(<<t>> \o q) = Len(<<t>>) + Len(q)
        /\ \A j \in 1 .. Len(<<t>>) + Len(q) :
             (<<t>> \o q)[j] =
               IF j <= Len(<<t>>) THEN <<t>>[j] ELSE q[j - Len(<<t>>)]
    BY <2>1, ConcatProperties
  <2>3. /\ push(q, t) \in Seq(S)
        /\ Len(push(q, t)) = Len(q) + 1
        /\ push(q, t)[1] = t
        /\ \A j \in 2..Len(q) + 1 : push(q, t)[j] = q[j - 1]
    BY <1>0, <1>2, <2>1, <2>2 DEF push
  <2>4. DOMAIN push(q, t) = 1..Len(q) + 1
    BY <2>3, LenProperties
  <2> DEFINE p == push(q, t)
  <2> HIDE DEF p
  <2>5. \A j \in 1..Len(q) + 1 :
          \/ j = 1 /\ p[j] = t
          \/ j - 1 \in 1..Len(q) /\ p[j] = q[j - 1]
    BY <1>0, <2>3 DEF p
  <2>6. NoDuplicates(q) /\ (\A k \in 1..Len(q) : q[k] # t) => NoDuplicates(p)
    <3> SUFFICES ASSUME NoDuplicates(q), \A k \in 1..Len(q) : q[k] # t,
                        NEW j \in 1..Len(q) + 1, NEW k \in 1..Len(q) + 1,
                        p[j] = p[k]
                 PROVE  j = k
      BY <2>4 DEF NoDuplicates, p
    <3>1. j # 1 /\ k # 1 => j - 1 = k - 1
      BY <1>0, <2>5 DEF NoDuplicates
    <3> QED BY <1>0, <2>5, <3>1
  <2> QED BY <1>0, <2>3, <2>5, <2>6 DEF p
<1> QED BY <1>1, <1>2

(* Fetching a task takes that task and no other out of the container: its  *)
(* position is one of the container's, the container shrinks by one, what  *)
(* remains was at another position, and no task is in it twice.            *)
THEOREM PopProperties ==
  ASSUME NEW S, NEW q \in Seq(S), NEW i \in TopPositions(q)
  PROVE  /\ i \in 1..Len(q)
         /\ top(q, i) \in S
         /\ pop(q, i) \in Seq(S)
         /\ Len(pop(q, i)) = Len(q) - 1
         /\ \A j \in 1..Len(q) - 1 :
              \E k \in 1..Len(q) : k # i /\ pop(q, i)[j] = q[k]
         /\ NoDuplicates(q) => NoDuplicates(pop(q, i))
<1>0. Len(q) \in Nat /\ DOMAIN q = 1..Len(q) /\ i \in 1..Len(q)
  BY LenProperties DEF TopPositions
<1>1. /\ pop(q, i) \in Seq(S)
      /\ Len(pop(q, i)) = Len(q) - 1
      /\ \A j \in 1..Len(q) - 1 :
           pop(q, i)[j] = q[IF j < i THEN j ELSE j + 1]
  BY <1>0, RemoveAtProperties DEF pop
<1>2. DOMAIN pop(q, i) = 1..Len(q) - 1
  BY <1>1, LenProperties
<1>3. top(q, i) \in S
  BY <1>0, ElementOfSeq DEF top
<1>4. \A j \in 1..Len(q) - 1 :
        \E k \in 1..Len(q) : k # i /\ pop(q, i)[j] = q[k]
  <2> TAKE j \in 1..Len(q) - 1
  <2> DEFINE k == IF j < i THEN j ELSE j + 1
  <2>1. k \in 1..Len(q) /\ k # i
    BY <1>0
  <2> QED BY <2>1, <1>1
<1>5. NoDuplicates(q) => NoDuplicates(pop(q, i))
  <2> SUFFICES ASSUME NoDuplicates(q),
                      NEW j \in 1..Len(q) - 1, NEW k \in 1..Len(q) - 1,
                      pop(q, i)[j] = pop(q, i)[k]
               PROVE  j = k
    BY <1>2 DEF NoDuplicates
  <2> DEFINE at(n) == IF n < i THEN n ELSE n + 1
  <2>1. at(j) \in 1..Len(q) /\ at(k) \in 1..Len(q) /\ q[at(j)] = q[at(k)]
    BY <1>0, <1>1
  <2>2. at(j) = at(k)
    BY <1>0, <2>1 DEF NoDuplicates
  <2> QED BY <2>2, <1>0
<1> QED BY <1>0, <1>1, <1>3, <1>4, <1>5

-----------------------------------------------------------------------------
(* How a step changes the number of workers in a set of states.            *)

PcStates == ActiveStates \cup AsleepStates \cup GoneStates

(* The workers that f puts in one of the states.                           *)
InOf(f, states) == {w \in Workers : f[w] \in states}

(* What one worker in state s adds to that number.                         *)
Ind(s, states) == IF s \in states THEN 1 ELSE 0

LEMMA InOfFinite ==
  ASSUME NEW f, NEW states
  PROVE  IsFiniteSet(InOf(f, states)) /\ Cardinality(InOf(f, states)) \in Nat
BY PoolAssumption, FS_Subset, FS_CardinalityType DEF PoolAssumption, InOf

(* One worker moves.                                                       *)
LEMMA OneMoves ==
  ASSUME NEW f \in [Workers -> PcStates], NEW g, NEW w \in Workers,
         NEW s \in PcStates, NEW states,
         g[w] = s, \A v \in Workers \ {w} : g[v] = f[v]
  PROVE  Cardinality(InOf(g, states)) =
           Cardinality(InOf(f, states)) + Ind(s, states) - Ind(f[w], states)
<1>0. IsFiniteSet(InOf(f, states)) /\ Cardinality(InOf(f, states)) \in Nat
  BY InOfFinite
<1>1. CASE f[w] \in states <=> s \in states
  <2>1. InOf(g, states) = InOf(f, states)
    BY <1>1 DEF InOf
  <2> QED BY <1>0, <1>1, <2>1 DEF Ind
<1>2. CASE f[w] \in states /\ s \notin states
  <2>1. InOf(g, states) = InOf(f, states) \ {w} /\ w \in InOf(f, states)
    BY <1>2 DEF InOf
  <2>2. Cardinality(InOf(f, states) \ {w}) = Cardinality(InOf(f, states)) - 1
    BY <1>0, <2>1, FS_RemoveElement
  <2>3. Cardinality(InOf(g, states)) = Cardinality(InOf(f, states)) - 1
    BY <2>1, <2>2, Zenon
  <2> QED BY <1>0, <1>2, <2>3 DEF Ind
<1>3. CASE f[w] \notin states /\ s \in states
  <2>1. InOf(g, states) = InOf(f, states) \cup {w} /\ w \notin InOf(f, states)
    BY <1>3 DEF InOf
  <2>2. Cardinality(InOf(f, states) \cup {w}) =
          Cardinality(InOf(f, states)) + 1
    BY <1>0, <2>1, FS_AddElement
  <2>3. Cardinality(InOf(g, states)) = Cardinality(InOf(f, states)) + 1
    BY <2>1, <2>2, Zenon
  <2> QED BY <1>0, <1>3, <2>3 DEF Ind
<1> QED BY <1>1, <1>2, <1>3

(* Several workers move from one state to another.                         *)
LEMMA SomeMove ==
  ASSUME NEW f \in [Workers -> PcStates], NEW g, NEW S \in SUBSET Workers,
         NEW s \in PcStates, NEW states,
         g = [w \in Workers |-> IF w \in S THEN s ELSE f[w]]
  PROVE  /\ g \in [Workers -> PcStates]
         /\ (\A w \in S : f[w] \in states <=> s \in states) =>
              InOf(g, states) = InOf(f, states)
         /\ (\A w \in S : f[w] \notin states) /\ s \in states =>
              Cardinality(InOf(g, states)) =
                Cardinality(InOf(f, states)) + Cardinality(S)
<1>1. g \in [Workers -> PcStates]
  OBVIOUS
<1>2. (\A w \in S : f[w] \in states <=> s \in states) =>
        InOf(g, states) = InOf(f, states)
  BY DEF InOf
<1>3. ASSUME \A w \in S : f[w] \notin states, s \in states
      PROVE  Cardinality(InOf(g, states)) =
               Cardinality(InOf(f, states)) + Cardinality(S)
  <2>1. InOf(g, states) = InOf(f, states) \cup S
    BY <1>3 DEF InOf
  <2>2. InOf(f, states) \cap S = {}
    BY <1>3 DEF InOf
  <2>3. IsFiniteSet(S)
    BY PoolAssumption, FS_Subset DEF PoolAssumption
  <2>4. /\ Cardinality(S) \in Nat
        /\ IsFiniteSet(InOf(f, states))
        /\ Cardinality(InOf(f, states)) \in Nat
    BY <2>3, InOfFinite, FS_CardinalityType
  <2>5. Cardinality(InOf(f, states) \cup S) =
          Cardinality(InOf(f, states)) + Cardinality(S)
            - Cardinality(InOf(f, states) \cap S)
    BY <2>3, <2>4, FS_Union
  <2>6. Cardinality(InOf(f, states) \cap S) = 0
    BY <2>2, FS_EmptySet
  <2> QED BY <2>1, <2>4, <2>5, <2>6
<1> QED BY <1>1, <1>2, <1>3

-----------------------------------------------------------------------------
(* The numbers that the invariant is about.                                *)

ReadyStates == {"fetching", "woken"}

Live    == Cardinality(InOf(wpc, LiveStates))
Active  == Cardinality(InOf(wpc, ActiveStates))
ReadyNo == Cardinality(InOf(wpc, ReadyStates))
NoneAsleep == \A w \in Workers : wpc[w] # "asleep"

(* What holds of the pool in every state.  CountersExact makes each count  *)
(* positive when it is decremented; ShrinkReachesSleepers is needed for    *)
(* NoLostTaskWakeup, because an awake worker leaves with tasks pending     *)
(* when there are too many workers.                                        *)
IInv ==
  /\ TypeOK
  /\ CountersExact
  /\ ShrinkReachesSleepers
  /\ NoLostTaskWakeup
  /\ m_terminate_all_workers => m_target_worker_count = 0
  /\ \A w \in Workers : wpc[w] = "executing" <=> task[w] # NoTask

(* The part of it about the monitor's counters and conditions, which a     *)
(* step of any thread may disturb.                                         *)
PoolInv ==
  /\ m_worker_count \in Nat
  /\ m_target_worker_count \in Nat
  /\ m_active_worker_count \in Nat
  /\ m_scheduler \in Seq(Tasks)
  /\ m_terminate_all_workers \in BOOLEAN
  /\ m_terminated_workers \in SUBSET Workers
  /\ wpc \in [Workers -> PcStates]
  /\ m_worker_count = Live
  /\ m_active_worker_count = Active
  /\ TooManyWorkers => NoneAsleep
  /\ NoneAsleep \/ Len(m_scheduler) <= ReadyNo
  /\ m_terminate_all_workers => m_target_worker_count = 0

TaskInv ==
  /\ task \in [Workers -> Tasks \cup {NoTask}]
  /\ done \in SUBSET Tasks
  /\ dropped \in SUBSET Tasks
  /\ \A w \in Workers : wpc[w] = "executing" <=> task[w] # NoTask

ControlInv ==
  /\ cpc \in [Clients -> {"out", "asleep", "woken", "timed_out"}]
  /\ threshold \in [Clients -> Nat]
  /\ timed \in [Clients -> BOOLEAN]
  /\ shutdown \in {"constructing", "open", "clear", "wait", "wait_asleep",
                   "wait_woken", "terminate", "term_asleep", "term_woken",
                   "joining", "done"}
  /\ shutter \in Workers \cup {Owner}

LEMMA IInvParts == IInv <=> PoolInv /\ TaskInv /\ ControlInv
<1>1. /\ In(LiveStates) = InOf(wpc, LiveStates)
      /\ In(ActiveStates) = InOf(wpc, ActiveStates)
      /\ Ready = InOf(wpc, ReadyStates)
      /\ In({"asleep"}) = {} <=> NoneAsleep
  BY DEF In, InOf, Ready, ReadyStates, NoneAsleep
<1> QED
  BY <1>1 DEF IInv, PoolInv, TaskInv, ControlInv, TypeOK, CountersExact,
     ShrinkReachesSleepers, NoLostTaskWakeup, Live, Active, ReadyNo, PcStates

(* The numbers after one worker moved to state s.                          *)
Moved(w, s) ==
  /\ wpc' \in [Workers -> PcStates]
  /\ wpc'[w] = s
  /\ \A v \in Workers \ {w} : wpc'[v] = wpc[v]

LEMMA CountOneMoves ==
  ASSUME wpc \in [Workers -> PcStates], NEW w \in Workers,
         NEW s \in PcStates, Moved(w, s)
  PROVE  /\ Live \in Nat /\ Active \in Nat /\ ReadyNo \in Nat
         /\ Live' = Live + Ind(s, LiveStates) - Ind(wpc[w], LiveStates)
         /\ Active' = Active + Ind(s, ActiveStates) - Ind(wpc[w], ActiveStates)
         /\ ReadyNo' = ReadyNo + Ind(s, ReadyStates) - Ind(wpc[w], ReadyStates)
         /\ s # "asleep" /\ NoneAsleep => NoneAsleep'
<1>1. Live \in Nat /\ Active \in Nat /\ ReadyNo \in Nat
  BY InOfFinite DEF Live, Active, ReadyNo
<1>2. ASSUME NEW CONSTANT states
      PROVE  Cardinality(InOf(wpc', states)) =
               Cardinality(InOf(wpc, states))
                 + Ind(s, states) - Ind(wpc[w], states)
  BY OneMoves DEF Moved
<1>4. s # "asleep" /\ NoneAsleep => NoneAsleep'
  BY DEF NoneAsleep, Moved
<1> QED BY <1>1, <1>2, <1>4 DEF Live, Active, ReadyNo

(* What a worker in each state adds to each number.                         *)
LEMMA IndValues ==
  /\ "fetching" \in PcStates /\ Ind("fetching", LiveStates) = 1
     /\ Ind("fetching", ActiveStates) = 1 /\ Ind("fetching", ReadyStates) = 1
  /\ "executing" \in PcStates /\ Ind("executing", LiveStates) = 1
     /\ Ind("executing", ActiveStates) = 1 /\ Ind("executing", ReadyStates) = 0
  /\ "leaving" \in PcStates /\ Ind("leaving", LiveStates) = 1
     /\ Ind("leaving", ActiveStates) = 1 /\ Ind("leaving", ReadyStates) = 0
  /\ "dying" \in PcStates /\ Ind("dying", LiveStates) = 1
     /\ Ind("dying", ActiveStates) = 1 /\ Ind("dying", ReadyStates) = 0
  /\ "asleep" \in PcStates /\ Ind("asleep", LiveStates) = 1
     /\ Ind("asleep", ActiveStates) = 0 /\ Ind("asleep", ReadyStates) = 0
  /\ "woken" \in PcStates /\ Ind("woken", LiveStates) = 1
     /\ Ind("woken", ActiveStates) = 0 /\ Ind("woken", ReadyStates) = 1
  /\ "none" \in PcStates /\ Ind("none", LiveStates) = 0
     /\ Ind("none", ActiveStates) = 0 /\ Ind("none", ReadyStates) = 0
  /\ "finishing" \in PcStates /\ Ind("finishing", LiveStates) = 0
     /\ Ind("finishing", ActiveStates) = 0 /\ Ind("finishing", ReadyStates) = 0
  /\ "exited" \in PcStates /\ Ind("exited", LiveStates) = 0
     /\ Ind("exited", ActiveStates) = 0 /\ Ind("exited", ReadyStates) = 0
BY DEF Ind, PcStates, LiveStates, ActiveStates, AsleepStates, GoneStates,
       ReadyStates

(* The numbers after notify_all on m_task_or_terminate_workers_event.      *)
LEMMA CountNotifyAll ==
  ASSUME wpc \in [Workers -> PcStates], NotifyAllWorkers
  PROVE  /\ wpc' \in [Workers -> PcStates]
         /\ Live' = Live /\ Active' = Active
         /\ NoneAsleep'
         /\ \A w \in Workers :
              /\ wpc[w] # "asleep" => wpc'[w] = wpc[w]
              /\ wpc[w] = "asleep" => wpc'[w] = "woken"
<1> DEFINE S == {w \in Workers : wpc[w] = "asleep"}
<1>1. wpc' = [w \in Workers |-> IF w \in S THEN "woken" ELSE wpc[w]]
  BY DEF NotifyAllWorkers
<1>2. "woken" \in PcStates /\ S \in SUBSET Workers
  BY DEF PcStates, AsleepStates
<1>3. /\ \A w \in S : wpc[w] \in LiveStates <=> "woken" \in LiveStates
      /\ \A w \in S : wpc[w] \in ActiveStates <=> "woken" \in ActiveStates
  BY DEF LiveStates, ActiveStates, AsleepStates
<1>4. /\ wpc' \in [Workers -> PcStates]
      /\ InOf(wpc', LiveStates) = InOf(wpc, LiveStates)
      /\ InOf(wpc', ActiveStates) = InOf(wpc, ActiveStates)
  BY <1>1, <1>3 DEF InOf, PcStates, AsleepStates
<1>5. NoneAsleep'
  BY <1>1 DEF NoneAsleep
<1>6. \A w \in Workers : /\ wpc[w] # "asleep" => wpc'[w] = wpc[w]
                         /\ wpc[w] = "asleep" => wpc'[w] = "woken"
  BY <1>1
<1> QED BY <1>4, <1>5, <1>6 DEF Live, Active

(* The numbers after resize created the workers in S.                      *)
LEMMA CountCreate ==
  ASSUME wpc \in [Workers -> PcStates], NEW S \in SUBSET In({"none"}),
         wpc' = [w \in Workers |-> IF w \in S THEN "fetching" ELSE wpc[w]]
  PROVE  /\ wpc' \in [Workers -> PcStates]
         /\ Cardinality(S) \in Nat
         /\ Live \in Nat /\ Active \in Nat /\ ReadyNo \in Nat
         /\ Live' = Live + Cardinality(S)
         /\ Active' = Active + Cardinality(S)
         /\ ReadyNo' = ReadyNo + Cardinality(S)
         /\ NoneAsleep <=> NoneAsleep'
         /\ \A w \in Workers : wpc[w] # "none" => wpc'[w] = wpc[w]
         /\ \A w \in Workers : wpc[w] = "none" => wpc'[w] # "executing"
<1>1. S \in SUBSET Workers /\ \A w \in S : wpc[w] = "none"
  BY DEF In
<1>2. "fetching" \in PcStates
  BY DEF PcStates, ActiveStates
<1>3. Cardinality(S) \in Nat
  BY <1>1, PoolAssumption, FS_Subset, FS_CardinalityType DEF PoolAssumption
<1>4. /\ \A w \in S : /\ wpc[w] \notin LiveStates
                      /\ wpc[w] \notin ActiveStates
                      /\ wpc[w] \notin ReadyStates
      /\ "fetching" \in LiveStates
      /\ "fetching" \in ActiveStates
      /\ "fetching" \in ReadyStates
  BY <1>1 DEF LiveStates, ActiveStates, AsleepStates, ReadyStates
<1>5. /\ wpc' \in [Workers -> PcStates]
      /\ Live' = Live + Cardinality(S)
      /\ Active' = Active + Cardinality(S)
      /\ ReadyNo' = ReadyNo + Cardinality(S)
  BY <1>1, <1>2, <1>4, SomeMove DEF Live, Active, ReadyNo
<1>6. Live \in Nat /\ Active \in Nat /\ ReadyNo \in Nat
  BY InOfFinite DEF Live, Active, ReadyNo
<1>7. NoneAsleep <=> NoneAsleep'
  BY <1>1 DEF NoneAsleep
<1> QED BY <1>1, <1>3, <1>5, <1>6, <1>7

-----------------------------------------------------------------------------
(* The parts of IInv under the steps that more than one action takes.      *)

LEMMA PoolInvUnchanged ==
  ASSUME PoolInv, UNCHANGED <<poolVars, wpc, m_scheduler>>
  PROVE  PoolInv'
BY DEF PoolInv, poolVars, Live, Active, ReadyNo, NoneAsleep, TooManyWorkers

(* resize: whether the pool grows or shrinks, the workers that stay know.  *)
LEMMA ResizePoolInv ==
  ASSUME PoolInv, NEW size \in Nat, Resize(size), UNCHANGED m_scheduler
  PROVE  /\ PoolInv'
         /\ \A w \in Workers : wpc[w] = "executing" <=> wpc'[w] = "executing"
<1>1. CASE m_worker_count > size
  <2>1. NotifyAllWorkers /\ UNCHANGED <<m_worker_count, m_active_worker_count>>
    BY <1>1 DEF Resize, PoolInv
  <2>2. /\ wpc' \in [Workers -> PcStates]
        /\ Live' = Live /\ Active' = Active /\ NoneAsleep'
        /\ \A w \in Workers :
             wpc[w] = "executing" <=> wpc'[w] = "executing"
    BY <2>1, CountNotifyAll DEF PoolInv
  <2> QED BY <2>1, <2>2 DEF Resize, PoolInv
<1>2. CASE m_worker_count <= size
  <2>1. PICK S \in CreatedWorkers(size - m_worker_count) :
          /\ wpc' = [w \in Workers |-> IF w \in S THEN "fetching" ELSE wpc[w]]
          /\ m_worker_count' = m_worker_count + Cardinality(S)
          /\ m_active_worker_count' = m_active_worker_count + Cardinality(S)
    BY <1>2 DEF Resize, PoolInv
  <2>2. /\ S \in SUBSET In({"none"})
        /\ \/ Cardinality(S) = size - m_worker_count
           \/ Cardinality(S) < size - m_worker_count
    BY DEF CreatedWorkers
  <2>3. /\ wpc' \in [Workers -> PcStates]
        /\ Cardinality(S) \in Nat
        /\ Live \in Nat /\ Active \in Nat /\ ReadyNo \in Nat
        /\ Live' = Live + Cardinality(S)
        /\ Active' = Active + Cardinality(S)
        /\ ReadyNo' = ReadyNo + Cardinality(S)
        /\ NoneAsleep <=> NoneAsleep'
        /\ \A w \in Workers : wpc[w] # "none" => wpc'[w] = wpc[w]
        /\ \A w \in Workers : wpc[w] = "none" => wpc'[w] # "executing"
    BY <2>1, <2>2, CountCreate DEF PoolInv
  <2>4. m_worker_count' <= m_target_worker_count'
    BY <1>2, <2>1, <2>2, <2>3 DEF Resize, PoolInv
  <2>5. NoneAsleep' \/ Len(m_scheduler)' <= ReadyNo'
    BY <2>3, EmptySeq, LenProperties DEF PoolInv
  <2>6. ~TooManyWorkers'
    BY <2>1, <2>3, <2>4 DEF TooManyWorkers, PoolInv, Resize
  <2>7. /\ m_target_worker_count' \in Nat
        /\ m_scheduler' \in Seq(Tasks)
        /\ m_terminate_all_workers' \in BOOLEAN
        /\ m_terminated_workers' \in SUBSET Workers
        /\ m_terminate_all_workers' => m_target_worker_count' = 0
    BY DEF Resize, PoolInv
  <2>8. /\ m_worker_count' = Live' /\ m_active_worker_count' = Active'
        /\ m_worker_count' \in Nat /\ m_active_worker_count' \in Nat
    BY <2>1, <2>3 DEF PoolInv
  <2>9. \A w \in Workers : wpc[w] = "executing" <=> wpc'[w] = "executing"
    BY <2>3
  <2> QED BY <2>3, <2>5, <2>6, <2>7, <2>8, <2>9 DEF PoolInv
<1> QED BY <1>1, <1>2 DEF PoolInv

(* schedule: one more task pending, and one sleeping worker notified.      *)
LEMMA NotifyOnePoolInv ==
  ASSUME PoolInv, NotifyOneWorker, UNCHANGED poolVars,
         m_scheduler' \in Seq(Tasks), Len(m_scheduler') = Len(m_scheduler) + 1
  PROVE  /\ PoolInv'
         /\ \A w \in Workers : wpc[w] = "executing" <=> wpc'[w] = "executing"
<1>0. Len(m_scheduler) \in Nat
  BY LenProperties DEF PoolInv
<1>1. CASE In({"asleep"}) = {}
  <2>1. NoneAsleep /\ UNCHANGED wpc
    BY <1>1 DEF NotifyOneWorker, In, NoneAsleep
  <2> QED BY <2>1 DEF PoolInv, poolVars, Live, Active, ReadyNo, NoneAsleep,
             TooManyWorkers
<1>2. CASE In({"asleep"}) # {}
  <2>1. PICK w \in Workers : /\ wpc[w] = "asleep"
                             /\ wpc' = [wpc EXCEPT ![w] = "woken"]
    BY <1>2 DEF NotifyOneWorker, In
  <2>2. Moved(w, "woken") /\ "woken" \in PcStates
    BY <2>1 DEF Moved, PoolInv, PcStates, AsleepStates
  <2>3. /\ Live' = Live /\ Active' = Active
        /\ ReadyNo' = ReadyNo + 1 /\ ReadyNo \in Nat
        /\ NoneAsleep => NoneAsleep'
    BY <2>1, <2>2, CountOneMoves, IndValues DEF PoolInv
  <2>4. ~NoneAsleep
    BY <2>1 DEF NoneAsleep
  <2> QED BY <1>0, <2>1, <2>2, <2>3, <2>4
          DEF PoolInv, poolVars, TooManyWorkers, Moved
<1> QED BY <1>1, <1>2

(* execute_task, whose worker was counted as active (fetching) or is       *)
(* counted again as it wakes (woken), leaves the loop, waits or takes.     *)
Fetches(w, active) ==
  \/ wpc[w] = "fetching" /\ active = m_active_worker_count
  \/ wpc[w] = "woken" /\ active = m_active_worker_count + 1

LEMMA LeavePoolInv ==
  ASSUME PoolInv, NEW w \in Workers, NEW active, Fetches(w, active),
         TooManyWorkers, Leave(w, active), UnchangedByExecuteTask
  PROVE  PoolInv'
<1>1. Moved(w, "leaving") /\ "leaving" \in PcStates
  BY IndValues DEF Leave, Moved, PoolInv
<1>2. /\ Live' = Live
      /\ Active' = active
      /\ NoneAsleep => NoneAsleep'
  BY <1>1, CountOneMoves, IndValues DEF PoolInv, Fetches
<1> QED
  BY <1>1, <1>2, InOfFinite DEF PoolInv, Leave, UnchangedByExecuteTask,
     taskVars, Moved, TooManyWorkers, Active

LEMMA SleepPoolInv ==
  ASSUME PoolInv, NEW w \in Workers, NEW active, Fetches(w, active),
         ~TooManyWorkers, m_scheduler = <<>>, Sleep(w, active),
         UnchangedByExecuteTask
  PROVE  PoolInv'
<1>1. Moved(w, "asleep") /\ "asleep" \in PcStates
  BY IndValues DEF Sleep, Moved, PoolInv
<1>2. Live' = Live /\ Active' = active - 1
  BY <1>1, CountOneMoves, IndValues DEF PoolInv, Fetches
<1>3. Len(m_scheduler') <= ReadyNo'
  <2>1. Len(m_scheduler') = 0
    BY EmptySeq DEF Sleep, taskVars
  <2>2. ReadyNo' \in Nat
    BY InOfFinite DEF ReadyNo
  <2> QED BY <2>1, <2>2
<1> QED
  BY <1>1, <1>2, <1>3, InOfFinite DEF PoolInv, Sleep, UnchangedByExecuteTask,
     taskVars, Moved, TooManyWorkers, Active

LEMMA TakePoolInv ==
  ASSUME PoolInv, NEW w \in Workers, NEW active, Fetches(w, active),
         Take(w, active), UnchangedByExecuteTask
  PROVE  PoolInv'
<1>1. Moved(w, "executing") /\ "executing" \in PcStates
  BY IndValues DEF Take, Moved, PoolInv
<1>2. /\ Live' = Live
      /\ Active' = active
      /\ ReadyNo' = ReadyNo - 1 /\ ReadyNo \in Nat
      /\ NoneAsleep => NoneAsleep'
  BY <1>1, CountOneMoves, IndValues DEF PoolInv, Fetches
<1>3. /\ m_scheduler' \in Seq(Tasks)
      /\ Len(m_scheduler') = Len(m_scheduler) - 1
      /\ Len(m_scheduler) \in Nat
  BY PopProperties, LenProperties DEF Take, PoolInv
<1> QED
  BY <1>1, <1>2, <1>3, InOfFinite DEF PoolInv, Take, UnchangedByExecuteTask,
     Moved, TooManyWorkers, Active

LEMMA WaitForTaskPoolInv ==
  ASSUME PoolInv, NEW w \in Workers, NEW active, Fetches(w, active),
         WaitForTask(w, active), UnchangedByExecuteTask
  PROVE  PoolInv'
BY LeavePoolInv, SleepPoolInv, TakePoolInv DEF WaitForTask

(* A worker leaves the pool: worker_destructed, worker_died_unexpectedly.  *)
LEMMA RetirePoolInv ==
  ASSUME PoolInv, NEW w \in Workers, wpc[w] \in {"leaving", "dying"},
         Retire(w), UNCHANGED m_scheduler
  PROVE  PoolInv'
<1> DEFINE s == IF m_terminate_all_workers THEN "finishing" ELSE "none"
<1>1. Moved(w, s) /\ s \in {"finishing", "none"} /\ s \in PcStates
  BY IndValues DEF Retire, Moved, PoolInv
<1> HIDE DEF s
<1>2. /\ Live' = Live - 1
      /\ Active' = Active - 1
      /\ ReadyNo' = ReadyNo
      /\ NoneAsleep => NoneAsleep'
  BY <1>1, CountOneMoves, IndValues DEF PoolInv
<1>3. Live' \in Nat /\ Active' \in Nat
  BY InOfFinite DEF Live, Active
<1> QED
  BY <1>1, <1>2, <1>3 DEF PoolInv, Retire, Moved, TooManyWorkers

(* A worker whose task threw is replaced, or cannot be.                    *)
LEMMA ReplacePoolInv ==
  ASSUME PoolInv, NEW w \in Workers, wpc[w] = "dying", Replace(w),
         ~m_terminate_all_workers, UNCHANGED m_scheduler
  PROVE  PoolInv'
<1>1. CASE wpc' = [wpc EXCEPT ![w] = "fetching"] /\ m_worker_count' = m_worker_count
                 /\ m_active_worker_count' = m_active_worker_count
  <2>1. Moved(w, "fetching") /\ "fetching" \in PcStates
    BY <1>1, IndValues DEF Moved, PoolInv
  <2>2. /\ Live' = Live /\ Active' = Active
        /\ ReadyNo' = ReadyNo + 1 /\ ReadyNo \in Nat
        /\ NoneAsleep => NoneAsleep'
    BY <2>1, CountOneMoves, IndValues DEF PoolInv
  <2> QED
    BY <1>1, <2>1, <2>2, LenProperties DEF PoolInv, Replace, Moved,
       TooManyWorkers
<1>2. CASE wpc' = [wpc EXCEPT ![w] = "none"] /\ m_worker_count' = m_worker_count - 1
                 /\ m_active_worker_count' = m_active_worker_count - 1
  <2>1. Moved(w, "none") /\ "none" \in PcStates
    BY <1>2, IndValues DEF Moved, PoolInv
  <2>2. /\ Live' = Live - 1 /\ Active' = Active - 1
        /\ ReadyNo' = ReadyNo
        /\ NoneAsleep => NoneAsleep'
    BY <2>1, CountOneMoves, IndValues DEF PoolInv
  <2>3. Live' \in Nat /\ Active' \in Nat
    BY InOfFinite DEF Live, Active
  <2> QED
    BY <1>2, <2>1, <2>2, <2>3 DEF PoolInv, Replace, Moved, TooManyWorkers
<1> QED BY <1>1, <1>2 DEF Replace

(* The steps of one worker that change nothing of the pool but its state.  *)
LEMMA WorkerMovesPoolInv ==
  ASSUME PoolInv, NEW w \in Workers, NEW s \in PcStates,
         wpc' = [wpc EXCEPT ![w] = s],
         \/ wpc[w] = "executing" /\ s \in {"fetching", "dying"}
         \/ wpc[w] = "finishing" /\ s = "exited"
         \/ wpc[w] = "asleep" /\ s = "woken",
         UNCHANGED <<poolVars, m_scheduler>>
  PROVE  PoolInv'
<1>1. Moved(w, s)
  BY DEF Moved, PoolInv
<1>2. /\ Live' = Live /\ Active' = Active
      /\ ReadyNo' >= ReadyNo /\ ReadyNo \in Nat /\ ReadyNo' \in Nat
      /\ NoneAsleep => NoneAsleep'
  BY <1>1, CountOneMoves, IndValues DEF PoolInv
<1> QED
  BY <1>1, <1>2, LenProperties DEF PoolInv, poolVars, Moved, TooManyWorkers

LEMMA TaskInvUnchanged ==
  ASSUME TaskInv, UNCHANGED <<task, done, dropped>>,
         \A w \in Workers : wpc[w] = "executing" <=> wpc'[w] = "executing"
  PROVE  TaskInv'
BY DEF TaskInv

LEMMA ControlInvUnchanged ==
  ASSUME ControlInv, UNCHANGED <<cpc, waitVars, shutdown, shutter>>
  PROVE  ControlInv'
BY DEF ControlInv, waitVars

LEMMA NotifyIdleControlInv ==
  ASSUME ControlInv, NotifyIdle, UNCHANGED <<waitVars, shutter>>
  PROVE  ControlInv'
BY DEF ControlInv, NotifyIdle, waitVars

-----------------------------------------------------------------------------
(* IInv is inductive.                                                      *)

LEMMA InitIInv == Init => IInv
<1> SUFFICES ASSUME Init PROVE PoolInv /\ TaskInv /\ ControlInv
  BY IInvParts
<1>1. \A w \in Workers : wpc[w] = "none"
  BY DEF Init
<1>2. InOf(wpc, LiveStates) = {} /\ InOf(wpc, ActiveStates) = {} /\ NoneAsleep
  BY <1>1 DEF InOf, LiveStates, ActiveStates, AsleepStates, NoneAsleep
<1>3. Live = 0 /\ Active = 0
  BY <1>2, FS_EmptySet DEF Live, Active
<1>4. wpc \in [Workers -> PcStates]
  BY IndValues DEF Init
<1>5. PoolInv
  BY <1>2, <1>3, <1>4, EmptySeq DEF Init, PoolInv, TooManyWorkers
<1>6. TaskInv
  BY <1>1 DEF Init, TaskInv
<1>7. ControlInv
  BY DEF Init, ControlInv
<1> QED BY <1>5, <1>6, <1>7

LEMMA ResizeTaskInv ==
  ASSUME PoolInv, TaskInv, NEW size \in Nat, Resize(size), UNCHANGED taskVars
  PROVE  TaskInv'
BY ResizePoolInv, TaskInvUnchanged DEF taskVars

(* Callers: thread_pool and resize_controller members.                     *)
LEMMA CallerIInv ==
  ASSUME IInv, Construct \/ CallerStep
  PROVE  IInv'
<1> SUFFICES PoolInv' /\ TaskInv' /\ ControlInv'
  BY IInvParts, PTL
<1>0. PoolInv /\ TaskInv /\ ControlInv
  BY IInvParts
<1>1. CASE Construct
  <2>1. InitialThreads \in Nat /\ UNCHANGED m_scheduler
    BY <1>1, PoolAssumption DEF PoolAssumption, Construct, taskVars
  <2>2. ControlInv'
    BY <1>0, <1>1 DEF Construct, ControlInv, waitVars
  <2> QED
    BY <1>0, <1>1, <2>1, <2>2, ResizePoolInv, ResizeTaskInv DEF Construct
<1>2. ASSUME NEW size \in Sizes, ControllerResize(size)
      PROVE  PoolInv' /\ TaskInv' /\ ControlInv'
  <2>1. size \in Nat /\ UNCHANGED m_scheduler
    BY <1>2, PoolAssumption DEF PoolAssumption, ControllerResize, taskVars
  <2>2. ControlInv'
    BY <1>0, <1>2, ControlInvUnchanged DEF ControllerResize
  <2>3. CASE Resize(size)
    BY <1>0, <1>2, <2>1, <2>2, <2>3, ResizePoolInv, ResizeTaskInv
       DEF ControllerResize
  <2>4. CASE UNCHANGED <<poolVars, wpc>>
    BY <1>0, <1>2, <2>1, <2>2, <2>4, PoolInvUnchanged, TaskInvUnchanged
       DEF ControllerResize, taskVars
  <2> QED BY <1>2, <2>3, <2>4 DEF ControllerResize
<1>3. ASSUME NEW t \in Tasks, Schedule(t)
      PROVE  PoolInv' /\ TaskInv' /\ ControlInv'
  <2>1. m_scheduler' \in Seq(Tasks) /\ Len(m_scheduler') = Len(m_scheduler) + 1
    BY <1>0, <1>3, PushProperties DEF Schedule, PoolInv
  <2>2. /\ PoolInv'
        /\ \A w \in Workers : wpc[w] = "executing" <=> wpc'[w] = "executing"
    BY <1>0, <1>3, <2>1, NotifyOnePoolInv DEF Schedule
  <2> QED
    BY <1>0, <1>3, <2>2, TaskInvUnchanged, ControlInvUnchanged DEF Schedule
<1>4. CASE Clear
  <2>1. m_scheduler' \in Seq(Tasks) /\ Len(m_scheduler') = 0
    BY <1>4, EmptySeq DEF Clear, ClearScheduler
  <2>2. ReadyNo \in Nat
    BY InOfFinite DEF ReadyNo
  <2>3. PoolInv'
    BY <1>0, <1>4, <2>1, <2>2 DEF Clear, PoolInv, poolVars, Live, Active,
       ReadyNo, NoneAsleep, TooManyWorkers
  <2>4. ToSet(m_scheduler) \subseteq Tasks
    BY <1>0, LenProperties, ElementOfSeq DEF PoolInv, ToSet
  <2>5. TaskInv'
    BY <1>0, <1>4, <2>4 DEF TaskInv, Clear, ClearScheduler
  <2> QED BY <1>0, <1>4, <2>3, <2>5, ControlInvUnchanged DEF Clear
<1>5. ASSUME NEW c \in Clients, NEW k \in Thresholds, NEW t \in BOOLEAN,
             Wait(c, k, t)
      PROVE  PoolInv' /\ TaskInv' /\ ControlInv'
  <2>1. k \in Nat
    BY PoolAssumption DEF PoolAssumption
  <2>2. ControlInv'
    BY <1>0, <1>5, <2>1 DEF Wait, ControlInv, waitVars
  <2> QED
    BY <1>0, <1>5, <2>2, PoolInvUnchanged, TaskInvUnchanged DEF Wait, taskVars
<1>6. ASSUME NEW by \in Workers \cup {Owner}, BeginShutdown(by)
      PROVE  PoolInv' /\ TaskInv' /\ ControlInv'
  <2>1. ControlInv'
    BY <1>0, <1>6 DEF BeginShutdown, ControlInv, waitVars
  <2> QED
    BY <1>0, <1>6, <2>1, PoolInvUnchanged, TaskInvUnchanged
       DEF BeginShutdown, taskVars
<1> QED BY <1>1, <1>2, <1>3, <1>4, <1>5, <1>6 DEF CallerStep

(* Worker threads.                                                         *)
LEMMA WorkerIInv ==
  ASSUME IInv, NEW w \in Workers, WorkerStep(w)
  PROVE  IInv'
<1> SUFFICES PoolInv' /\ TaskInv' /\ ControlInv'
  BY IInvParts, PTL
<1>0. PoolInv /\ TaskInv /\ ControlInv
  BY IInvParts
<1>1. ASSUME NEW active, Fetches(w, active), WaitForTask(w, active),
             UnchangedByExecuteTask
      PROVE  PoolInv' /\ TaskInv' /\ ControlInv'
  <2>1. PoolInv'
    BY <1>0, <1>1, WaitForTaskPoolInv
  <2>2. CASE Leave(w, active)
    <3>1. TaskInv'
      BY <1>0, <1>1, <2>2 DEF TaskInv, PoolInv, Leave, taskVars, Fetches
    <3>2. ControlInv'
      BY <1>0, <1>1, <2>2, ControlInvUnchanged
         DEF Leave, UnchangedByExecuteTask
    <3> QED BY <2>1, <3>1, <3>2
  <2>3. CASE Sleep(w, active)
    <3>1. TaskInv'
      BY <1>0, <1>1, <2>3 DEF TaskInv, PoolInv, Sleep, taskVars, Fetches
    <3>2. ControlInv'
      BY <1>0, <1>1, <2>3, NotifyIdleControlInv
         DEF Sleep, UnchangedByExecuteTask
    <3> QED BY <2>1, <3>1, <3>2
  <2>4. CASE Take(w, active)
    <3>1. PICK i \in TopPositions(m_scheduler) :
            task' = [task EXCEPT ![w] = top(m_scheduler, i)]
      BY <2>4 DEF Take
    <3>2. top(m_scheduler, i) \in Tasks /\ top(m_scheduler, i) # NoTask
      BY <1>0, PopProperties, PoolAssumption DEF PoolInv, PoolAssumption
    <3>3. wpc' = [wpc EXCEPT ![w] = "executing"]
      BY <2>4 DEF Take
    <3>4. TaskInv'
      BY <1>0, <2>4, <3>1, <3>2, <3>3 DEF TaskInv, PoolInv, Take
    <3>5. ControlInv'
      BY <1>0, <1>1, <2>4, ControlInvUnchanged DEF Take, UnchangedByExecuteTask
    <3> QED BY <2>1, <3>4, <3>5
  <2> QED BY <1>1, <2>2, <2>3, <2>4 DEF WaitForTask
<1>2. CASE FetchTask(w)
  <2>1. CASE TooManyWorkers /\ Leave(w, m_active_worker_count)
    <3>1. PoolInv'
      BY <1>0, <1>2, <2>1, LeavePoolInv DEF FetchTask, Fetches
    <3>2. TaskInv'
      BY <1>0, <1>2, <2>1 DEF TaskInv, PoolInv, Leave, taskVars, FetchTask
    <3>3. ControlInv'
      BY <1>0, <1>2, <2>1, ControlInvUnchanged
         DEF Leave, UnchangedByExecuteTask, FetchTask
    <3> QED BY <3>1, <3>2, <3>3
  <2>2. CASE WaitForTask(w, m_active_worker_count)
    BY <1>1, <1>2, <2>2 DEF FetchTask, Fetches
  <2> QED BY <1>2, <2>1, <2>2 DEF FetchTask
<1>3. CASE ResumeFetch(w)
  BY <1>1, <1>3 DEF ResumeFetch, Fetches
<1>4. ASSUME NEW next \in {"fetching", "dying"}, EndTask(w, next)
      PROVE  PoolInv' /\ TaskInv' /\ ControlInv'
  <2>1. PoolInv'
    BY <1>0, <1>4, WorkerMovesPoolInv, IndValues DEF EndTask
  <2>2. task[w] \in Tasks
    BY <1>0, <1>4 DEF TaskInv, EndTask
  <2>3. TaskInv'
    BY <1>0, <1>4, <2>2 DEF TaskInv, PoolInv, EndTask
  <2> QED BY <1>0, <1>4, <2>1, <2>3, ControlInvUnchanged DEF EndTask
<1>5. CASE TaskReturns(w) \/ TaskThrows(w)
  BY <1>4, <1>5 DEF TaskReturns, TaskThrows
<1>6. ASSUME Retire(w), wpc[w] \in {"leaving", "dying"}, UNCHANGED taskVars
      PROVE  PoolInv' /\ TaskInv'
  <2>1. TaskInv'
    BY <1>0, <1>6 DEF TaskInv, PoolInv, Retire, taskVars
  <2> QED BY <1>0, <1>6, <2>1, RetirePoolInv DEF taskVars
<1>7. ASSUME Replace(w), wpc[w] = "dying", ~m_terminate_all_workers,
             UNCHANGED taskVars
      PROVE  PoolInv' /\ TaskInv'
  <2>1. TaskInv'
    BY <1>0, <1>7 DEF TaskInv, PoolInv, Replace, taskVars
  <2> QED BY <1>0, <1>7, <2>1, ReplacePoolInv DEF taskVars
<1>8. CASE WorkerDestructed(w)
  BY <1>0, <1>6, <1>8, NotifyIdleControlInv DEF WorkerDestructed
<1>9. CASE WorkerDiedUnexpectedly(w)
  BY <1>0, <1>6, <1>7, <1>9, NotifyIdleControlInv DEF WorkerDiedUnexpectedly
<1>10. CASE ThreadExit(w)
  <2>1. PoolInv'
    BY <1>0, <1>10, WorkerMovesPoolInv, IndValues DEF ThreadExit, taskVars
  <2>2. TaskInv'
    BY <1>0, <1>10 DEF TaskInv, PoolInv, ThreadExit, taskVars
  <2> QED BY <1>0, <1>10, <2>1, <2>2, ControlInvUnchanged DEF ThreadExit
<1> QED
  BY <1>2, <1>3, <1>5, <1>8, <1>9, <1>10 DEF WorkerStep

(* Clients in wait(), the shutdown, and wakeups that nobody sent.          *)
LEMMA WaitersIInv ==
  ASSUME IInv, (\E c \in Clients : ClientStep(c)) \/ ShutdownStep
                 \/ SpuriousWakeup
  PROVE  IInv'
<1> SUFFICES PoolInv' /\ TaskInv' /\ ControlInv'
  BY IInvParts, PTL
<1>0. PoolInv /\ TaskInv /\ ControlInv
  BY IInvParts
<1>1. ASSUME NEW c \in Clients, ClientStep(c)
      PROVE  PoolInv' /\ TaskInv' /\ ControlInv'
  <2>1. UNCHANGED <<poolVars, taskVars, wpc, waitVars, shutdown, shutter>>
    BY <1>1 DEF ClientStep, ResumeWait, Timeout, ReturnFalse
  <2>2. ControlInv'
    BY <1>0, <1>1, <2>1 DEF ControlInv, ClientStep, ResumeWait, Timeout,
       ReturnFalse, waitVars
  <2> QED BY <1>0, <2>1, <2>2, PoolInvUnchanged, TaskInvUnchanged DEF taskVars
<1>2. CASE ShutdownClear
  <2>1. m_scheduler' \in Seq(Tasks) /\ Len(m_scheduler') = 0
    BY <1>2, EmptySeq DEF ShutdownClear, ClearScheduler
  <2>2. ReadyNo \in Nat
    BY InOfFinite DEF ReadyNo
  <2>3. PoolInv'
    BY <1>0, <1>2, <2>1, <2>2 DEF ShutdownClear, PoolInv, poolVars, Live,
       Active, ReadyNo, NoneAsleep, TooManyWorkers
  <2>4. ToSet(m_scheduler) \subseteq Tasks
    BY <1>0, LenProperties, ElementOfSeq DEF PoolInv, ToSet
  <2>5. TaskInv'
    BY <1>0, <1>2, <2>4 DEF TaskInv, ShutdownClear, ClearScheduler
  <2>6. ControlInv'
    BY <1>0, <1>2 DEF ControlInv, ShutdownClear, waitVars
  <2> QED BY <2>3, <2>5, <2>6
<1>3. CASE ShutdownWait \/ ResumeTerminate
  <2>1. UNCHANGED <<poolVars, taskVars, wpc, cpc, waitVars, shutter>>
    BY <1>3 DEF ShutdownWait, ResumeTerminate
  <2>2. ControlInv'
    BY <1>0, <1>3, <2>1 DEF ControlInv, ShutdownWait, ResumeTerminate,
       AfterActiveCheck, waitVars
  <2> QED BY <1>0, <2>1, <2>2, PoolInvUnchanged, TaskInvUnchanged DEF taskVars
<1>4. CASE TerminateAllWorkers
  <2>1. /\ wpc' \in [Workers -> PcStates]
        /\ Live' = Live /\ Active' = Active /\ NoneAsleep'
        /\ \A w \in Workers : wpc[w] = "executing" <=> wpc'[w] = "executing"
    BY <1>0, <1>4, CountNotifyAll DEF TerminateAllWorkers, PoolInv
  <2>2. PoolInv'
    BY <1>0, <1>4, <2>1 DEF TerminateAllWorkers, PoolInv, taskVars
  <2>3. TaskInv'
    BY <1>0, <1>4, <2>1, TaskInvUnchanged DEF TerminateAllWorkers, taskVars
  <2>4. ControlInv'
    BY <1>0, <1>4 DEF ControlInv, TerminateAllWorkers, AfterActiveCheck,
       waitVars
  <2> QED BY <2>2, <2>3, <2>4
<1>5. CASE JoinTerminated
  <2>1. wpc' \in [Workers -> PcStates]
    BY <1>0, <1>5, IndValues DEF JoinTerminated, PoolInv
  <2>2. /\ InOf(wpc', LiveStates) = InOf(wpc, LiveStates)
        /\ InOf(wpc', ActiveStates) = InOf(wpc, ActiveStates)
        /\ InOf(wpc', ReadyStates) = InOf(wpc, ReadyStates)
        /\ NoneAsleep <=> NoneAsleep'
        /\ \A w \in Workers : wpc[w] = "executing" <=> wpc'[w] = "executing"
    BY <1>0, <1>5 DEF JoinTerminated, PoolInv, InOf, LiveStates, ActiveStates,
       AsleepStates, ReadyStates, NoneAsleep
  <2>3. PoolInv'
    BY <1>0, <1>5, <2>1, <2>2 DEF JoinTerminated, PoolInv, taskVars, Live,
       Active, ReadyNo, TooManyWorkers
  <2>4. TaskInv'
    BY <1>0, <1>5, <2>2, TaskInvUnchanged DEF JoinTerminated, taskVars
  <2>5. ControlInv'
    BY <1>0, <1>5 DEF ControlInv, JoinTerminated, waitVars
  <2> QED BY <2>3, <2>4, <2>5
<1>6. CASE SpuriousWakeup
  <2>1. ControlInv'
    BY <1>0, <1>6 DEF ControlInv, SpuriousWakeup, waitVars
  <2>2. UNCHANGED <<poolVars, taskVars>>
    BY <1>6 DEF SpuriousWakeup
  <2>3. ASSUME NEW w \in Workers, wpc[w] = "asleep",
               wpc' = [wpc EXCEPT ![w] = "woken"]
        PROVE  PoolInv' /\ TaskInv'
    <3>1. \A v \in Workers : wpc[v] = "executing" <=> wpc'[v] = "executing"
      BY <1>0, <2>3 DEF PoolInv
    <3> QED
      BY <1>0, <2>2, <2>3, <3>1, WorkerMovesPoolInv, IndValues,
         TaskInvUnchanged DEF taskVars
  <2>4. CASE UNCHANGED wpc
    BY <1>0, <2>1, <2>2, <2>4, PoolInvUnchanged, TaskInvUnchanged DEF taskVars
  <2> QED BY <1>6, <2>1, <2>3, <2>4 DEF SpuriousWakeup, In
<1> QED BY <1>1, <1>2, <1>3, <1>4, <1>5, <1>6 DEF ShutdownStep

LEMMA StepIInv == IInv /\ [Next]_vars => IInv'
<1> SUFFICES ASSUME IInv, [Next]_vars PROVE IInv'
  OBVIOUS
<1>1. CASE UNCHANGED vars
  <2>1. PoolInv' /\ TaskInv' /\ ControlInv'
    BY <1>1, IInvParts, PoolInvUnchanged, TaskInvUnchanged, ControlInvUnchanged
       DEF vars, taskVars
  <2> QED BY <2>1, IInvParts, PTL
<1> QED
  BY <1>1, CallerIInv, WorkerIInv, WaitersIInv DEF Next

THEOREM Invariance == Spec => []IInv
BY InitIInv, StepIInv, PTL DEF Spec

-----------------------------------------------------------------------------
(* The pool's safety properties.                                           *)

(* Every variable keeps its type; the unsigned counters do not wrap.       *)
THEOREM TypeCorrect == Spec => []TypeOK
<1>1. IInv => TypeOK
  BY DEF IInv
<1> QED BY <1>1, Invariance, PTL

(* The two counters are at every moment the numbers of attached and of     *)
(* awake workers, however the updates in create, execute_task,             *)
(* worker_destructed and worker_died_unexpectedly interleave.              *)
THEOREM CountersAreExact == Spec => []CountersExact
<1>1. IInv => CountersExact
  BY DEF IInv
<1> QED BY <1>1, Invariance, PTL

(* notify_one in schedule, and the notify_all of resize and of             *)
(* terminate_all_workers, are enough: no pending task waits for a sleeping *)
(* worker without an awake worker that will look at the scheduler.         *)
THEOREM NoWakeupIsLost == Spec => []NoLostTaskWakeup
<1>1. IInv => NoLostTaskWakeup
  BY DEF IInv
<1> QED BY <1>1, Invariance, PTL

(* A worker that a resize makes superfluous is never asleep.               *)
THEOREM ShrinkWakesAll == Spec => []ShrinkReachesSleepers
<1>1. IInv => ShrinkReachesSleepers
  BY DEF IInv
<1> QED BY <1>1, Invariance, PTL

(* After terminate_all_workers the flag stays set, the target stays zero   *)
(* and no worker is added, whatever controllers and dying workers do.      *)
THEOREM TerminationIsFinal == Spec => NoNewWorkersAfterTermination
<1> DEFINE A == m_terminate_all_workers =>
                  /\ m_terminate_all_workers'
                  /\ m_target_worker_count' = 0
                  /\ m_worker_count' <= m_worker_count
<1>1. IInv /\ [Next]_vars => [A]_vars
  <2> SUFFICES ASSUME IInv, Next, m_terminate_all_workers
               PROVE  /\ m_terminate_all_workers'
                      /\ m_target_worker_count' = 0
                      /\ m_worker_count' <= m_worker_count
    OBVIOUS
  <2>0. m_worker_count \in Nat /\ m_target_worker_count = 0
    BY DEF IInv, TypeOK
  <2>1. CASE UNCHANGED poolVars
    BY <2>0, <2>1 DEF poolVars
  <2>2. CASE Construct
    BY <2>2 DEF Construct, Resize
  <2>3. CASE CallerStep
    BY <2>0, <2>1, <2>3 DEF CallerStep, ControllerResize, Resize, Schedule,
       Clear, Wait, BeginShutdown
  <2>4. ASSUME NEW w \in Workers, WorkerStep(w)
        PROVE  /\ m_terminate_all_workers'
               /\ m_target_worker_count' = 0
               /\ m_worker_count' <= m_worker_count
    <3>1. CASE FetchTask(w) \/ ResumeFetch(w)
      <4>1. UNCHANGED <<m_worker_count, m_target_worker_count,
                        m_terminate_all_workers>>
        BY <3>1 DEF FetchTask, ResumeFetch, UnchangedByExecuteTask
      <4> QED BY <2>0, <4>1
    <3>2. CASE TaskReturns(w) \/ TaskThrows(w) \/ ThreadExit(w)
      BY <2>1, <3>2 DEF TaskReturns, TaskThrows, ThreadExit, EndTask
    <3>3. CASE WorkerDestructed(w) \/ WorkerDiedUnexpectedly(w)
      <4>1. Retire(w)
        BY <3>3 DEF WorkerDestructed, WorkerDiedUnexpectedly
      <4>2. /\ m_worker_count' = m_worker_count - 1
            /\ UNCHANGED <<m_target_worker_count, m_terminate_all_workers>>
        BY <4>1 DEF Retire
      <4> QED BY <2>0, <4>2
    <3> QED BY <2>4, <3>1, <3>2, <3>3 DEF WorkerStep
  <2>5. CASE \E c \in Clients : ClientStep(c)
    <3>1. UNCHANGED poolVars
      BY <2>5 DEF ClientStep, ResumeWait, Timeout, ReturnFalse
    <3> QED BY <2>1, <3>1
  <2>6. CASE ShutdownStep
    <3>1. CASE ShutdownClear \/ ShutdownWait \/ ResumeTerminate
      <4>1. UNCHANGED poolVars
        BY <3>1 DEF ShutdownClear, ShutdownWait, ResumeTerminate
      <4> QED BY <2>1, <4>1
    <3>2. CASE TerminateAllWorkers
      BY <2>0, <3>2 DEF TerminateAllWorkers
    <3>3. CASE JoinTerminated
      BY <2>0, <3>3 DEF JoinTerminated
    <3> QED BY <2>6, <3>1, <3>2, <3>3 DEF ShutdownStep
  <2>7. CASE SpuriousWakeup
    BY <2>1, <2>7 DEF SpuriousWakeup
  <2> QED BY <2>2, <2>3, <2>4, <2>5, <2>6, <2>7 DEF Next
<1> QED BY <1>1, Invariance, PTL DEF Spec, NoNewWorkersAfterTermination

-----------------------------------------------------------------------------
(* The steps that move tasks: all others leave the scheduler, the tasks    *)
(* the workers hold and the history alone.                                 *)
LEMMA TaskSteps ==
  ASSUME [Next]_vars
  PROVE  \/ UNCHANGED taskVars
         \/ \E t \in Tasks : Schedule(t)
         \/ ClearScheduler /\ UNCHANGED <<task, done>>
         \/ \E w \in Workers : \E active :
              Take(w, active) /\ wpc[w] \in {"fetching", "woken"}
         \/ \E w \in Workers : \E next \in {"fetching", "dying"} :
              EndTask(w, next)
<1>1. CASE UNCHANGED vars
  BY <1>1 DEF vars
<1>2. CASE Construct
  BY <1>2 DEF Construct
<1>3. CASE CallerStep
  BY <1>3 DEF CallerStep, ControllerResize, Clear, Wait, BeginShutdown
<1>4. ASSUME NEW w \in Workers, WorkerStep(w)
      PROVE  \/ UNCHANGED taskVars
             \/ \E active : /\ Take(w, active)
                            /\ wpc[w] \in {"fetching", "woken"}
             \/ \E next \in {"fetching", "dying"} : EndTask(w, next)
  <2>1. CASE FetchTask(w)
    BY <2>1 DEF FetchTask, WaitForTask, Leave, Sleep
  <2>2. CASE ResumeFetch(w)
    BY <2>2 DEF ResumeFetch, WaitForTask, Leave, Sleep
  <2>3. CASE TaskReturns(w) \/ TaskThrows(w)
    BY <2>3 DEF TaskReturns, TaskThrows
  <2>4. CASE WorkerDestructed(w) \/ WorkerDiedUnexpectedly(w) \/ ThreadExit(w)
    BY <2>4 DEF WorkerDestructed, WorkerDiedUnexpectedly, ThreadExit
  <2> QED BY <1>4, <2>1, <2>2, <2>3, <2>4 DEF WorkerStep
<1>5. CASE \E c \in Clients : ClientStep(c)
  BY <1>5 DEF ClientStep, ResumeWait, Timeout, ReturnFalse
<1>6. CASE ShutdownStep
  BY <1>6 DEF ShutdownStep, ShutdownClear, ShutdownWait, TerminateAllWorkers,
     ResumeTerminate, JoinTerminated
<1>7. CASE SpuriousWakeup
  BY <1>7 DEF SpuriousWakeup
<1> QED BY <1>1, <1>2, <1>3, <1>4, <1>5, <1>6, <1>7 DEF Next

(* Where a task is, with the positions of the scheduler as 1..Len.         *)
OnePlace ==
  /\ NoDuplicates(m_scheduler)
  /\ \A v, w \in Workers : task[v] = task[w] /\ task[v] # NoTask => v = w
  /\ \A i \in 1..Len(m_scheduler) : m_scheduler[i] \notin done \cup dropped
  /\ \A w \in Workers :
       task[w] # NoTask =>
         /\ task[w] \notin done \cup dropped
         /\ \A i \in 1..Len(m_scheduler) : task[w] # m_scheduler[i]
  /\ done \cap dropped = {}

LEMMA OnePlaceIsExecutedOnce == IInv => (OnePlace <=> ExecutedOnce)
<1> SUFFICES ASSUME IInv PROVE OnePlace <=> ExecutedOnce
  OBVIOUS
<1>1. PoolInv /\ TaskInv
  BY IInvParts
<1>2. DOMAIN m_scheduler = 1..Len(m_scheduler)
  BY <1>1, LenProperties DEF PoolInv
<1>3. \A w \in Workers : w \in Executing <=> task[w] # NoTask
  BY <1>1 DEF TaskInv, Executing, In
<1>4. Executing \subseteq Workers
  BY DEF Executing, In
<1> QED
  BY <1>2, <1>3, <1>4 DEF OnePlace, ExecutedOnce, NoDuplicates

LEMMA StepOnePlace == IInv /\ OnePlace /\ [Next]_vars => OnePlace'
<1> SUFFICES ASSUME IInv, OnePlace, [Next]_vars PROVE OnePlace'
  OBVIOUS
<1>0. PoolInv /\ TaskInv
  BY IInvParts
<1>1. m_scheduler \in Seq(Tasks) /\ Len(m_scheduler) \in Nat
  BY <1>0, LenProperties DEF PoolInv
<1>2. CASE UNCHANGED taskVars
  BY <1>2 DEF OnePlace, taskVars, NoDuplicates
<1>3. ASSUME NEW t \in Tasks, Schedule(t)
      PROVE  OnePlace'
  <2>1. /\ m_scheduler' = push(m_scheduler, t)
        /\ UNCHANGED <<task, done, dropped>>
    BY <1>3 DEF Schedule
  <2>2. /\ t \notin done \cup dropped
        /\ \A w \in Workers : task[w] # t
        /\ \A k \in 1..Len(m_scheduler) : m_scheduler[k] # t
    BY <1>1, <1>3, LenProperties DEF Schedule, Submitted, ToSet
  <2>3. /\ Len(m_scheduler') = Len(m_scheduler) + 1
        /\ \A j \in 1..Len(m_scheduler) + 1 :
             \/ m_scheduler'[j] = t
             \/ \E k \in 1..Len(m_scheduler) : m_scheduler'[j] = m_scheduler[k]
        /\ NoDuplicates(m_scheduler')
    <3>1. NoDuplicates(m_scheduler)
      BY DEF OnePlace
    <3>2. /\ Len(push(m_scheduler, t)) = Len(m_scheduler) + 1
          /\ \A j \in 1..Len(m_scheduler) + 1 :
               \/ push(m_scheduler, t)[j] = t
               \/ \E k \in 1..Len(m_scheduler) :
                    push(m_scheduler, t)[j] = m_scheduler[k]
      BY <1>1, PushProperties
    <3>3. (NoDuplicates(m_scheduler)
             /\ \A k \in 1..Len(m_scheduler) : m_scheduler[k] # t)
           => NoDuplicates(push(m_scheduler, t))
      BY <1>1, PushProperties
    <3> QED BY <2>1, <2>2, <3>1, <3>2, <3>3
  <2> QED BY <2>1, <2>2, <2>3 DEF OnePlace
<1>4. CASE ClearScheduler /\ UNCHANGED <<task, done>>
  <2>1. Len(m_scheduler') = 0 /\ DOMAIN m_scheduler' = {}
    BY <1>4 DEF ClearScheduler
  <2>2. dropped' = dropped \cup
                     {m_scheduler[i] : i \in 1..Len(m_scheduler)}
    BY <1>1, <1>4, LenProperties DEF ClearScheduler, ToSet
  <2> QED BY <1>4, <2>1, <2>2 DEF OnePlace, NoDuplicates
<1>5. ASSUME NEW w \in Workers, NEW active, Take(w, active),
             wpc[w] \in {"fetching", "woken"}
      PROVE  OnePlace'
  <2>1. PICK i \in TopPositions(m_scheduler) :
          /\ task' = [task EXCEPT ![w] = top(m_scheduler, i)]
          /\ m_scheduler' = pop(m_scheduler, i)
    BY <1>5 DEF Take
  <2>2. UNCHANGED <<done, dropped>>
    BY <1>5 DEF Take
  <2>3. /\ i \in 1..Len(m_scheduler)
        /\ Len(m_scheduler') = Len(m_scheduler) - 1
        /\ \A j \in 1..Len(m_scheduler) - 1 :
             \E k \in 1..Len(m_scheduler) :
               k # i /\ m_scheduler'[j] = m_scheduler[k]
        /\ NoDuplicates(m_scheduler')
    <3>1. NoDuplicates(m_scheduler)
      BY DEF OnePlace
    <3>2. /\ i \in 1..Len(m_scheduler)
          /\ Len(pop(m_scheduler, i)) = Len(m_scheduler) - 1
          /\ \A j \in 1..Len(m_scheduler) - 1 :
               \E k \in 1..Len(m_scheduler) :
                 k # i /\ pop(m_scheduler, i)[j] = m_scheduler[k]
      BY <1>1, PopProperties
    <3>3. NoDuplicates(m_scheduler) => NoDuplicates(pop(m_scheduler, i))
      BY <1>1, PopProperties
    <3> QED BY <2>1, <3>1, <3>2, <3>3
  <2>4. /\ task'[w] = m_scheduler[i]
        /\ \A v \in Workers \ {w} : task'[v] = task[v]
    BY <1>0, <2>1 DEF TaskInv, top
  <2>5. \A j \in 1..Len(m_scheduler') : m_scheduler'[j] # m_scheduler[i]
    BY <1>1, <2>3, LenProperties DEF OnePlace, NoDuplicates
  <2>6. \A u, v \in Workers : task'[u] = task'[v] /\ task'[u] # NoTask => u = v
    BY <2>3, <2>4 DEF OnePlace
  <2>7. \A j \in 1..Len(m_scheduler') : m_scheduler'[j] \notin done \cup dropped
    BY <2>3 DEF OnePlace
  <2>8. \A v \in Workers :
          task'[v] # NoTask =>
            /\ task'[v] \notin done \cup dropped
            /\ \A j \in 1..Len(m_scheduler') : task'[v] # m_scheduler'[j]
    BY <2>3, <2>4, <2>5 DEF OnePlace
  <2> QED BY <2>2, <2>3, <2>6, <2>7, <2>8 DEF OnePlace
<1>6. ASSUME NEW w \in Workers, NEW next \in {"fetching", "dying"},
             EndTask(w, next)
      PROVE  OnePlace'
  <2>1. /\ task' = [task EXCEPT ![w] = NoTask]
        /\ done' = done \cup {task[w]}
        /\ UNCHANGED <<m_scheduler, dropped>>
        /\ task[w] # NoTask
    BY <1>0, <1>6 DEF EndTask, TaskInv
  <2>2. /\ task'[w] = NoTask
        /\ \A v \in Workers \ {w} : task'[v] = task[v]
    BY <1>0, <2>1 DEF TaskInv
  <2> QED BY <2>1, <2>2 DEF OnePlace, NoDuplicates
<1> QED BY <1>2, <1>3, <1>4, <1>5, <1>6, TaskSteps

(* "The task will be executed once only": whichever workers race for it, a *)
(* task is in one place, and is never both executed and cleared.           *)
THEOREM TasksAreExecutedOnce == Spec => []ExecutedOnce
<1>1. Init => OnePlace
  BY DEF Init, OnePlace, NoDuplicates
<1>2. Spec => []OnePlace
  BY <1>1, StepOnePlace, Invariance, PTL DEF Spec
<1> QED BY <1>2, OnePlaceIsExecutedOnce, Invariance, PTL

-----------------------------------------------------------------------------
(* The shutdown.                                                           *)

Ending == {"terminate", "term_asleep", "term_woken", "joining", "done"}

(* Which steps the shutdown takes, as far as the promise is concerned: it  *)
(* begins to terminate from clear, if it does not wait, or after a wait.   *)
LEMMA ShutdownSteps ==
  ASSUME IInv, [Next]_vars, shutdown' \in Ending
  PROVE  \/ shutdown \in Ending
         \/ ShutdownClear /\ ShutdownPolicy = "immediately"
         \/ ShutdownWait /\ Load = 0
<1>1. CASE UNCHANGED shutdown
  BY <1>1
<1>2. CASE NotifyIdle
  BY <1>2 DEF NotifyIdle, Ending
<1>3. CASE Construct
  BY <1>3 DEF Construct, Ending
<1>4. CASE CallerStep
  BY <1>1, <1>4 DEF CallerStep, ControllerResize, Schedule, Clear, Wait,
     BeginShutdown, Ending
<1>5. ASSUME NEW w \in Workers, WorkerStep(w)
      PROVE  UNCHANGED shutdown \/ NotifyIdle
  <2>1. CASE FetchTask(w)
    BY <2>1 DEF FetchTask, WaitForTask, Leave, Sleep, Take
  <2>2. CASE ResumeFetch(w)
    BY <2>2 DEF ResumeFetch, WaitForTask, Leave, Sleep, Take
  <2>3. CASE TaskReturns(w) \/ TaskThrows(w)
    BY <2>3 DEF TaskReturns, TaskThrows, EndTask
  <2>4. CASE WorkerDestructed(w) \/ WorkerDiedUnexpectedly(w) \/ ThreadExit(w)
    BY <2>4 DEF WorkerDestructed, WorkerDiedUnexpectedly, ThreadExit
  <2> QED BY <1>5, <2>1, <2>2, <2>3, <2>4 DEF WorkerStep
<1>6. CASE \E c \in Clients : ClientStep(c)
  <2>1. UNCHANGED shutdown
    BY <1>6 DEF ClientStep, ResumeWait, Timeout, ReturnFalse
  <2> QED BY <1>1, <2>1
<1>7. CASE ShutdownStep
  BY <1>7 DEF ShutdownStep, ShutdownClear, ShutdownWait, TerminateAllWorkers,
     ResumeTerminate, JoinTerminated, Ending
<1>8. CASE SpuriousWakeup
  BY <1>8 DEF SpuriousWakeup, Ending
<1>9. CASE UNCHANGED vars
  BY <1>1, <1>9 DEF vars
<1> QED BY <1>1, <1>2, <1>3, <1>4, <1>5, <1>6, <1>7, <1>8, <1>9 DEF Next

(* The promise in terms of the tasks that the workers hold.                *)
Promise ==
  shutdown \in Ending =>
    /\ m_scheduler = <<>>
    /\ ShutdownPolicy # "immediately" => \A w \in Workers : task[w] = NoTask

LEMMA PromiseIsShutdownKeepsPromise ==
  IInv => (Promise <=> ShutdownKeepsPromise)
<1> SUFFICES ASSUME IInv PROVE Promise <=> ShutdownKeepsPromise
  OBVIOUS
<1>1. \A w \in Workers : wpc[w] = "executing" <=> task[w] # NoTask
  BY DEF IInv
<1>2. Executing = {} <=> \A w \in Workers : task[w] = NoTask
  BY <1>1 DEF Executing, In
<1> QED BY <1>2 DEF Promise, ShutdownKeepsPromise, Ending

(* The condition on which the shutdown's wait ends.                        *)
LEMMA IdleLoad ==
  ASSUME IInv, Load = 0
  PROVE  m_scheduler = <<>> /\ \A w \in Workers : task[w] = NoTask
<1>0. PoolInv /\ TaskInv
  BY IInvParts
<1>1. m_active_worker_count = 0 /\ Len(m_scheduler) = 0
  BY <1>0, LenProperties DEF Load, PoolInv
<1>2. m_scheduler = <<>>
  BY <1>0, <1>1, EmptySeq DEF PoolInv
<1>3. InOf(wpc, ActiveStates) = {}
  BY <1>0, <1>1, InOfFinite, FS_EmptySet DEF PoolInv, Active
<1>4. \A w \in Workers : wpc[w] # "executing"
  BY <1>3 DEF InOf, ActiveStates
<1> QED BY <1>0, <1>2, <1>4 DEF TaskInv

LEMMA StepPromise == IInv /\ Promise /\ [Next]_vars => Promise'
<1> SUFFICES ASSUME IInv, Promise, [Next]_vars, shutdown' \in Ending
             PROVE  /\ m_scheduler' = <<>>
                    /\ ShutdownPolicy # "immediately" =>
                         \A w \in Workers : task'[w] = NoTask
  BY DEF Promise
<1>0. PoolInv /\ TaskInv
  BY IInvParts
<1>1. CASE shutdown \in Ending
  <2>0. /\ m_scheduler = <<>>
        /\ ShutdownPolicy # "immediately" =>
             \A w \in Workers : task[w] = NoTask
    BY <1>1 DEF Promise
  <2>1. CASE UNCHANGED taskVars
    BY <2>0, <2>1 DEF taskVars
  <2>2. ~\E t \in Tasks : Schedule(t)
    BY <1>1 DEF Ending, Schedule
  <2>3. CASE ClearScheduler /\ UNCHANGED <<task, done>>
    BY <2>0, <2>3 DEF ClearScheduler
  <2>4. ~\E w \in Workers : \E active : Take(w, active)
    <3>1. TopPositions(m_scheduler) = {}
      BY <2>0 DEF TopPositions
    <3> QED BY <3>1 DEF Take
  <2>5. ASSUME NEW w \in Workers, NEW next \in {"fetching", "dying"},
               EndTask(w, next)
        PROVE  /\ m_scheduler' = <<>>
               /\ ShutdownPolicy # "immediately" =>
                    \A v \in Workers : task'[v] = NoTask
    BY <1>0, <2>0, <2>5 DEF EndTask, TaskInv
  <2> QED BY <2>1, <2>2, <2>3, <2>4, <2>5, TaskSteps
<1>2. CASE ShutdownClear /\ ShutdownPolicy = "immediately"
  BY <1>2 DEF ShutdownClear, ClearScheduler
<1>3. CASE ShutdownWait /\ Load = 0
  BY <1>3, IdleLoad DEF ShutdownWait, taskVars
<1> QED BY <1>1, <1>2, <1>3, ShutdownSteps

(* When workers begin to be terminated, and from then on, no task is       *)
(* pending and, unless the policy does not wait, none is executed.         *)
THEOREM ShutdownPolicyIsKept == Spec => []ShutdownKeepsPromise
<1>1. Init => Promise
  BY DEF Init, Promise, Ending
<1>2. Spec => []Promise
  BY <1>1, StepPromise, Invariance, PTL DEF Spec
<1> QED BY <1>2, PromiseIsShutdownKeepsPromise, Invariance, PTL

-----------------------------------------------------------------------------
(* wait().                                                                 *)

LEMMA ExecutingIsActive ==
  ASSUME IInv
  PROVE  /\ Cardinality(Executing) \in Nat
         /\ Cardinality(Executing) <= m_active_worker_count
<1>1. Executing = InOf(wpc, {"executing"})
  BY DEF Executing, In, InOf
<1>2. Executing \in SUBSET InOf(wpc, ActiveStates)
  BY <1>1 DEF InOf, ActiveStates
<1>3. m_active_worker_count = Cardinality(InOf(wpc, ActiveStates))
  BY IInvParts DEF PoolInv, Active
<1>4. IsFiniteSet(InOf(wpc, ActiveStates))
  BY InOfFinite
<1>5. Cardinality(Executing) <= Cardinality(InOf(wpc, ActiveStates))
  BY <1>2, <1>4, FS_Subset
<1>6. Cardinality(Executing) \in Nat
  BY <1>1, InOfFinite
<1> QED BY <1>3, <1>5, <1>6

(* A client leaves the loop of wait through its condition only.            *)
LEMMA WaitSteps ==
  ASSUME IInv, [Next]_vars, NEW c \in Clients,
         cpc[c] = "woken", cpc'[c] = "out"
  PROVE  Load <= threshold[c]
<1>0. cpc \in [Clients -> {"out", "asleep", "woken", "timed_out"}]
  BY DEF IInv, TypeOK
<1>1. ~UNCHANGED cpc
  OBVIOUS
<1>2. ~NotifyIdle
  BY <1>0 DEF NotifyIdle
<1>3. ~Construct /\ ~UNCHANGED vars
  BY <1>1 DEF Construct, vars
<1>4. ~CallerStep
  <2>1. ASSUME NEW d \in Clients, NEW k \in Thresholds, NEW t \in BOOLEAN,
               Wait(d, k, t)
        PROVE  FALSE
    BY <1>0, <2>1 DEF Wait
  <2> QED BY <1>1, <2>1 DEF CallerStep, ControllerResize, Schedule, Clear,
             BeginShutdown
<1>5. ASSUME NEW w \in Workers, WorkerStep(w)
      PROVE  FALSE
  <2>1. CASE FetchTask(w)
    BY <1>1, <1>2, <2>1 DEF FetchTask, WaitForTask, Leave, Sleep, Take
  <2>2. CASE ResumeFetch(w)
    BY <1>1, <1>2, <2>2 DEF ResumeFetch, WaitForTask, Leave, Sleep, Take
  <2>3. CASE TaskReturns(w) \/ TaskThrows(w)
    BY <1>1, <2>3 DEF TaskReturns, TaskThrows, EndTask
  <2>4. CASE WorkerDestructed(w) \/ WorkerDiedUnexpectedly(w) \/ ThreadExit(w)
    BY <1>1, <1>2, <2>4 DEF WorkerDestructed, WorkerDiedUnexpectedly,
       ThreadExit
  <2> QED BY <1>5, <2>1, <2>2, <2>3, <2>4 DEF WorkerStep
<1>6. ~ShutdownStep
  BY <1>1 DEF ShutdownStep, ShutdownClear, ShutdownWait, TerminateAllWorkers,
     ResumeTerminate, JoinTerminated
<1>7. ~SpuriousWakeup
  <2>1. ASSUME NEW d \in Clients, cpc[d] = "asleep",
               cpc' = [cpc EXCEPT ![d] = "woken"]
        PROVE  FALSE
    BY <1>0, <2>1
  <2> QED BY <1>1, <2>1 DEF SpuriousWakeup
<1>8. ASSUME NEW d \in Clients, ClientStep(d)
      PROVE  Load <= threshold[c]
  <2>1. CASE ResumeWait(d)
    <3>1. d = c
      BY <1>0, <2>1 DEF ResumeWait
    <3> QED BY <1>0, <2>1, <3>1 DEF ResumeWait
  <2>2. ~Timeout(d) /\ ~ReturnFalse(d)
    BY <1>0 DEF Timeout, ReturnFalse
  <2> QED BY <1>8, <2>1, <2>2 DEF ClientStep
<1> QED BY <1>3, <1>4, <1>5, <1>6, <1>7, <1>8 DEF Next

(* wait(k) returns only when at most k tasks are pending or executing.     *)
THEOREM WaitReturnsOnlyWhenQuiet == Spec => WaitReturnsQuiet
<1> DEFINE A == \A c \in Clients : cpc[c] = "woken" /\ cpc'[c] = "out" =>
                  Cardinality(Executing) + Len(m_scheduler) <= threshold[c]
<1>1. IInv /\ [Next]_vars => [A]_vars
  <2> SUFFICES ASSUME IInv, [Next]_vars, NEW c \in Clients,
                      cpc[c] = "woken", cpc'[c] = "out"
               PROVE  Cardinality(Executing) + Len(m_scheduler) <= threshold[c]
    OBVIOUS
  <2>1. m_active_worker_count + Len(m_scheduler) <= threshold[c]
    BY WaitSteps DEF Load
  <2>2. /\ m_active_worker_count \in Nat
        /\ Len(m_scheduler) \in Nat
        /\ threshold[c] \in Nat
    BY LenProperties DEF IInv, TypeOK
  <2> QED BY <2>1, <2>2, ExecutingIsActive
<1> QED BY <1>1, Invariance, PTL DEF Spec, WaitReturnsQuiet

-----------------------------------------------------------------------------
(* The waiters of m_worker_idle_or_terminated_event.                       *)

(* What its waiters rely on.  Once the shutdown has begun no client waits, *)
(* so the clear() of a shutdown policy leaves no one asleep; that of a      *)
(* caller may leave clients asleep, but not the shutdown.                  *)
ClientsWaitForWork ==
  \A c \in Clients : cpc[c] = "asleep" /\ threshold[c] = 0 => Load > 0

ShutdownWaitsForWork ==
  /\ shutdown = "wait_asleep" => Load > 0
  /\ shutdown = "term_asleep" => m_active_worker_count > 0

IdleInv ==
  /\ shutdown \notin {"constructing", "open"} =>
       \A c \in Clients : cpc[c] = "out"
  /\ "clear" \in Uses \/ ClientsWaitForWork
  /\ ShutdownWaitsForWork

LEMMA LoadType ==
  ASSUME IInv
  PROVE  /\ m_active_worker_count \in Nat
         /\ Len(m_scheduler) \in Nat
         /\ Load \in Nat
<1>1. m_active_worker_count \in Nat /\ Len(m_scheduler) \in Nat
  BY LenProperties DEF IInv, TypeOK
<1> QED BY <1>1 DEF Load

(* A step that wakes no one, and leaves work where there was some.         *)
LEMMA QuietIdleInv ==
  ASSUME IdleInv, UNCHANGED <<cpc, threshold>>,
         \/ shutdown' = shutdown
         \/ shutdown = "constructing" /\ shutdown' = "open",
         Load > 0 => Load' > 0,
         m_active_worker_count > 0 => m_active_worker_count' > 0
  PROVE  IdleInv'
BY DEF IdleInv, ClientsWaitForWork, ShutdownWaitsForWork

(* A step that notifies all of them.                                       *)
LEMMA NotifiedIdleInv ==
  ASSUME IInv, IdleInv, NotifyIdle, UNCHANGED threshold
  PROVE  IdleInv'
<1>1. \A c \in Clients : /\ cpc[c] = "out" => cpc'[c] = "out"
                         /\ cpc'[c] # "asleep"
  BY DEF NotifyIdle
<1>2. /\ shutdown' # "wait_asleep" /\ shutdown' # "term_asleep"
      /\ shutdown \in {"constructing", "open"} => shutdown' = shutdown
  BY DEF NotifyIdle, IInv, TypeOK
<1> QED BY <1>1, <1>2 DEF IdleInv, ClientsWaitForWork, ShutdownWaitsForWork

(* A worker that fetches a task is, or becomes, an active one.             *)
LEMMA FetcherIsActive ==
  ASSUME IInv, NEW w \in Workers, NEW active, Fetches(w, active)
  PROVE  active \in Nat /\ active > 0
<1>0. PoolInv
  BY IInvParts
<1>1. CASE wpc[w] = "fetching" /\ active = m_active_worker_count
  <2>1. w \in InOf(wpc, ActiveStates)
    BY <1>1 DEF InOf, ActiveStates
  <2>2. Cardinality(InOf(wpc, ActiveStates)) # 0
    BY <2>1, InOfFinite, FS_EmptySet
  <2> QED BY <1>0, <1>1, <2>2 DEF PoolInv, Active
<1>2. CASE wpc[w] = "woken" /\ active = m_active_worker_count + 1
  BY <1>0, <1>2 DEF PoolInv
<1> QED BY <1>1, <1>2 DEF Fetches

LEMMA TakeIdleInv ==
  ASSUME IInv, IdleInv, NEW w \in Workers, NEW active, Fetches(w, active),
         Take(w, active), UNCHANGED threshold
  PROVE  IdleInv'
<1>1. active \in Nat /\ active > 0
  BY FetcherIsActive
<1>2. m_scheduler \in Seq(Tasks)
  BY DEF IInv, TypeOK
<1>3. m_scheduler' \in Seq(Tasks)
  BY <1>2, PopProperties DEF Take
<1>4. Len(m_scheduler') \in Nat
  BY <1>3, LenProperties
<1>5. m_active_worker_count' = active /\ UNCHANGED <<cpc, shutdown>>
  BY DEF Take
<1>6. Load' > 0
  BY <1>1, <1>4, <1>5 DEF Load
<1> QED BY <1>1, <1>5, <1>6, QuietIdleInv

LEMMA WaitForTaskIdleInv ==
  ASSUME IInv, IdleInv, NEW w \in Workers, NEW active, Fetches(w, active),
         WaitForTask(w, active), UNCHANGED threshold
  PROVE  IdleInv'
<1>1. CASE Leave(w, active)
  <2>1. active \in Nat /\ active > 0
    BY FetcherIsActive
  <2>2. /\ m_active_worker_count' = active
        /\ UNCHANGED <<cpc, shutdown, m_scheduler>>
    BY <1>1 DEF Leave, taskVars
  <2>3. Load' > 0
    BY <2>1, <2>2, LoadType DEF Load
  <2> QED BY <2>1, <2>2, <2>3, QuietIdleInv
<1>2. CASE Sleep(w, active)
  BY <1>2, NotifiedIdleInv DEF Sleep
<1>3. CASE Take(w, active)
  BY <1>3, TakeIdleInv
<1> QED BY <1>1, <1>2, <1>3 DEF WaitForTask

LEMMA WorkerIdleInv ==
  ASSUME IInv, IdleInv, NEW w \in Workers, WorkerStep(w)
  PROVE  IdleInv'
<1>1. CASE FetchTask(w)
  <2>1. UNCHANGED threshold /\ Fetches(w, m_active_worker_count)
    BY <1>1 DEF FetchTask, UnchangedByExecuteTask, waitVars, Fetches
  <2>2. CASE WaitForTask(w, m_active_worker_count)
    BY <2>1, <2>2, WaitForTaskIdleInv
  <2>3. CASE Leave(w, m_active_worker_count)
    <3>1. UNCHANGED <<m_active_worker_count, m_scheduler, cpc, shutdown>>
      BY <2>3 DEF Leave, taskVars
    <3> QED BY <2>1, <3>1, QuietIdleInv DEF Load
  <2> QED BY <1>1, <2>2, <2>3 DEF FetchTask
<1>2. CASE ResumeFetch(w)
  <2>1. UNCHANGED threshold /\ Fetches(w, m_active_worker_count + 1)
    BY <1>2 DEF ResumeFetch, UnchangedByExecuteTask, waitVars, Fetches
  <2> QED BY <1>2, <2>1, WaitForTaskIdleInv DEF ResumeFetch
<1>3. CASE TaskReturns(w) \/ TaskThrows(w) \/ ThreadExit(w)
  <2>1. UNCHANGED <<m_active_worker_count, m_scheduler, cpc, threshold,
                    shutdown>>
    BY <1>3 DEF TaskReturns, TaskThrows, EndTask, ThreadExit, poolVars,
       taskVars, waitVars
  <2> QED BY <2>1, QuietIdleInv DEF Load
<1>4. CASE WorkerDestructed(w) \/ WorkerDiedUnexpectedly(w)
  <2>1. NotifyIdle /\ UNCHANGED threshold
    BY <1>4 DEF WorkerDestructed, WorkerDiedUnexpectedly, waitVars
  <2> QED BY <2>1, NotifiedIdleInv
<1> QED BY <1>1, <1>2, <1>3, <1>4 DEF WorkerStep

LEMMA ResizeLoad ==
  ASSUME IInv, NEW size \in Nat, Resize(size), UNCHANGED m_scheduler
  PROVE  /\ Load > 0 => Load' > 0
         /\ m_active_worker_count > 0 => m_active_worker_count' > 0
<1>1. \/ m_active_worker_count' = m_active_worker_count
      \/ \E S \in SUBSET Workers :
           m_active_worker_count' = m_active_worker_count + Cardinality(S)
  BY DEF Resize, CreatedWorkers, In
<1>2. \A S \in SUBSET Workers : Cardinality(S) \in Nat
  BY PoolAssumption, FS_Subset, FS_CardinalityType DEF PoolAssumption
<1> QED BY <1>1, <1>2, LoadType DEF Load

LEMMA CallerIdleInv ==
  ASSUME IInv, IdleInv, Construct \/ CallerStep
  PROVE  IdleInv'
<1>1. CASE Construct
  <2>1. Resize(InitialThreads) /\ InitialThreads \in Nat
    BY <1>1, PoolAssumption DEF PoolAssumption, Construct
  <2>2. UNCHANGED <<cpc, threshold, m_scheduler>>
    BY <1>1 DEF Construct, taskVars, waitVars
  <2> QED BY <1>1, <2>1, <2>2, ResizeLoad, QuietIdleInv DEF Construct
<1>2. ASSUME NEW size \in Sizes, ControllerResize(size)
      PROVE  IdleInv'
  <2>1. size \in Nat
    BY PoolAssumption DEF PoolAssumption
  <2>2. UNCHANGED <<cpc, threshold, m_scheduler, shutdown>>
    BY <1>2 DEF ControllerResize, taskVars, waitVars
  <2>3. Resize(size) \/ UNCHANGED m_active_worker_count
    BY <1>2 DEF ControllerResize, poolVars
  <2>4. CASE Resize(size)
    BY <2>1, <2>2, <2>4, ResizeLoad, QuietIdleInv
  <2>5. CASE UNCHANGED m_active_worker_count
    BY <2>2, <2>5, QuietIdleInv DEF Load
  <2> QED BY <2>3, <2>4, <2>5
<1>3. ASSUME NEW t \in Tasks, Schedule(t)
      PROVE  IdleInv'
  <2>1. m_scheduler \in Seq(Tasks)
    BY DEF IInv, TypeOK
  <2>2. Len(m_scheduler') = Len(m_scheduler) + 1
    BY <1>3, <2>1, PushProperties DEF Schedule
  <2>3. UNCHANGED <<m_active_worker_count, cpc, threshold, shutdown>>
    BY <1>3 DEF Schedule, poolVars, waitVars
  <2>4. Load' > 0
    BY <2>2, <2>3, LoadType DEF Load
  <2> QED BY <2>3, <2>4, QuietIdleInv
<1>4. CASE Clear
  <2>1. /\ "clear" \in Uses /\ shutdown = "open"
        /\ UNCHANGED <<cpc, shutdown>>
    BY <1>4 DEF Clear
  <2> QED BY <2>1 DEF IdleInv, ShutdownWaitsForWork
<1>5. ASSUME NEW c \in Clients, NEW k \in Thresholds, NEW t \in BOOLEAN,
             Wait(c, k, t)
      PROVE  IdleInv'
  <2>1. k \in Nat
    BY PoolAssumption DEF PoolAssumption
  <2>2. UNCHANGED <<m_active_worker_count, m_scheduler, shutdown>>
    BY <1>5 DEF Wait, poolVars, taskVars
  <2>3. shutdown = "open" /\ Load' = Load
    BY <1>5, <2>2 DEF Wait, Load
  <2>4. CASE Load <= k
    BY <1>5, <2>2, <2>4, QuietIdleInv DEF Wait, waitVars, Load
  <2>5. CASE ~(Load <= k)
    <3>1. Load > 0
      BY <2>1, <2>5, LoadType
    <3> QED
      BY <2>2, <2>3, <3>1 DEF IdleInv, ClientsWaitForWork, ShutdownWaitsForWork
  <2> QED BY <2>4, <2>5
<1>6. ASSUME NEW by \in Workers \cup {Owner}, BeginShutdown(by)
      PROVE  IdleInv'
  BY <1>6 DEF BeginShutdown, IdleInv, ClientsWaitForWork,
     ShutdownWaitsForWork, poolVars, waitVars, Load
<1> QED BY <1>1, <1>2, <1>3, <1>4, <1>5, <1>6 DEF CallerStep

LEMMA ShutdownIdleInv ==
  ASSUME IInv, IdleInv, ShutdownStep
  PROVE  IdleInv'
<1>1. \A c \in Clients : cpc'[c] = "out"
  BY DEF ShutdownStep, ShutdownClear, ShutdownWait, TerminateAllWorkers,
     ResumeTerminate, JoinTerminated, IdleInv
<1>2. shutdown' # "wait_asleep" \/ (ShutdownWait /\ Load # 0)
  BY DEF ShutdownStep, ShutdownClear, ShutdownWait, TerminateAllWorkers,
     ResumeTerminate, JoinTerminated, AfterActiveCheck
<1>3. \/ shutdown' # "term_asleep"
      \/ m_active_worker_count > 0 /\ UNCHANGED m_active_worker_count
  BY DEF ShutdownStep, ShutdownClear, ShutdownWait, TerminateAllWorkers,
     ResumeTerminate, JoinTerminated, AfterActiveCheck, poolVars
<1>4. ShutdownWait => Load' = Load
  BY DEF ShutdownWait, Load, poolVars, taskVars
<1> QED
  BY <1>1, <1>2, <1>3, <1>4, LoadType
     DEF IdleInv, ClientsWaitForWork, ShutdownWaitsForWork

LEMMA ClientIdleInv ==
  ASSUME IInv, IdleInv, NEW c \in Clients, ClientStep(c)
  PROVE  IdleInv'
<1>1. /\ UNCHANGED <<m_active_worker_count, m_scheduler, threshold, shutdown>>
      /\ Load' = Load
  BY DEF ClientStep, ResumeWait, Timeout, ReturnFalse, poolVars, taskVars,
     waitVars, Load
<1>2. /\ cpc[c] # "out"
      /\ \A d \in Clients \ {c} : cpc'[d] = cpc[d]
      /\ cpc'[c] = "asleep" => ~(Load <= threshold[c])
  BY DEF ClientStep, ResumeWait, Timeout, ReturnFalse, IInv, TypeOK
<1>3. threshold[c] \in Nat
  BY DEF IInv, TypeOK
<1> QED
  BY <1>1, <1>2, <1>3, LoadType
     DEF IdleInv, ClientsWaitForWork, ShutdownWaitsForWork

LEMMA StepIdleInv ==
  ASSUME IInv, IdleInv, [Next]_vars
  PROVE  IdleInv'
<1>1. CASE SpuriousWakeup
  <2>1. /\ UNCHANGED <<m_active_worker_count, m_scheduler, threshold>>
        /\ Load' = Load
    BY <1>1 DEF SpuriousWakeup, poolVars, taskVars, waitVars, Load
  <2>2. /\ \A c \in Clients : /\ cpc[c] = "out" => cpc'[c] = "out"
                              /\ cpc'[c] = "asleep" => cpc[c] = "asleep"
        /\ shutdown' \in {"constructing", "open"} <=>
             shutdown \in {"constructing", "open"}
        /\ \/ shutdown' = shutdown
           \/ shutdown' # "wait_asleep" /\ shutdown' # "term_asleep"
    BY <1>1 DEF SpuriousWakeup, IInv, TypeOK
  <2> QED BY <2>1, <2>2 DEF IdleInv, ClientsWaitForWork, ShutdownWaitsForWork
<1>2. CASE UNCHANGED vars
  BY <1>2, QuietIdleInv DEF vars, poolVars, taskVars, waitVars, Load
<1> QED
  BY <1>1, <1>2, CallerIdleInv, WorkerIdleInv, ClientIdleInv, ShutdownIdleInv
     DEF Next

LEMMA IdleInvariance == Spec => []IdleInv
<1>1. Init => IdleInv
  BY DEF Init, IdleInv, ClientsWaitForWork, ShutdownWaitsForWork
<1>2. IInv /\ IdleInv /\ [Next]_vars => IdleInv'
  BY StepIdleInv
<1> QED BY <1>1, <1>2, Invariance, PTL DEF Spec

(* Nobody sleeps in wait(0), or in a wait of the shutdown, while what it   *)
(* waits for holds, unless a caller clears the pool, which notifies nobody.*)
THEOREM IdleEventIsNotMissed ==
  ASSUME "clear" \notin Uses
  PROVE  Spec => []NoMissedIdleEvent
<1>1. IdleInv => NoMissedIdleEvent
  BY DEF IdleInv, ClientsWaitForWork, ShutdownWaitsForWork, NoMissedIdleEvent
<1> QED BY <1>1, IdleInvariance, PTL

(* The waits of the shutdown miss nothing, whatever the callers did.       *)
THEOREM ShutdownIsAwakened == Spec => []ShutdownWaitsForWork
<1>1. IdleInv => ShutdownWaitsForWork
  BY DEF IdleInv
<1> QED BY <1>1, IdleInvariance, PTL

-----------------------------------------------------------------------------
(* The number of workers.                                                  *)

(* Nobody asks for fewer workers than the pool is to have.                 *)
NobodyShrinks ==
  [][\A size \in Sizes :
       ControllerResize(size) => size >= m_target_worker_count]_vars

(* Then no worker ever has to leave before the workers are terminated.     *)
SizeInv ==
  /\ shutdown = "constructing" => m_worker_count = 0
  /\ ~m_terminate_all_workers =>
       /\ m_worker_count = m_target_worker_count
       /\ \A w \in Workers : wpc[w] # "leaving"
       /\ shutdown # "constructing" => m_worker_count >= InitialThreads

(* A resize that does not shrink, with threads to be had.                  *)
LEMMA GrowSizeInv ==
  ASSUME IInv, SizeInv, "thread_resource_error" \notin Uses,
         NEW size \in Nat, Resize(size), size >= m_worker_count,
         size >= InitialThreads, shutdown' # "constructing"
  PROVE  SizeInv'
<1>0. m_worker_count \in Nat /\ ~m_terminate_all_workers
  BY DEF IInv, TypeOK, Resize
<1>1. m_target_worker_count' = size /\ ~m_terminate_all_workers'
  BY <1>0 DEF Resize
<1>2. CASE m_worker_count > size
  BY <1>0, <1>2
<1>3. CASE m_worker_count <= size
  <2>1. PICK S \in CreatedWorkers(size - m_worker_count) :
          /\ wpc' = [w \in Workers |-> IF w \in S THEN "fetching" ELSE wpc[w]]
          /\ m_worker_count' = m_worker_count + Cardinality(S)
    BY <1>0, <1>3 DEF Resize
  <2>2. Cardinality(S) = size - m_worker_count
    BY DEF CreatedWorkers
  <2>3. m_worker_count' = size
    BY <1>0, <2>1, <2>2
  <2>4. \A w \in Workers : wpc'[w] # "leaving"
    BY <1>0, <2>1 DEF SizeInv
  <2> QED BY <1>1, <2>3, <2>4 DEF SizeInv
<1> QED BY <1>0, <1>2, <1>3

(* A step after which the workers are being terminated.                    *)
LEMMA TerminatedSizeInv ==
  ASSUME m_terminate_all_workers', shutdown' # "constructing"
  PROVE  SizeInv'
BY DEF SizeInv

(* A step that changes neither number.                                     *)
LEMMA SameSizeInv ==
  ASSUME SizeInv,
         UNCHANGED <<m_worker_count, m_target_worker_count,
                     m_terminate_all_workers>>,
         ~m_terminate_all_workers =>
           \A w \in Workers : wpc'[w] = "leaving" => wpc[w] = "leaving",
         shutdown' = "constructing" <=> shutdown = "constructing"
  PROVE  SizeInv'
BY DEF SizeInv

LEMMA NotifyOneLeaves ==
  ASSUME IInv, NotifyOneWorker, NEW w \in Workers, wpc'[w] = "leaving"
  PROVE  wpc[w] = "leaving"
BY DEF NotifyOneWorker, In, IInv, TypeOK

LEMMA CallerSizeInv ==
  ASSUME IInv, SizeInv, "thread_resource_error" \notin Uses,
         Construct \/ CallerStep,
         \A size \in Sizes :
           ControllerResize(size) => size >= m_target_worker_count
  PROVE  SizeInv'
<1>0. m_worker_count \in Nat /\ m_target_worker_count \in Nat
  BY DEF IInv, TypeOK
<1>1. CASE Construct
  <2>1. InitialThreads \in Nat
    BY PoolAssumption DEF PoolAssumption
  <2>2. /\ Resize(InitialThreads) /\ shutdown' # "constructing"
        /\ m_worker_count = 0
    BY <1>1 DEF Construct, SizeInv
  <2> QED BY <2>1, <2>2, GrowSizeInv
<1>2. ASSUME NEW size \in Sizes, ControllerResize(size)
      PROVE  SizeInv'
  <2>1. /\ size \in Nat /\ size >= m_target_worker_count
        /\ InitialThreads \in Nat
    BY <1>2, PoolAssumption DEF PoolAssumption
  <2>2. shutdown # "constructing" /\ shutdown' = shutdown
    BY <1>2 DEF ControllerResize
  <2>3. CASE Resize(size)
    <3>1. /\ m_worker_count = m_target_worker_count
          /\ m_worker_count >= InitialThreads
      BY <2>2, <2>3 DEF Resize, SizeInv
    <3>2. size >= m_worker_count /\ size >= InitialThreads
      BY <1>0, <2>1, <3>1
    <3> QED BY <2>1, <2>2, <2>3, <3>2, GrowSizeInv
  <2>4. CASE m_terminate_all_workers /\ UNCHANGED <<poolVars, wpc>>
    BY <2>2, <2>4, SameSizeInv DEF poolVars
  <2> QED BY <1>2, <2>3, <2>4 DEF ControllerResize
<1>3. ASSUME NEW t \in Tasks, Schedule(t)
      PROVE  SizeInv'
  BY <1>3, SameSizeInv, NotifyOneLeaves DEF Schedule, poolVars
<1>4. CASE Clear
  BY <1>4, SameSizeInv DEF Clear, poolVars
<1>5. ASSUME NEW c \in Clients, NEW k \in Thresholds, NEW t \in BOOLEAN,
             Wait(c, k, t)
      PROVE  SizeInv'
  BY <1>5, SameSizeInv DEF Wait, poolVars
<1>6. ASSUME NEW by \in Workers \cup {Owner}, BeginShutdown(by)
      PROVE  SizeInv'
  BY <1>6, SameSizeInv DEF BeginShutdown, poolVars
<1> QED BY <1>1, <1>2, <1>3, <1>4, <1>5, <1>6 DEF CallerStep

LEMMA NotifyIdleShutdown ==
  ASSUME NotifyIdle
  PROVE  shutdown' = "constructing" <=> shutdown = "constructing"
BY DEF NotifyIdle

LEMMA WorkerSizeInv ==
  ASSUME IInv, SizeInv, "thread_resource_error" \notin Uses,
         NEW w \in Workers, WorkerStep(w)
  PROVE  SizeInv'
<1>0. /\ wpc \in [Workers -> PcStates]
      /\ m_worker_count \in Nat /\ m_target_worker_count \in Nat
  BY IInvParts DEF PoolInv
<1>1. ~m_terminate_all_workers => ~TooManyWorkers
  BY <1>0 DEF SizeInv, TooManyWorkers
<1>2. CASE FetchTask(w) \/ ResumeFetch(w)
  <2>1. UNCHANGED <<m_worker_count, m_target_worker_count,
                    m_terminate_all_workers>>
    BY <1>2 DEF FetchTask, ResumeFetch, UnchangedByExecuteTask
  <2>2. PICK active \in {m_active_worker_count, m_active_worker_count + 1} :
          \/ TooManyWorkers /\ Leave(w, active)
          \/ Sleep(w, active)
          \/ Take(w, active)
    BY <1>2 DEF FetchTask, ResumeFetch, WaitForTask
  <2>3. CASE TooManyWorkers /\ Leave(w, active)
    BY <1>1, <2>1, <2>3, SameSizeInv DEF Leave
  <2>4. CASE Sleep(w, active)
    <3>1. \A v \in Workers : wpc'[v] = "leaving" => wpc[v] = "leaving"
      BY <1>0, <2>4 DEF Sleep
    <3> QED BY <2>1, <2>4, <3>1, SameSizeInv, NotifyIdleShutdown DEF Sleep
  <2>5. CASE Take(w, active)
    <3>1. \A v \in Workers : wpc'[v] = "leaving" => wpc[v] = "leaving"
      BY <1>0, <2>5 DEF Take
    <3> QED BY <2>1, <2>5, <3>1, SameSizeInv DEF Take
  <2> QED BY <2>2, <2>3, <2>4, <2>5
<1>3. ASSUME NEW next \in {"fetching", "dying"}, EndTask(w, next)
      PROVE  SizeInv'
  <2>1. \A v \in Workers : wpc'[v] = "leaving" => wpc[v] = "leaving"
    BY <1>0, <1>3 DEF EndTask
  <2> QED BY <1>3, <2>1, SameSizeInv DEF EndTask, poolVars
<1>4. CASE TaskReturns(w) \/ TaskThrows(w)
  BY <1>3, <1>4 DEF TaskReturns, TaskThrows
<1>5. CASE WorkerDestructed(w)
  <2>1. m_terminate_all_workers
    BY <1>5 DEF WorkerDestructed, SizeInv
  <2>2. wpc[w] = "leaving"
    BY <1>5 DEF WorkerDestructed
  <2>3. shutdown # "constructing"
    <3>1. w \in InOf(wpc, LiveStates)
      BY <2>2 DEF InOf, LiveStates, ActiveStates
    <3>2. m_worker_count # 0
      BY <3>1, IInvParts, InOfFinite, FS_EmptySet DEF PoolInv, Live
    <3> QED BY <3>2 DEF SizeInv
  <2> QED
    BY <1>5, <2>1, <2>3, TerminatedSizeInv, NotifyIdleShutdown
       DEF WorkerDestructed, Retire
<1>6. CASE WorkerDiedUnexpectedly(w)
  <2>1. wpc[w] = "dying" /\ NotifyIdle
    BY <1>6 DEF WorkerDiedUnexpectedly
  <2>2. shutdown # "constructing"
    <3>1. w \in InOf(wpc, LiveStates)
      BY <2>1 DEF InOf, LiveStates, ActiveStates
    <3>2. m_worker_count # 0
      BY <3>1, IInvParts, InOfFinite, FS_EmptySet DEF PoolInv, Live
    <3> QED BY <3>2 DEF SizeInv
  <2>3. CASE m_terminate_all_workers /\ Retire(w)
    BY <2>1, <2>2, <2>3, TerminatedSizeInv, NotifyIdleShutdown DEF Retire
  <2>4. CASE ~m_terminate_all_workers /\ Replace(w)
    <3>1. /\ wpc' = [wpc EXCEPT ![w] = "fetching"]
          /\ m_worker_count' = m_worker_count
          /\ m_target_worker_count' = m_worker_count - 1 + 1
          /\ UNCHANGED m_terminate_all_workers
      BY <2>4 DEF Replace
    <3>2. m_target_worker_count' = m_target_worker_count
      BY <1>0, <2>4, <3>1 DEF SizeInv
    <3>3. \A v \in Workers : wpc'[v] = "leaving" => wpc[v] = "leaving"
      BY <1>0, <3>1
    <3> QED BY <2>1, <3>1, <3>2, <3>3, SameSizeInv, NotifyIdleShutdown
  <2> QED BY <1>6, <2>3, <2>4 DEF WorkerDiedUnexpectedly
<1>7. CASE ThreadExit(w)
  <2>1. \A v \in Workers : wpc'[v] = "leaving" => wpc[v] = "leaving"
    BY <1>0, <1>7 DEF ThreadExit
  <2> QED BY <1>7, <2>1, SameSizeInv DEF ThreadExit, poolVars
<1> QED BY <1>2, <1>4, <1>5, <1>6, <1>7 DEF WorkerStep

LEMMA WaitersSizeInv ==
  ASSUME IInv, SizeInv,
         (\E c \in Clients : ClientStep(c)) \/ ShutdownStep \/ SpuriousWakeup
  PROVE  SizeInv'
<1>0. wpc \in [Workers -> PcStates]
  BY IInvParts DEF PoolInv
<1>1. CASE \E c \in Clients : ClientStep(c)
  <2>1. UNCHANGED <<poolVars, wpc, shutdown>>
    BY <1>1 DEF ClientStep, ResumeWait, Timeout, ReturnFalse
  <2> QED BY <2>1, SameSizeInv DEF poolVars
<1>2. CASE ShutdownClear \/ ShutdownWait \/ ResumeTerminate
  <2>1. /\ UNCHANGED <<poolVars, wpc>>
        /\ shutdown # "constructing" /\ shutdown' # "constructing"
    BY <1>2 DEF ShutdownClear, ShutdownWait, ResumeTerminate, AfterActiveCheck
  <2> QED BY <2>1, SameSizeInv DEF poolVars
<1>3. CASE TerminateAllWorkers
  BY <1>3, TerminatedSizeInv DEF TerminateAllWorkers, AfterActiveCheck
<1>4. CASE JoinTerminated
  <2>1. \A w \in Workers : wpc'[w] = "leaving" => wpc[w] = "leaving"
    BY <1>4 DEF JoinTerminated
  <2> QED BY <1>4, <2>1, SameSizeInv DEF JoinTerminated
<1>5. CASE SpuriousWakeup
  <2>1. \A w \in Workers : wpc'[w] = "leaving" => wpc[w] = "leaving"
    BY <1>0, <1>5 DEF SpuriousWakeup, In
  <2>2. shutdown' = "constructing" <=> shutdown = "constructing"
    BY <1>5 DEF SpuriousWakeup
  <2> QED BY <1>5, <2>1, <2>2, SameSizeInv DEF SpuriousWakeup, poolVars
<1> QED BY <1>1, <1>2, <1>3, <1>4, <1>5 DEF ShutdownStep

(* static_size keeps the number of workers while nobody shrinks the pool   *)
(* and threads can be created, whichever workers are killed by their tasks *)
(* and replaced, and whichever resizes grow the pool meanwhile.            *)
THEOREM SizeIsPreserved ==
  ASSUME "thread_resource_error" \notin Uses
  PROVE  Spec /\ NobodyShrinks => []SizePreserved
<1> DEFINE Grows == \A size \in Sizes :
                      ControllerResize(size) => size >= m_target_worker_count
<1>1. Init => SizeInv
  BY DEF Init, SizeInv
<1>2. IInv /\ SizeInv /\ [Next]_vars /\ [Grows]_vars => SizeInv'
  <2> SUFFICES ASSUME IInv, SizeInv, [Next]_vars, [Grows]_vars
               PROVE  SizeInv'
    OBVIOUS
  <2>1. CASE UNCHANGED vars
    BY <2>1, SameSizeInv DEF vars, poolVars
  <2>2. CASE Next /\ Grows
    BY <2>2, CallerSizeInv, WorkerSizeInv, WaitersSizeInv DEF Next
  <2> QED BY <2>1, <2>2
<1>3. SizeInv => SizePreserved
  BY DEF SizeInv, SizePreserved
<1> QED BY <1>1, <1>2, <1>3, Invariance, PTL DEF Spec, NobodyShrinks

=============================================================================
