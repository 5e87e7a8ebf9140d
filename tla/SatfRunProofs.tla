--------------------------- MODULE SatfRunProofs ---------------------------
(***************************************************************************)
(* What a run of the program leaves in its logs, proved for every number   *)
(* of workers, range of sizes, list of algorithms and of data sets, and    *)
(* every interleaving of main and the workers.                             *)
(***************************************************************************)
EXTENDS SatfRun, SequenceLemmas, FiniteSetTheorems, FunctionTheorems

-----------------------------------------------------------------------------
(* The inductive invariant.                                                *)

Pending == ToSet(arrived)

(* A measurement is in one place of the pool, and none is left when the    *)
(* pool has terminated.                                                    *)
PlacesInv ==
  /\ arrived \in Seq(Measurement)
  /\ NoDuplicates(arrived)
  /\ running \in SUBSET Measurement
  /\ done \in SUBSET Measurement
  /\ Pending \cap (running \cup done) = {}
  /\ running \cap done = {}
  /\ phase \in {"open", "draining", "terminated"}
  /\ phase = "terminated" => Pending = {} /\ running = {}

ComparisonsOf(m) == Comparisons[<<m.file, m.size>>]

(* Each worker has its own measurement, and leaves its counter at zero for *)
(* the next one.                                                           *)
WorkersInv ==
  /\ \A w \in Workers :
       /\ wpc[w] # "idle" => current[w] \in running
       /\ IF wpc[w] = "counting" THEN s_count[w] = ComparisonsOf(current[w])
                                 ELSE s_count[w] \in {0, Unset}
       /\ wpc[w] = "logging" => counted[w] = ComparisonsOf(current[w])
  /\ \A v, w \in Workers :
       v # w /\ wpc[v] # "idle" /\ wpc[w] # "idle" => current[v] # current[w]

Recorded(m) == m.size \in SizesIn(m.file)

Finishing(m) == \E w \in Workers : wpc[w] = "finishing" /\ current[w] = m

(* A measurement has a line, or has lost it, when its worker has logged it.*)
LogInv ==
  /\ CountsBelongToLines
  /\ \A f \in Files : \A k, l \in DOMAIN log[f] :
       log[f][k].size = log[f][l].size => k = l
  /\ \A m \in Measurement :
       Recorded(m) \/ m \in lost <=> m \in done \/ Finishing(m)
  /\ \A m \in lost : ~Recorded(m)

(* The calls of schedule for the size that have been made.                 *)
Before(f) ==
  \E k \in DOMAIN DataNames, l \in DOMAIN Algorithms :
    /\ f = <<DataNames[k], Algorithms[l]>>
    /\ \/ k < next[1]
       \/ k = next[1] /\ l < next[2]

WasScheduled(m) ==
  /\ m.size > 0 /\ min_size <= m.size /\ m.size <= max_size
  /\ \/ m.size < i
     \/ m.size = i /\ main = "scheduling" /\ Before(m.file)

(* main is where its loops say, and the pool has what they have scheduled. *)
MainInv ==
  main # "aborted" =>
    /\ min_size <= max_size
    /\ i <= max_size + 1
    /\ main \in {"starting", "growing"} => next = <<1, 1>>
    /\ main \in {"starting", "rejected"} => i = 1 /\ data = 0 /\ max_size = 0
    /\ main = "growing" => data = i - 1
    /\ main = "scheduling" => data = i /\ min_size <= i /\ i <= max_size
    /\ main \in {"destroying", "returned"} => i = max_size + 1
    /\ main \in {"starting", "growing", "scheduling"} => phase = "open"
    /\ main = "returned" => phase = "terminated"
    /\ \A m \in Measurement :
         m \in Pending \cup running \cup done <=> WasScheduled(m)

SatfInv == SatfTypeOK /\ PlacesInv /\ WorkersInv /\ LogInv /\ MainInv

-----------------------------------------------------------------------------
(* Facts about the data, and the steps of the pool.                        *)

LEMMA PendingProperties ==
  ASSUME NEW q \in Seq(Measurement)
  PROVE  /\ Len(q) \in Nat
         /\ DOMAIN q = 1..Len(q)
         /\ ToSet(q) \in SUBSET Measurement
         /\ \A x : x \in ToSet(q) <=> \E k \in 1..Len(q) : q[k] = x
<1>1. Len(q) \in Nat /\ DOMAIN q = 1..Len(q)
  BY LenProperties
<1>2. \A k \in 1..Len(q) : q[k] \in Measurement
  BY ElementOfSeq
<1> QED BY <1>1, <1>2 DEF ToSet

LEMMA PoolOperators ==
  /\ \A q, k : Pool!RemoveAt(q, k) = RemoveAt(q, k)
  /\ \A q : Pool!ToSet(q) = ToSet(q)
BY DEF Pool!RemoveAt, RemoveAt, Pool!ToSet, ToSet

(* schedule() puts a measurement behind the others.                        *)
LEMMA AcceptStep ==
  ASSUME PlacesInv, NEW t \in Measurement, Pool!Accept(t)
  PROVE  /\ PlacesInv'
         /\ phase = "open"
         /\ t \notin Pending \cup running \cup done
         /\ Pending' = Pending \cup {t}
         /\ arrived' = Append(arrived, t)
         /\ UNCHANGED <<running, done, phase>>
<1>1. /\ phase = "open"
      /\ t \notin Pending \cup running \cup done
      /\ arrived' = Append(arrived, t)
      /\ UNCHANGED <<running, done, phase>>
  BY PoolOperators DEF Pool!Accept, Pending
<1>2. /\ arrived \in Seq(Measurement) /\ Len(arrived) \in Nat
      /\ DOMAIN arrived = 1..Len(arrived)
      /\ \A x : x \in Pending <=> \E k \in 1..Len(arrived) : arrived[k] = x
  BY PendingProperties DEF PlacesInv, Pending
<1>3. /\ arrived' \in Seq(Measurement)
      /\ Len(arrived') = Len(arrived) + 1
      /\ \A k \in 1..Len(arrived) : arrived'[k] = arrived[k]
      /\ arrived'[Len(arrived) + 1] = t
  BY <1>1, <1>2, AppendProperties
<1>4. /\ DOMAIN arrived' = 1..Len(arrived) + 1
      /\ \A x : x \in Pending' <=>
                  \E k \in 1..Len(arrived) + 1 : arrived'[k] = x
  BY <1>3, PendingProperties DEF Pending
<1>5. Pending' = Pending \cup {t}
  <2>1. \A x : x \in Pending' <=> x \in Pending \/ x = t
    BY <1>2, <1>3, <1>4
  <2> QED BY <2>1
<1>6. NoDuplicates(arrived')
  <2> SUFFICES ASSUME NEW j \in 1..Len(arrived) + 1, NEW k \in 1..Len(arrived) + 1,
                      arrived'[j] = arrived'[k]
               PROVE  j = k
    BY <1>4 DEF NoDuplicates
  <2>1. \A n \in 1..Len(arrived) : arrived'[n] # t
    BY <1>1, <1>2, <1>3
  <2>2. \A m, n \in 1..Len(arrived) : arrived[m] = arrived[n] => m = n
    BY <1>2 DEF PlacesInv, NoDuplicates
  <2>3. CASE j \in 1..Len(arrived) /\ k \in 1..Len(arrived)
    BY <1>3, <2>2, <2>3
  <2>4. CASE j = Len(arrived) + 1 /\ k = Len(arrived) + 1
    BY <2>4
  <2>5. CASE j = Len(arrived) + 1 /\ k \in 1..Len(arrived)
    BY <1>3, <2>1, <2>5
  <2>6. CASE k = Len(arrived) + 1 /\ j \in 1..Len(arrived)
    BY <1>3, <2>1, <2>6
  <2>7. j \in 1..Len(arrived) \/ j = Len(arrived) + 1
    BY <1>2
  <2>8. k \in 1..Len(arrived) \/ k = Len(arrived) + 1
    BY <1>2
  <2> QED BY <2>3, <2>4, <2>5, <2>6, <2>7, <2>8
<1>7. PlacesInv'
  BY <1>1, <1>3, <1>5, <1>6 DEF PlacesInv
<1> QED BY <1>1, <1>5, <1>7

(* A worker takes the measurement that was scheduled first.                *)
LEMMA StartStep ==
  ASSUME PlacesInv, Pool!Start
  PROVE  /\ PlacesInv'
         /\ UNCHANGED <<done, phase>>
         /\ Len(arrived) \in Nat /\ 1 \in 1..Len(arrived)
         /\ Len(arrived') = Len(arrived) - 1
         /\ \A k \in 1..Len(arrived) - 1 : arrived'[k] = arrived[k + 1]
         /\ arrived[1] \in Measurement
         /\ arrived[1] \in Pending
         /\ arrived[1] \notin running \cup done
         /\ running' = running \cup {arrived[1]}
         /\ Pending' = Pending \ {arrived[1]}
<1>1. PICK n \in Pool!MostUrgent : /\ running' = running \cup {arrived[n]}
                                   /\ arrived' = RemoveAt(arrived, n)
  BY PoolOperators DEF Pool!Start
<1>2. UNCHANGED <<done, phase>>
  BY DEF Pool!Start
<1>3. /\ arrived \in Seq(Measurement) /\ Len(arrived) \in Nat
      /\ DOMAIN arrived = 1..Len(arrived)
      /\ \A x : x \in Pending <=> \E k \in 1..Len(arrived) : arrived[k] = x
  BY PendingProperties DEF PlacesInv, Pending
<1>4. n = 1 /\ 1 \in 1..Len(arrived)
  BY <1>3 DEF Pool!MostUrgent, Scheduler
<1>5. /\ arrived[1] \in Pending
      /\ arrived[1] \in Measurement
      /\ arrived[1] \notin running \cup done
  BY <1>3, <1>4, ElementOfSeq DEF PlacesInv
<1>6. /\ arrived' \in Seq(Measurement)
      /\ Len(arrived') = Len(arrived) - 1
      /\ \A k \in 1..Len(arrived) - 1 :
           arrived'[k] = arrived[IF k < 1 THEN k ELSE k + 1]
  BY <1>1, <1>3, <1>4, RemoveAtProperties
<1>7. /\ DOMAIN arrived' = 1..Len(arrived) - 1
      /\ \A x : x \in Pending' <=>
                  \E k \in 1..Len(arrived) - 1 : arrived'[k] = x
  BY <1>6, PendingProperties DEF Pending
<1>8. \A k \in 1..Len(arrived) - 1 :
        k + 1 \in 1..Len(arrived) /\ k + 1 # 1 /\ arrived'[k] = arrived[k + 1]
  BY <1>3, <1>6
<1>9. \A j, k \in 1..Len(arrived) : arrived[j] = arrived[k] => j = k
  BY <1>3 DEF PlacesInv, NoDuplicates
<1>10. NoDuplicates(arrived')
  <2> SUFFICES ASSUME NEW j \in 1..Len(arrived) - 1, NEW k \in 1..Len(arrived) - 1,
                      arrived'[j] = arrived'[k]
               PROVE  j = k
    BY <1>7 DEF NoDuplicates
  <2>1. j + 1 = k + 1
    BY <1>8, <1>9
  <2> QED BY <2>1, <1>3
<1>11. Pending' = Pending \ {arrived[1]}
  <2>1. ASSUME NEW x \in Pending'
        PROVE  x \in Pending /\ x # arrived[1]
    BY <1>3, <1>4, <1>7, <1>8, <1>9, <2>1
  <2>2. ASSUME NEW x \in Pending, x # arrived[1]
        PROVE  x \in Pending'
    <3>1. PICK k \in 1..Len(arrived) : arrived[k] = x
      BY <1>3, <2>2
    <3>2. k # 1
      BY <2>2, <3>1
    <3>3. k - 1 \in 1..Len(arrived) - 1 /\ (k - 1) + 1 = k
      BY <1>3, <3>2
    <3>4. arrived'[k - 1] = x
      BY <1>8, <3>1, <3>3
    <3> QED BY <1>7, <3>3, <3>4
  <2> QED BY <2>1, <2>2
<1>12. PlacesInv'
  BY <1>1, <1>2, <1>4, <1>5, <1>6, <1>10, <1>11 DEF PlacesInv
<1> QED BY <1>1, <1>2, <1>3, <1>4, <1>5, <1>6, <1>8, <1>11, <1>12

LEMMA FinishStep ==
  ASSUME PlacesInv, NEW t, Pool!Finish(t)
  PROVE  /\ PlacesInv'
         /\ t \in running /\ t \in Measurement
         /\ running' = running \ {t}
         /\ done' = done \cup {t}
         /\ Pending' = Pending
         /\ UNCHANGED <<arrived, phase>>
<1>1. /\ t \in running
      /\ running' = running \ {t}
      /\ done' = done \cup {t}
      /\ UNCHANGED <<arrived, phase>>
  BY DEF Pool!Finish
<1>2. Pending' = Pending
  BY <1>1 DEF Pending
<1> QED BY <1>1, <1>2 DEF PlacesInv

(* The destructor waits for all measurements and drops none.               *)
LEMMA DestroySteps ==
  ASSUME PlacesInv
  PROVE  /\ Pool!Close =>
              /\ PlacesInv'
              /\ phase' = "draining"
              /\ UNCHANGED <<arrived, running, done, Pending>>
         /\ ~Pool!DropAtClose
         /\ Pool!Terminate =>
              /\ PlacesInv'
              /\ phase' = "terminated"
              /\ UNCHANGED <<arrived, running, done, Pending>>
<1>1. ASSUME Pool!Close
      PROVE  /\ phase = "open" /\ phase' = "draining"
             /\ UNCHANGED <<arrived, running, done, Pending>>
  BY <1>1 DEF Pool!Close, Shutdown, Pending
<1>2. ~Pool!DropAtClose
  BY DEF Pool!DropAtClose, PlacesInv
<1>3. ASSUME Pool!Terminate
      PROVE  /\ phase' = "terminated" /\ Pending = {} /\ running = {}
             /\ UNCHANGED <<arrived, running, done, Pending>>
  BY <1>3, PoolOperators DEF Pool!Terminate, Pending, ToSet
<1> QED BY <1>1, <1>2, <1>3 DEF PlacesInv

-----------------------------------------------------------------------------
(* What the steps of main leave to the workers, and the other way round.   *)

LEMMA SatfConstants ==
  /\ MaxSize \in Nat
  /\ Unset \notin Nat
  /\ Len(DataNames) \in Nat /\ DOMAIN DataNames = 1..Len(DataNames)
  /\ Len(Algorithms) \in Nat /\ DOMAIN Algorithms = 1..Len(Algorithms)
  /\ 1 <= Len(DataNames) /\ 1 <= Len(Algorithms)
  /\ \A k \in DOMAIN DataNames, l \in DOMAIN Algorithms :
       <<DataNames[k], Algorithms[l]>> \in Files
  /\ \A f \in Files : \E k \in DOMAIN DataNames, l \in DOMAIN Algorithms :
       f = <<DataNames[k], Algorithms[l]>>
  /\ \A m \in Measurement : /\ m.file \in Files /\ m.size \in 0..MaxSize
                            /\ ComparisonsOf(m) \in Nat
<1>1. /\ Len(DataNames) \in Nat /\ DOMAIN DataNames = 1..Len(DataNames)
      /\ Len(Algorithms) \in Nat /\ DOMAIN Algorithms = 1..Len(Algorithms)
  BY SatfAssumption, LenProperties DEF SatfAssumption
<1>2. 1 <= Len(DataNames) /\ 1 <= Len(Algorithms)
  <2>1. /\ DataNames \in Seq(STRING) /\ DataNames # <<>>
        /\ Algorithms \in Seq(STRING) /\ Algorithms # <<>>
    BY SatfAssumption DEF SatfAssumption
  <2>2. Len(DataNames) \in Nat \ {0} /\ Len(Algorithms) \in Nat \ {0}
    BY <2>1, EmptySeq
  <2> QED BY <2>2
<1>3. \A m \in Measurement : /\ m.file \in Files /\ m.size \in 0..MaxSize
                             /\ ComparisonsOf(m) \in Nat
  BY SatfAssumption DEF SatfAssumption, Measurement, ComparisonsOf
<1> QED BY <1>1, <1>2, <1>3, SatfAssumption DEF SatfAssumption, Files

LEMMA WorkersUnchanged ==
  ASSUME WorkersInv, LogInv, UNCHANGED <<workerVars, log, lost, running, done>>
  PROVE  WorkersInv' /\ LogInv'
<1>1. UNCHANGED <<wpc, current, s_count, counted, log, lost, running, done>>
  BY DEF workerVars
<1>2. WorkersInv'
  BY <1>1 DEF WorkersInv, ComparisonsOf
<1>3. LogInv'
  BY <1>1 DEF LogInv, CountsBelongToLines, Recorded, SizesIn, Finishing
<1> QED BY <1>2, <1>3

LEMMA MainUnchanged ==
  ASSUME MainInv, UNCHANGED <<mainVars, phase>>,
         (Pending \cup running \cup done)' = Pending \cup running \cup done
  PROVE  MainInv'
<1> DEFINE scheduled == Pending \cup running \cup done
<1>1. UNCHANGED <<main, min_size, max_size, i, next, data, phase, scheduled>>
  BY DEF mainVars
<1> HIDE DEF scheduled
<1>2. \A m : WasScheduled(m)' <=> WasScheduled(m)
  BY <1>1 DEF WasScheduled, Before
<1>3. main # "aborted" =>
        \A m \in Measurement : m \in scheduled' <=> WasScheduled(m)'
  BY <1>1, <1>2 DEF MainInv, scheduled
<1> QED BY <1>1, <1>3 DEF MainInv, scheduled

-----------------------------------------------------------------------------
(* The steps of main.                                                      *)

LEMMA RejectInv ==
  ASSUME SatfInv, RejectArguments \/ InitThrows
  PROVE  SatfInv'
<1>1. /\ main = "starting" /\ main' \in {"rejected", "aborted"}
      /\ UNCHANGED <<min_size, max_size, threads, i, next, data>>
      /\ UNCHANGED <<workerVars, log, lost, running, done>>
      /\ UNCHANGED <<arrived, phase, Pending>>
  BY DEF RejectArguments, InitThrows, poolVars, Pending
<1>2. SatfTypeOK'
  BY <1>1 DEF SatfInv, SatfTypeOK, workerVars
<1>3. PlacesInv'
  BY <1>1 DEF SatfInv, PlacesInv
<1>4. WorkersInv' /\ LogInv'
  BY <1>1, WorkersUnchanged DEF SatfInv
<1>5. MainInv'
  <2>1. /\ min_size <= max_size /\ i <= max_size + 1
        /\ i = 1 /\ data = 0 /\ max_size = 0
        /\ \A m \in Measurement :
             m \in Pending \cup running \cup done <=> WasScheduled(m)
    BY <1>1 DEF SatfInv, MainInv
  <2>2. \A m : WasScheduled(m)' <=> WasScheduled(m)
    BY <1>1 DEF WasScheduled, Before
  <2> QED BY <1>1, <2>1, <2>2 DEF MainInv
<1> QED BY <1>2, <1>3, <1>4, <1>5 DEF SatfInv

LEMMA ConstructInv ==
  ASSUME SatfInv, Construct
  PROVE  SatfInv'
<1>1. PICK a \in Arguments : a[1] <= a[2] /\ min_size' = a[1] /\ max_size' = a[2]
  BY DEF Construct
<1>2. /\ main = "starting" /\ main' = "growing"
      /\ threads' \in SUBSET Workers
      /\ UNCHANGED <<i, next, data>>
      /\ UNCHANGED <<workerVars, log, lost, running, done>>
      /\ UNCHANGED <<arrived, phase, Pending>>
  BY DEF Construct, poolVars, Pending
<1>3. a \in (0..MaxSize) \X (0..MaxSize)
  BY <1>1, SatfAssumption DEF SatfAssumption
<1>4. /\ min_size' \in 0..MaxSize /\ max_size' \in 0..MaxSize
      /\ min_size' <= max_size'
  BY <1>1, <1>3
<1>5. SatfTypeOK'
  BY <1>2, <1>4 DEF SatfInv, SatfTypeOK, workerVars
<1>6. PlacesInv'
  BY <1>2 DEF SatfInv, PlacesInv
<1>7. WorkersInv' /\ LogInv'
  BY <1>2, WorkersUnchanged DEF SatfInv
<1>8. MainInv'
  <2>1. /\ next = <<1, 1>> /\ i = 1 /\ data = 0 /\ max_size = 0 /\ phase = "open"
        /\ \A m \in Measurement :
             m \in Pending \cup running \cup done <=> WasScheduled(m)
    BY <1>2 DEF SatfInv, MainInv
  <2>2. \A m \in Measurement : ~WasScheduled(m) /\ ~WasScheduled(m)'
    <3> SUFFICES ASSUME NEW m \in Measurement
                 PROVE  ~WasScheduled(m) /\ ~WasScheduled(m)'
      OBVIOUS
    <3>1. m.size \in Nat
      BY SatfConstants
    <3> QED BY <1>2, <2>1, <3>1 DEF WasScheduled
  <2>3. i' <= max_size' + 1 /\ data' = i' - 1
    <3>1. i' = 1 /\ data' = 0
      BY <1>2, <2>1
    <3>2. \A n \in 0..MaxSize : 1 <= n + 1
      BY SatfConstants
    <3>3. 1 <= max_size' + 1
      BY <3>2, <1>4, Zenon
    <3>4. 0 = 1 - 1
      OBVIOUS
    <3> QED BY <3>1, <3>3, <3>4, Zenon
  <2> QED BY <1>2, <1>4, <2>1, <2>2, <2>3 DEF MainInv
<1> QED BY <1>5, <1>6, <1>7, <1>8 DEF SatfInv

LEMMA GrowInv ==
  ASSUME SatfInv, Grow
  PROVE  SatfInv'
<1>1. /\ main = "growing" /\ i <= max_size /\ data' = data + 1
      /\ IF i < min_size THEN i' = i + 1 /\ main' = main
                         ELSE main' = "scheduling" /\ i' = i
      /\ UNCHANGED <<min_size, max_size, threads, next>>
      /\ UNCHANGED <<workerVars, log, lost, running, done>>
      /\ UNCHANGED <<arrived, phase, Pending>>
  BY DEF Grow, poolVars, Pending
<1>2. /\ i \in Nat /\ max_size \in 0..MaxSize /\ min_size \in Nat /\ MaxSize \in Nat
      /\ min_size <= max_size /\ next = <<1, 1>> /\ data = i - 1 /\ phase = "open"
      /\ 1 <= i
      /\ \A m \in Measurement :
           m \in Pending \cup running \cup done <=> WasScheduled(m)
  BY <1>1, SatfConstants DEF SatfInv, SatfTypeOK, MainInv
<1>3. i' \in 1..MaxSize + 1 /\ data' \in 0..MaxSize
  BY <1>1, <1>2
<1>4. SatfTypeOK'
  BY <1>1, <1>3 DEF SatfInv, SatfTypeOK, workerVars
<1>5. PlacesInv'
  BY <1>1 DEF SatfInv, PlacesInv
<1>6. WorkersInv' /\ LogInv'
  BY <1>1, WorkersUnchanged DEF SatfInv
<1>7. MainInv'
  <2>1. \A f : ~Before(f)'
    <3> SUFFICES ASSUME NEW f, NEW k \in DOMAIN DataNames, NEW l \in DOMAIN Algorithms,
                        \/ k < next[1]
                        \/ k = next[1] /\ l < next[2]
                 PROVE  FALSE
      BY <1>1 DEF Before
    <3> QED BY <1>2, SatfConstants
  <2>2. \A m \in Measurement : WasScheduled(m)' <=> WasScheduled(m)
    <3> SUFFICES ASSUME NEW m \in Measurement
                 PROVE  WasScheduled(m)' <=> WasScheduled(m)
      OBVIOUS
    <3>1. m.size \in Nat
      BY SatfConstants
    <3>2. WasScheduled(m)' <=>
            m.size > 0 /\ min_size <= m.size /\ m.size <= max_size /\ m.size < i'
      BY <1>1, <2>1 DEF WasScheduled
    <3>3. WasScheduled(m) <=>
            m.size > 0 /\ min_size <= m.size /\ m.size <= max_size /\ m.size < i
      BY <1>1 DEF WasScheduled
    <3> QED BY <1>1, <1>2, <3>1, <3>2, <3>3
  <2>3. /\ i' <= max_size' + 1
        /\ main' = "growing" => data' = i' - 1
        /\ main' = "scheduling" => data' = i' /\ min_size' <= i' /\ i' <= max_size'
        /\ main' \in {"growing", "scheduling"}
    BY <1>1, <1>2
  <2> QED BY <1>1, <1>2, <2>2, <2>3 DEF MainInv
<1> QED BY <1>4, <1>5, <1>6, <1>7 DEF SatfInv

(* One more call of schedule: Before holds for one more file, and for none *)
(* when the loops begin the next size.                                     *)
LEMMA ScheduleNextInv ==
  ASSUME SatfInv, ScheduleNext
  PROVE  SatfInv'
<1> DEFINE D == Len(DataNames)
           A == Len(Algorithms)
<1>1. /\ main = "scheduling" /\ Pool!Accept(Bound)
      /\ UNCHANGED <<min_size, max_size, threads, data>>
      /\ UNCHANGED <<workerVars, log, lost>>
  BY DEF ScheduleNext
<1>2. /\ i \in Nat /\ max_size \in 0..MaxSize /\ min_size \in Nat /\ MaxSize \in Nat
      /\ min_size <= i /\ i <= max_size /\ min_size <= max_size
      /\ data = i /\ phase = "open" /\ 1 <= i
      /\ \A m \in Measurement :
           m \in Pending \cup running \cup done <=> WasScheduled(m)
  BY <1>1, SatfConstants DEF SatfInv, SatfTypeOK, MainInv
<1>3. next \in (1..D) \X (1..A) /\ D \in Nat /\ A \in Nat /\ 1 <= D /\ 1 <= A
  BY SatfConstants DEF SatfInv, SatfTypeOK
<1>4. /\ next[1] \in 1..D /\ next[2] \in 1..A /\ next = <<next[1], next[2]>>
  BY <1>3
<1>5. Bound \in Measurement /\ Bound.size = i
      /\ Bound.file = <<DataNames[next[1]], Algorithms[next[2]]>>
  <2>1. <<DataNames[next[1]], Algorithms[next[2]]>> \in Files
    BY <1>4, SatfConstants
  <2> QED BY <1>2, <2>1 DEF Bound, Measurement
<1>6. /\ PlacesInv'
      /\ Pending' = Pending \cup {Bound}
      /\ UNCHANGED <<running, done, phase>>
  BY <1>1, <1>5, AcceptStep DEF SatfInv
<1>7. WorkersInv' /\ LogInv'
  BY <1>1, <1>6, WorkersUnchanged DEF SatfInv
<1>8. \A m \in Measurement :
        /\ m.size \in Nat
        /\ m = Bound <=> m.size = i /\ m.file = Bound.file
  <2>1. \A m \in Measurement : m = [file |-> m.file, size |-> m.size]
    BY DEF Measurement
  <2>2. \A m \in Measurement : m.size \in Nat
    BY SatfConstants
  <2> QED BY <1>5, <2>1, <2>2
<1>9. \A f \in Files : \E k \in 1..D, l \in 1..A : f = <<DataNames[k], Algorithms[l]>>
  BY SatfConstants
<1>10. \A f : Before(f) <=>
         \E k \in 1..D, l \in 1..A :
           /\ f = <<DataNames[k], Algorithms[l]>>
           /\ \/ k < next[1]
              \/ k = next[1] /\ l < next[2]
  BY SatfConstants DEF Before
<1>11. \A f : Before(f)' <=>
         \E k \in 1..D, l \in 1..A :
           /\ f = <<DataNames[k], Algorithms[l]>>
           /\ \/ k < next'[1]
              \/ k = next'[1] /\ l < next'[2]
  BY SatfConstants DEF Before
(* The loops go on for this size.                                          *)
<1>12. CASE /\ main' = main /\ i' = i
            /\ \/ next[2] < A /\ next' = <<next[1], next[2] + 1>>
               \/ next[2] = A /\ next[1] < D /\ next' = <<next[1] + 1, 1>>
  <2>1. next' \in (1..D) \X (1..A)
    BY <1>12, <1>3, <1>4
  <2>2. SatfTypeOK'
    <3>1. next' \in (DOMAIN DataNames) \X (DOMAIN Algorithms)
      BY <2>1, SatfConstants
    <3> QED BY <1>1, <1>6, <1>12, <3>1 DEF SatfInv, SatfTypeOK, workerVars
  <2>3. \A k \in 1..D, l \in 1..A :
          (k < next'[1] \/ (k = next'[1] /\ l < next'[2]))
            <=> \/ k < next[1]
                \/ k = next[1] /\ l < next[2]
                \/ k = next[1] /\ l = next[2]
    BY <1>12, <1>3, <1>4
  <2>4. \A f : Before(f)' <=> Before(f) \/ f = Bound.file
    <3>1. \A f : f = Bound.file <=>
            \E k \in 1..D, l \in 1..A :
              f = <<DataNames[k], Algorithms[l]>> /\ k = next[1] /\ l = next[2]
      BY <1>4, <1>5
    <3> HIDE DEF D, A
    <3> QED BY <1>10, <1>11, <2>3, <3>1
  <2>5. \A m \in Measurement : WasScheduled(m)' <=> WasScheduled(m) \/ m = Bound
    <3> SUFFICES ASSUME NEW m \in Measurement
                 PROVE  WasScheduled(m)' <=> WasScheduled(m) \/ m = Bound
      OBVIOUS
    <3>1. WasScheduled(m)' <=>
            /\ m.size > 0 /\ min_size <= m.size /\ m.size <= max_size
            /\ \/ m.size < i
               \/ m.size = i /\ (Before(m.file) \/ m.file = Bound.file)
      BY <1>1, <1>12, <2>4 DEF WasScheduled
    <3>2. WasScheduled(m) <=>
            /\ m.size > 0 /\ min_size <= m.size /\ m.size <= max_size
            /\ m.size < i \/ (m.size = i /\ Before(m.file))
      BY <1>1 DEF WasScheduled
    <3>3. m = Bound <=> m.size = i /\ m.file = Bound.file
      BY <1>8
    <3>4. m.size = i => m.size > 0 /\ min_size <= m.size /\ m.size <= max_size
      BY <1>2
    <3> QED BY <3>1, <3>2, <3>3, <3>4
  <2>6. MainInv'
    <3>1. \A m \in Measurement :
            m \in (Pending \cup running \cup done)' <=> WasScheduled(m)'
      BY <1>2, <1>6, <2>5
    <3> QED BY <1>1, <1>2, <1>6, <1>12, <3>1 DEF MainInv
  <2> QED BY <1>6, <1>7, <2>2, <2>6 DEF SatfInv
(* All calls for this size have been made.                                 *)
<1>13. CASE next = <<D, A>> /\ next' = <<1, 1>> /\ i' = i + 1 /\ main' = "growing"
  <2>1. SatfTypeOK'
    <3>1. next' \in (DOMAIN DataNames) \X (DOMAIN Algorithms)
      BY <1>3, <1>13, SatfConstants
    <3>2. i' \in 1..MaxSize + 1
      BY <1>2, <1>13
    <3> QED BY <1>1, <1>6, <1>13, <3>1, <3>2 DEF SatfInv, SatfTypeOK, workerVars
  <2>2. \A f \in Files : Before(f) \/ f = Bound.file
    <3> SUFFICES ASSUME NEW f \in Files PROVE Before(f) \/ f = Bound.file
      OBVIOUS
    <3>1. PICK k \in 1..D, l \in 1..A : f = <<DataNames[k], Algorithms[l]>>
      BY <1>9
    <3>2. next[1] = D /\ next[2] = A
      BY <1>13
    <3>3. CASE k = D /\ l = A
      BY <3>1, <3>2, <3>3, <1>5
    <3>4. CASE ~(k = D /\ l = A)
      <4>1. k < D \/ (k = D /\ l < A)
        BY <3>4, <1>3
      <4> QED BY <1>10, <3>1, <3>2, <4>1
    <3> QED BY <3>3, <3>4
  <2>3. \A m \in Measurement : WasScheduled(m)' <=> WasScheduled(m) \/ m = Bound
    <3> SUFFICES ASSUME NEW m \in Measurement
                 PROVE  WasScheduled(m)' <=> WasScheduled(m) \/ m = Bound
      OBVIOUS
    <3>1. WasScheduled(m)' <=>
            m.size > 0 /\ min_size <= m.size /\ m.size <= max_size /\ m.size < i + 1
      BY <1>1, <1>13 DEF WasScheduled
    <3>2. WasScheduled(m) <=>
            /\ m.size > 0 /\ min_size <= m.size /\ m.size <= max_size
            /\ m.size < i \/ (m.size = i /\ Before(m.file))
      BY <1>1 DEF WasScheduled
    <3>3. m = Bound <=> m.size = i /\ m.file = Bound.file
      BY <1>8
    <3>4. Before(m.file) \/ m.file = Bound.file
      BY <2>2, SatfConstants
    <3>5. /\ m.size = i => m.size > 0 /\ min_size <= m.size /\ m.size <= max_size
          /\ m.size < i + 1 <=> m.size < i \/ m.size = i
      BY <1>2, <1>8
    <3> QED BY <3>1, <3>2, <3>3, <3>4, <3>5
  <2>4. MainInv'
    <3>1. \A m \in Measurement :
            m \in (Pending \cup running \cup done)' <=> WasScheduled(m)'
      BY <1>2, <1>6, <2>3
    <3>2. i' <= max_size' + 1 /\ data' = i' - 1
      BY <1>1, <1>2, <1>13
    <3> QED BY <1>1, <1>2, <1>6, <1>13, <3>1, <3>2 DEF MainInv
  <2> QED BY <1>6, <1>7, <2>1, <2>4 DEF SatfInv
<1> QED BY <1>12, <1>13 DEF ScheduleNext

LEMMA LeaveInv ==
  ASSUME SatfInv, LeaveMain \/ AwaitPool
  PROVE  SatfInv'
<1>1. /\ \/ main = "growing" /\ i > max_size /\ data' = 0 /\ main' = "destroying"
            /\ phase' = "draining"
         \/ main = "destroying" /\ data' = data /\ main' = "returned"
            /\ phase' = "terminated"
      /\ PlacesInv'
      /\ UNCHANGED <<arrived, running, done, Pending>>
  <2>1. CASE LeaveMain
    BY <2>1, DestroySteps DEF LeaveMain, SatfInv
  <2>2. CASE AwaitPool
    BY <2>2, DestroySteps DEF AwaitPool, SatfInv
  <2> QED BY <2>1, <2>2
<1>2. UNCHANGED <<min_size, max_size, threads, i, next, workerVars, log, lost>>
  BY DEF LeaveMain, AwaitPool
<1>3. SatfTypeOK'
  <2>1. data' \in 0..MaxSize
    BY <1>1, SatfConstants DEF SatfInv, SatfTypeOK
  <2> QED BY <1>1, <1>2, <2>1 DEF SatfInv, SatfTypeOK, workerVars
<1>4. WorkersInv' /\ LogInv'
  BY <1>1, <1>2, WorkersUnchanged DEF SatfInv
<1>5. MainInv'
  <2>1. /\ min_size <= max_size /\ i <= max_size + 1
        /\ main = "destroying" => i = max_size + 1
        /\ \A m \in Measurement :
             m \in Pending \cup running \cup done <=> WasScheduled(m)
    BY <1>1 DEF SatfInv, MainInv
  <2>2. \A m : WasScheduled(m)' <=> WasScheduled(m)
    BY <1>1, <1>2 DEF WasScheduled, Before
  <2>3. i' = max_size' + 1
    BY <1>1, <1>2, <2>1, SatfConstants DEF SatfInv, SatfTypeOK
  <2> QED BY <1>1, <1>2, <2>1, <2>2, <2>3 DEF MainInv
<1> QED BY <1>1, <1>3, <1>4, <1>5 DEF SatfInv

-----------------------------------------------------------------------------
(* The steps of the workers.                                               *)

(* The executing workers hold a measurement each.                          *)
LEMMA Holds ==
  ASSUME SatfInv, NEW w \in Workers, wpc[w] # "idle"
  PROVE  /\ current[w] \in running /\ current[w] \in Measurement
         /\ current[w] \notin done /\ current[w] \notin Pending
         /\ \A v \in Workers : v # w /\ wpc[v] # "idle" => current[v] # current[w]
BY DEF SatfInv, PlacesInv, WorkersInv

LEMMA LogUnchanged ==
  ASSUME LogInv, UNCHANGED <<log, lost, done>>, NEW w \in Workers,
         wpc[w] # "finishing", wpc'[w] # "finishing",
         \A v \in Workers \ {w} : wpc'[v] = wpc[v] /\ current'[v] = current[v]
  PROVE  LogInv'
<1>1. \A m : Finishing(m)' <=> Finishing(m)
  BY DEF Finishing
<1>2. \A m : Recorded(m)' <=> Recorded(m)
  BY DEF Recorded, SizesIn
<1> QED BY <1>1, <1>2 DEF LogInv, CountsBelongToLines

LEMMA FetchInv ==
  ASSUME SatfInv, NEW w \in Workers, Fetch(w)
  PROVE  SatfInv'
<1>1. /\ wpc[w] = "idle" /\ Pool!Start
      /\ wpc' = [wpc EXCEPT ![w] = "sorting"]
      /\ UNCHANGED <<mainVars, s_count, counted, log, lost>>
  BY DEF Fetch
<1>2. PICK t \in running' \ running : current' = [current EXCEPT ![w] = t]
  BY DEF Fetch
<1>3. /\ PlacesInv'
      /\ UNCHANGED <<done, phase>>
      /\ arrived[1] \in Measurement /\ arrived[1] \in Pending
      /\ running' = running \cup {arrived[1]}
      /\ Pending' = Pending \ {arrived[1]}
  BY <1>1, StartStep DEF SatfInv
<1>4. t = arrived[1]
  BY <1>2, <1>3
<1>5. /\ wpc'[w] = "sorting" /\ current'[w] = t
      /\ \A v \in Workers \ {w} : wpc'[v] = wpc[v] /\ current'[v] = current[v]
  BY <1>1, <1>2 DEF SatfInv, SatfTypeOK
<1>6. UNCHANGED <<s_count, counted, log, lost>>
  BY <1>1
<1>7. SatfTypeOK'
  <2>1. current' \in [Workers -> Measurement \cup {NoMeasurement}]
    BY <1>2, <1>3, <1>4 DEF SatfInv, SatfTypeOK
  <2>2. running' \subseteq Measurement
    BY <1>3 DEF PlacesInv
  <2> QED BY <1>1, <2>1, <2>2 DEF SatfInv, SatfTypeOK, mainVars
<1>8. WorkersInv'
  <2>1. ASSUME NEW v \in Workers
        PROVE  /\ wpc'[v] # "idle" => current'[v] \in running'
               /\ IF wpc'[v] = "counting" THEN s_count'[v] = ComparisonsOf(current'[v])
                                          ELSE s_count'[v] \in {0, Unset}
               /\ wpc'[v] = "logging" => counted'[v] = ComparisonsOf(current'[v])
    <3>1. CASE v = w
      BY <3>1, <1>1, <1>3, <1>4, <1>5, <1>6 DEF SatfInv, WorkersInv
    <3>2. CASE v # w
      BY <3>2, <1>3, <1>5, <1>6 DEF SatfInv, WorkersInv
    <3> QED BY <3>1, <3>2
  <2>2. ASSUME NEW u \in Workers, NEW v \in Workers, u # v,
               wpc'[u] # "idle", wpc'[v] # "idle"
        PROVE  current'[u] # current'[v]
    <3>1. \A x \in Workers \ {w} : wpc'[x] # "idle" => current'[x] \in running
      BY <1>5 DEF SatfInv, WorkersInv
    <3>2. current'[w] \notin running
      BY <1>2, <1>5
    <3>3. CASE u # w /\ v # w
      BY <2>2, <3>3, <1>5 DEF SatfInv, WorkersInv
    <3> QED BY <2>2, <3>1, <3>2, <3>3
  <2>3. \A m : ComparisonsOf(m)' = ComparisonsOf(m)
    BY DEF ComparisonsOf
  <2> QED BY <2>1, <2>2, <2>3 DEF WorkersInv, ComparisonsOf
<1>9. LogInv'
  BY <1>1, <1>3, <1>5, <1>6, LogUnchanged DEF SatfInv
<1>10. MainInv'
  BY <1>1, <1>3, MainUnchanged DEF SatfInv
<1> QED BY <1>3, <1>7, <1>8, <1>9, <1>10 DEF SatfInv

(* Sorting and counting: the counter is at zero before and after.          *)
LEMMA CountingInv ==
  ASSUME SatfInv, NEW w \in Workers, Sort(w) \/ Count(w)
  PROVE  SatfInv'
<1>1. UNCHANGED <<mainVars, current, log, lost, poolVars>>
  BY DEF Sort, Count
<1>2. UNCHANGED <<arrived, running, done, phase, Pending>>
  BY <1>1 DEF poolVars, Pending
<1>3. /\ wpc \in [Workers -> {"idle", "sorting", "counting", "logging", "finishing"}]
      /\ s_count \in [Workers -> Nat \cup {Unset}]
      /\ counted \in [Workers -> Nat]
  BY DEF SatfInv, SatfTypeOK
<1>4. wpc[w] # "idle" /\ current[w] \in Measurement /\ ComparisonsOf(current[w]) \in Nat
  <2>1. wpc[w] # "idle"
    BY DEF Sort, Count
  <2> QED BY <2>1, Holds, SatfConstants
<1>5. /\ \/ /\ wpc[w] = "sorting" /\ wpc'[w] = "counting"
            /\ s_count'[w] = ComparisonsOf(current[w])
            /\ counted'[w] = counted[w]
         \/ /\ wpc[w] = "counting" /\ wpc'[w] = "logging"
            /\ s_count'[w] = 0
            /\ counted'[w] = ComparisonsOf(current[w])
      /\ \A v \in Workers \ {w} :
           wpc'[v] = wpc[v] /\ s_count'[v] = s_count[v] /\ counted'[v] = counted[v]
      /\ wpc' \in [Workers -> {"idle", "sorting", "counting", "logging", "finishing"}]
      /\ s_count' \in [Workers -> Nat \cup {Unset}]
      /\ counted' \in [Workers -> Nat]
  <2>1. CASE Sort(w)
    <3> DEFINE before == IF s_count[w] = Unset THEN 0 ELSE s_count[w]
               total  == before + ComparisonsOf(current[w])
    <3>1. /\ wpc[w] = "sorting" /\ wpc' = [wpc EXCEPT ![w] = "counting"]
          /\ s_count' = [s_count EXCEPT ![w] = total]
          /\ counted' = counted
      BY <2>1 DEF Sort, ComparisonsOf
    <3>2. before = 0
      BY <3>1 DEF SatfInv, WorkersInv
    <3> HIDE DEF before
    <3>3. total = ComparisonsOf(current[w])
      BY <1>4, <3>2
    <3> HIDE DEF total
    <3> QED BY <1>3, <1>4, <3>1, <3>3
  <2>2. CASE Count(w)
    <3>1. /\ wpc[w] = "counting" /\ wpc' = [wpc EXCEPT ![w] = "logging"]
          /\ counted' = [counted EXCEPT ![w] = s_count[w]]
          /\ s_count' = [s_count EXCEPT ![w] = 0]
      BY <2>2 DEF Count
    <3>2. s_count[w] = ComparisonsOf(current[w])
      BY <3>1 DEF SatfInv, WorkersInv
    <3> QED BY <1>3, <1>4, <3>1, <3>2
  <2> QED BY <2>1, <2>2
<1>6. SatfTypeOK'
  BY <1>1, <1>2, <1>5 DEF SatfInv, SatfTypeOK, mainVars
<1>7. PlacesInv'
  BY <1>2 DEF SatfInv, PlacesInv
<1>8. WorkersInv'
  <2>1. ASSUME NEW v \in Workers
        PROVE  /\ wpc'[v] # "idle" => current[v] \in running
               /\ IF wpc'[v] = "counting" THEN s_count'[v] = ComparisonsOf(current[v])
                                          ELSE s_count'[v] \in {0, Unset}
               /\ wpc'[v] = "logging" => counted'[v] = ComparisonsOf(current[v])
    BY <1>4, <1>5 DEF SatfInv, WorkersInv
  <2>2. \A v \in Workers : wpc'[v] # "idle" => wpc[v] # "idle"
    BY <1>4, <1>5
  <2>3. UNCHANGED <<current, running>>
    BY <1>1, <1>2
  <2> QED BY <2>1, <2>2, <2>3 DEF SatfInv, WorkersInv, ComparisonsOf
<1>9. LogInv'
  BY <1>1, <1>2, <1>5, LogUnchanged DEF SatfInv
<1>10. MainInv'
  BY <1>1, <1>2, MainUnchanged DEF SatfInv
<1> QED BY <1>6, <1>7, <1>8, <1>9, <1>10 DEF SatfInv

(* What Log and LogFails have in common: w goes on to finish.              *)
LEMMA LoggedInv ==
  ASSUME SatfInv, NEW w \in Workers, wpc[w] = "logging",
         wpc' = [wpc EXCEPT ![w] = "finishing"],
         UNCHANGED <<mainVars, current, s_count, counted, poolVars>>
  PROVE  /\ PlacesInv' /\ WorkersInv' /\ MainInv'
         /\ wpc' \in [Workers -> {"idle", "sorting", "counting", "logging", "finishing"}]
         /\ \A m : Finishing(m)' <=> Finishing(m) \/ m = current[w]
         /\ current[w] \in Measurement
         /\ current[w] \notin done
         /\ ~Finishing(current[w])
         /\ counted[w] = ComparisonsOf(current[w])
<1>1. UNCHANGED <<arrived, running, done, phase, Pending>>
  BY DEF poolVars, Pending
<1>2. wpc \in [Workers -> {"idle", "sorting", "counting", "logging", "finishing"}]
  BY DEF SatfInv, SatfTypeOK
<1>3. /\ wpc'[w] = "finishing"
      /\ \A v \in Workers \ {w} : wpc'[v] = wpc[v]
  BY <1>2
<1>4. /\ current[w] \in Measurement /\ current[w] \notin done
      /\ \A v \in Workers : v # w /\ wpc[v] # "idle" => current[v] # current[w]
  BY Holds
<1>5. \A m : Finishing(m)' <=> Finishing(m) \/ m = current[w]
  BY <1>3 DEF Finishing
<1>6. ~Finishing(current[w])
  BY <1>4 DEF Finishing
<1>7. counted[w] = ComparisonsOf(current[w])
  BY DEF SatfInv, WorkersInv
<1>8. PlacesInv'
  BY <1>1 DEF SatfInv, PlacesInv
<1>9. WorkersInv'
  <2>1. ASSUME NEW v \in Workers
        PROVE  /\ wpc'[v] # "idle" => wpc[v] # "idle"
               /\ wpc'[v] = "counting" <=> wpc[v] = "counting"
               /\ wpc'[v] = "logging" => wpc[v] = "logging"
    BY <1>3
  <2>2. UNCHANGED <<current, s_count, counted, running>>
    BY <1>1
  <2> QED BY <2>1, <2>2 DEF SatfInv, WorkersInv, ComparisonsOf
<1>10. MainInv'
  BY <1>1, MainUnchanged DEF SatfInv
<1>11. wpc' \in [Workers -> {"idle", "sorting", "counting", "logging", "finishing"}]
  BY <1>2
<1> QED BY <1>4, <1>5, <1>6, <1>7, <1>8, <1>9, <1>10, <1>11

(* The line of w is the first for its measurement, and has its count.      *)
LEMMA LogStepInv ==
  ASSUME SatfInv, NEW w \in Workers, Log(w)
  PROVE  SatfInv'
<1> DEFINE m0   == current[w]
           line == Line(w)
<1>1. /\ wpc[w] = "logging" /\ wpc' = [wpc EXCEPT ![w] = "finishing"]
      /\ log' = [log EXCEPT ![m0.file] = Append(log[m0.file], line)]
      /\ UNCHANGED <<mainVars, current, s_count, counted, lost, poolVars>>
  BY DEF Log, Written
<1>2. /\ PlacesInv' /\ WorkersInv' /\ MainInv'
      /\ wpc' \in [Workers -> {"idle", "sorting", "counting", "logging", "finishing"}]
      /\ \A m : Finishing(m)' <=> Finishing(m) \/ m = m0
      /\ m0 \in Measurement /\ m0 \notin done /\ ~Finishing(m0)
      /\ counted[w] = ComparisonsOf(m0)
  BY <1>1, LoggedInv
<1>3. /\ ~Recorded(m0) /\ m0 \notin lost
      /\ m0.file \in Files /\ m0.size \in 0..MaxSize
  BY <1>2, SatfConstants DEF SatfInv, LogInv
<1>4. UNCHANGED <<lost, done, running>>
  BY <1>1 DEF poolVars
<1> DEFINE Lines == [size : 0..MaxSize, comparisons : Nat]
<1>5. /\ log \in [Files -> Seq(Lines)]
      /\ line \in Lines /\ line.size = m0.size /\ line.comparisons = ComparisonsOf(m0)
  <2>1. counted[w] \in Nat
    BY DEF SatfInv, SatfTypeOK
  <2> QED BY <2>1, <1>2, <1>3 DEF SatfInv, SatfTypeOK, Line
<1> HIDE DEF line, Lines, m0
<1>6. \A f \in Files :
        /\ log[f] \in Seq(Lines) /\ Len(log[f]) \in Nat
        /\ DOMAIN log[f] = 1..Len(log[f])
  BY <1>5, LenProperties
<1> DEFINE old == log[m0.file]
           new == log'[m0.file]
<1>7. /\ new \in Seq(Lines)
      /\ DOMAIN old = 1..Len(old) /\ DOMAIN new = 1..Len(old) + 1 /\ Len(old) \in Nat
      /\ \A k \in 1..Len(old) : new[k] = old[k]
      /\ new[Len(old) + 1] = line
  <2>1. old \in Seq(Lines) /\ new = Append(old, line)
    BY <1>1, <1>3, <1>5, <1>6
  <2> HIDE DEF old, new
  <2>2. /\ new \in Seq(Lines) /\ Len(new) = Len(old) + 1
        /\ \A k \in 1..Len(old) : new[k] = old[k]
        /\ new[Len(old) + 1] = line
    BY <2>1, <1>5, AppendProperties
  <2> QED BY <2>1, <2>2, LenProperties
<1>8. \A f \in Files : f # m0.file => log'[f] = log[f]
  BY <1>1, <1>5
<1>9. log' \in [Files -> Seq(Lines)]
  <2>1. log' = [log EXCEPT ![m0.file] = new]
    BY <1>1, <1>3, <1>5
  <2> HIDE DEF new
  <2> QED BY <2>1, <1>5, <1>7
<1>10. SatfTypeOK'
  BY <1>1, <1>2, <1>4, <1>9 DEF SatfInv, SatfTypeOK, mainVars, Lines
<1> HIDE DEF old, new
<1>11. \A k \in DOMAIN old : new[k] = old[k] /\ k \in DOMAIN new
  BY <1>7
<1>12. \A k \in DOMAIN new : k \in DOMAIN old \/ (k = Len(old) + 1 /\ new[k] = line)
  BY <1>7
<1>13. /\ \A k \in DOMAIN old : old[k].comparisons = Comparisons[<<m0.file, old[k].size>>]
       /\ \A k, l \in DOMAIN old : old[k].size = old[l].size => k = l
       /\ \A k \in DOMAIN old : old[k].size # m0.size
  <2>1. SizesIn(m0.file) = {old[k].size : k \in DOMAIN old}
    BY DEF SizesIn, old
  <2>2. \A k \in DOMAIN old : old[k].size # m0.size
    BY <1>3, <2>1 DEF Recorded
  <2> QED BY <1>3, <2>2 DEF SatfInv, LogInv, CountsBelongToLines, old
<1>14. CountsBelongToLines'
  <2> SUFFICES ASSUME NEW f \in Files, NEW k \in DOMAIN log'[f]
               PROVE  log'[f][k].comparisons = Comparisons[<<f, log'[f][k].size>>]
    BY DEF CountsBelongToLines
  <2>1. CASE f # m0.file
    BY <2>1, <1>8 DEF SatfInv, LogInv, CountsBelongToLines
  <2>2. CASE f = m0.file
    <3>1. log'[f] = new
      BY <2>2 DEF new
    <3>2. new[k].comparisons = Comparisons[<<m0.file, new[k].size>>]
      BY <3>1, <1>5, <1>11, <1>12, <1>13 DEF ComparisonsOf
    <3> QED BY <2>2, <3>1, <3>2
  <2> QED BY <2>1, <2>2
<1>15. ASSUME NEW f \in Files, NEW k \in DOMAIN log'[f], NEW l \in DOMAIN log'[f],
              log'[f][k].size = log'[f][l].size
       PROVE  k = l
  <2>1. CASE f # m0.file
    BY <2>1, <1>8, <1>15 DEF SatfInv, LogInv
  <2>2. CASE f = m0.file
    <3>1. log'[f] = new
      BY <2>2 DEF new
    <3> QED BY <3>1, <1>5, <1>11, <1>12, <1>13, <1>15
  <2> QED BY <2>1, <2>2
<1>16. \A f \in Files :
         SizesIn(f)' = IF f = m0.file THEN SizesIn(f) \cup {m0.size} ELSE SizesIn(f)
  <2> SUFFICES ASSUME NEW f \in Files
               PROVE  SizesIn(f)' = IF f = m0.file THEN SizesIn(f) \cup {m0.size}
                                                   ELSE SizesIn(f)
    OBVIOUS
  <2>1. CASE f # m0.file
    BY <2>1, <1>8 DEF SizesIn
  <2>2. CASE f = m0.file
    <3>1. SizesIn(f) = {old[k].size : k \in DOMAIN old}
      BY <2>2 DEF SizesIn, old
    <3>2. SizesIn(f)' = {new[k].size : k \in DOMAIN new}
      BY <2>2, <1>4 DEF SizesIn, new
    <3>3. Len(old) + 1 \in DOMAIN new /\ new[Len(old) + 1].size = m0.size
      BY <1>5, <1>7
    <3>4. \A k \in DOMAIN new : k \in DOMAIN old \/ new[k].size = m0.size
      BY <1>5, <1>12
    <3> QED BY <2>2, <3>1, <3>2, <3>3, <3>4, <1>11
  <2> QED BY <2>1, <2>2
<1>17. \A m \in Measurement : Recorded(m)' <=> Recorded(m) \/ m = m0
  <2> SUFFICES ASSUME NEW m \in Measurement
               PROVE  Recorded(m)' <=> Recorded(m) \/ m = m0
    OBVIOUS
  <2>1. m = m0 <=> m.file = m0.file /\ m.size = m0.size
    BY <1>2 DEF Measurement
  <2>2. m.file \in Files
    BY SatfConstants
  <2> QED BY <2>1, <2>2, <1>16 DEF Recorded
<1>18. LogInv'
  <2>1. /\ \A m \in Measurement :
             Recorded(m) \/ m \in lost <=> m \in done \/ Finishing(m)
        /\ \A m \in lost : ~Recorded(m)
        /\ lost \subseteq Measurement
    BY DEF SatfInv, LogInv, SatfTypeOK
  <2>2. \A m \in Measurement :
          (Recorded(m) \/ m \in lost <=> m \in done \/ Finishing(m))'
    BY <2>1, <1>2, <1>4, <1>17
  <2>3. (\A m \in lost : ~Recorded(m))'
    BY <2>1, <1>3, <1>4, <1>17
  <2> QED BY <1>14, <1>15, <2>2, <2>3 DEF LogInv
<1> QED BY <1>2, <1>10, <1>18 DEF SatfInv

LEMMA LogFailsInv ==
  ASSUME SatfInv, NEW w \in Workers, LogFails(w)
  PROVE  SatfInv'
<1> DEFINE m0 == current[w]
<1>1. /\ wpc[w] = "logging" /\ wpc' = [wpc EXCEPT ![w] = "finishing"]
      /\ lost' = lost \cup {m0}
      /\ UNCHANGED <<mainVars, current, s_count, counted, log, poolVars>>
  BY DEF LogFails
<1>2. /\ PlacesInv' /\ WorkersInv' /\ MainInv'
      /\ wpc' \in [Workers -> {"idle", "sorting", "counting", "logging", "finishing"}]
      /\ \A m : Finishing(m)' <=> Finishing(m) \/ m = m0
      /\ m0 \in Measurement /\ m0 \notin done /\ ~Finishing(m0)
  BY <1>1, LoggedInv
<1> HIDE DEF m0
<1>3. ~Recorded(m0)
  BY <1>2 DEF SatfInv, LogInv
<1>4. UNCHANGED <<done, running>>
  BY <1>1 DEF poolVars
<1>5. SatfTypeOK'
  BY <1>1, <1>2, <1>4 DEF SatfInv, SatfTypeOK, mainVars
<1>6. \A m : Recorded(m)' <=> Recorded(m)
  BY <1>1 DEF Recorded, SizesIn
<1>7. LogInv'
  <2>1. /\ \A m \in Measurement :
             Recorded(m) \/ m \in lost <=> m \in done \/ Finishing(m)
        /\ \A m \in lost : ~Recorded(m)
        /\ CountsBelongToLines
        /\ \A f \in Files : \A k, l \in DOMAIN log[f] :
             log[f][k].size = log[f][l].size => k = l
    BY DEF SatfInv, LogInv
  <2>2. \A m \in Measurement :
          (Recorded(m) \/ m \in lost <=> m \in done \/ Finishing(m))'
    BY <2>1, <1>1, <1>2, <1>4, <1>6
  <2>3. (\A m \in lost : ~Recorded(m))'
    BY <2>1, <1>1, <1>3, <1>6
  <2> QED BY <1>1, <2>1, <2>2, <2>3 DEF LogInv, CountsBelongToLines
<1> QED BY <1>2, <1>5, <1>7 DEF SatfInv

LEMMA LogThrowsInv ==
  ASSUME SatfInv, NEW w \in Workers, LogThrows(w)
  PROVE  SatfInv'
<1>1. /\ main' = "aborted"
      /\ UNCHANGED <<min_size, max_size, threads, i, next, data>>
      /\ UNCHANGED <<workerVars, log, lost, running, done>>
      /\ UNCHANGED <<arrived, phase, Pending>>
  BY DEF LogThrows, poolVars, Pending
<1>2. SatfTypeOK'
  BY <1>1 DEF SatfInv, SatfTypeOK, workerVars
<1>3. PlacesInv'
  BY <1>1 DEF SatfInv, PlacesInv
<1>4. WorkersInv' /\ LogInv'
  BY <1>1, WorkersUnchanged DEF SatfInv
<1>5. MainInv'
  BY <1>1 DEF MainInv
<1> QED BY <1>2, <1>3, <1>4, <1>5 DEF SatfInv

LEMMA FinishTaskInv ==
  ASSUME SatfInv, NEW w \in Workers, FinishTask(w)
  PROVE  SatfInv'
<1> DEFINE m0 == current[w]
<1>1. /\ wpc[w] = "finishing" /\ Pool!Finish(m0)
      /\ wpc' = [wpc EXCEPT ![w] = "idle"]
      /\ current' = [current EXCEPT ![w] = NoMeasurement]
      /\ counted' = [counted EXCEPT ![w] = 0]
      /\ UNCHANGED <<mainVars, s_count, log, lost>>
  BY DEF FinishTask
<1>2. /\ PlacesInv'
      /\ m0 \in running
      /\ running' = running \ {m0}
      /\ done' = done \cup {m0}
      /\ Pending' = Pending
      /\ UNCHANGED <<arrived, phase>>
  BY <1>1, FinishStep DEF SatfInv
<1>3. \A v \in Workers : v # w /\ wpc[v] # "idle" => current[v] # m0
  BY <1>1, Holds
<1> HIDE DEF m0
<1>4. /\ wpc'[w] = "idle"
      /\ \A v \in Workers \ {w} :
           wpc'[v] = wpc[v] /\ current'[v] = current[v] /\ counted'[v] = counted[v]
  BY <1>1 DEF SatfInv, SatfTypeOK
<1>5. SatfTypeOK'
  <2>1. current' \in [Workers -> Measurement \cup {NoMeasurement}]
    BY <1>1 DEF SatfInv, SatfTypeOK
  <2>2. running' \subseteq Measurement
    BY <1>2 DEF PlacesInv
  <2> QED BY <1>1, <2>1, <2>2 DEF SatfInv, SatfTypeOK, mainVars
<1>6. WorkersInv'
  <2>1. ASSUME NEW v \in Workers
        PROVE  /\ wpc'[v] # "idle" => current'[v] \in running'
               /\ IF wpc'[v] = "counting" THEN s_count'[v] = ComparisonsOf(current'[v])
                                          ELSE s_count'[v] \in {0, Unset}
               /\ wpc'[v] = "logging" => counted'[v] = ComparisonsOf(current'[v])
    <3>0. s_count' = s_count
      BY <1>1
    <3>1. CASE v = w
      BY <3>0, <3>1, <1>1, <1>4 DEF SatfInv, WorkersInv
    <3>2. CASE v # w
      BY <3>0, <3>2, <1>2, <1>3, <1>4 DEF SatfInv, WorkersInv
    <3> QED BY <3>1, <3>2
  <2>2. ASSUME NEW u \in Workers, NEW v \in Workers, u # v,
               wpc'[u] # "idle", wpc'[v] # "idle"
        PROVE  current'[u] # current'[v]
    BY <2>2, <1>4 DEF SatfInv, WorkersInv
  <2> QED BY <2>1, <2>2 DEF WorkersInv, ComparisonsOf
<1>7. \A m : Finishing(m)' <=> Finishing(m) /\ m # m0
  <2>1. \A m : Finishing(m)' =>
          \E v \in Workers : v # w /\ wpc[v] = "finishing" /\ current[v] = m
    BY <1>4 DEF Finishing
  <2>2. \A m : Finishing(m)' => Finishing(m) /\ m # m0
    BY <2>1, <1>3 DEF Finishing
  <2>3. ASSUME NEW m, Finishing(m), m # m0
        PROVE  Finishing(m)'
    <3>1. PICK v \in Workers : wpc[v] = "finishing" /\ current[v] = m
      BY <2>3 DEF Finishing
    <3>2. v # w
      BY <2>3, <3>1 DEF m0
    <3> QED BY <3>1, <3>2, <1>4 DEF Finishing
  <2> QED BY <2>2, <2>3
<1>8. LogInv'
  <2>1. /\ \A m \in Measurement :
             Recorded(m) \/ m \in lost <=> m \in done \/ Finishing(m)
        /\ \A m \in lost : ~Recorded(m)
        /\ CountsBelongToLines
        /\ \A f \in Files : \A k, l \in DOMAIN log[f] :
             log[f][k].size = log[f][l].size => k = l
    BY DEF SatfInv, LogInv
  <2>2. UNCHANGED <<log, lost>> /\ Finishing(m0)
    BY <1>1 DEF Finishing, m0
  <2>3. \A m : Recorded(m)' <=> Recorded(m)
    BY <2>2 DEF Recorded, SizesIn
  <2>4. \A m \in Measurement :
          (Recorded(m) \/ m \in lost <=> m \in done \/ Finishing(m))'
    BY <2>1, <2>2, <2>3, <1>2, <1>7
  <2>5. (\A m \in lost : ~Recorded(m))'
    BY <2>1, <2>2, <2>3
  <2> QED BY <2>1, <2>2, <2>4, <2>5 DEF LogInv, CountsBelongToLines
<1>9. MainInv'
  <2>1. (Pending \cup running \cup done)' = Pending \cup running \cup done
    BY <1>2
  <2> QED BY <1>1, <1>2, <2>1, MainUnchanged DEF SatfInv
<1> QED BY <1>2, <1>5, <1>6, <1>8, <1>9 DEF SatfInv

-----------------------------------------------------------------------------
(* The invariance, and what is in the files.                               *)

LEMMA SatfInvInit == SatfInit => SatfInv
<1> SUFFICES ASSUME SatfInit PROVE SatfInv
  OBVIOUS
<1>1. /\ main = "starting" /\ min_size = 0 /\ max_size = 0 /\ threads = {}
      /\ i = 1 /\ next = <<1, 1>> /\ data = 0
      /\ wpc = [w \in Workers |-> "idle"]
      /\ current = [w \in Workers |-> NoMeasurement]
      /\ s_count = [w \in Workers |-> Unset]
      /\ counted = [w \in Workers |-> 0]
      /\ log = [f \in Files |-> <<>>] /\ lost = {}
      /\ arrived = <<>> /\ running = {} /\ done = {} /\ phase = "open"
  BY DEF SatfInit, Pool!TaskPoolInit
<1>2. Pending = {}
  BY <1>1 DEF Pending, ToSet
<1>3. SatfTypeOK
  <2>1. next \in (DOMAIN DataNames) \X (DOMAIN Algorithms)
    BY <1>1, SatfConstants
  <2> DEFINE Lines == [size : 0..MaxSize, comparisons : Nat]
  <2>2. <<>> \in Seq(Lines)
    BY EmptySeq
  <2> HIDE DEF Lines
  <2>3. log \in [Files -> Seq(Lines)]
    BY <1>1, <2>2
  <2>4. i \in 1..MaxSize + 1 /\ 0 \in 0..MaxSize
    BY <1>1, SatfConstants
  <2> QED BY <1>1, <2>1, <2>3, <2>4 DEF SatfTypeOK, Lines
<1>4. PlacesInv
  <2>1. <<>> \in Seq(Measurement)
    BY EmptySeq
  <2> QED BY <1>1, <1>2, <2>1 DEF PlacesInv, NoDuplicates
<1>5. WorkersInv
  BY <1>1 DEF WorkersInv
<1>6. LogInv
  <2>1. \A f \in Files : DOMAIN log[f] = {} /\ SizesIn(f) = {}
    BY <1>1 DEF SizesIn
  <2>2. \A m \in Measurement : ~Recorded(m) /\ ~Finishing(m)
    BY <1>1, <2>1, SatfConstants DEF Recorded, Finishing
  <2> QED BY <1>1, <2>1, <2>2 DEF LogInv, CountsBelongToLines
<1>7. MainInv
  <2>1. \A m \in Measurement : ~WasScheduled(m)
    <3>1. \A m \in Measurement : m.size \in Nat
      BY SatfConstants
    <3> QED BY <1>1, <3>1 DEF WasScheduled
  <2> QED BY <1>1, <1>2, <2>1 DEF MainInv
<1> QED BY <1>3, <1>4, <1>5, <1>6, <1>7 DEF SatfInv

LEMMA SatfInvStep == SatfInv /\ [SatfNext]_satfVars => SatfInv'
<1> SUFFICES ASSUME SatfInv, [SatfNext]_satfVars PROVE SatfInv'
  OBVIOUS
<1>1. CASE MainNext
  BY <1>1, RejectInv, ConstructInv, GrowInv, ScheduleNextInv, LeaveInv
  DEF MainNext
<1>2. CASE \E w \in Workers : WorkerNext(w)
  BY <1>2, FetchInv, CountingInv, LogStepInv, LogFailsInv, LogThrowsInv,
     FinishTaskInv
  DEF WorkerNext
<1>3. CASE UNCHANGED satfVars
  <2>1. /\ UNCHANGED <<mainVars, workerVars, log, lost, arrived, running, done, phase>>
        /\ UNCHANGED Pending
    BY <1>3 DEF satfVars, poolVars, Pending
  <2>2. WorkersInv' /\ LogInv'
    BY <2>1, WorkersUnchanged DEF SatfInv
  <2>3. MainInv'
    BY <2>1, MainUnchanged DEF SatfInv
  <2>4. SatfTypeOK' /\ PlacesInv'
    BY <2>1 DEF SatfInv, SatfTypeOK, PlacesInv, mainVars, workerVars
  <2> QED BY <2>2, <2>3, <2>4 DEF SatfInv
<1> QED BY <1>1, <1>2, <1>3 DEF SatfNext

THEOREM SatfInvariance == SatfSpec => []SatfInv
BY SatfInvInit, SatfInvStep, PTL DEF SatfSpec

THEOREM SatfTypeCorrect == SatfSpec => []SatfTypeOK
<1>1. SatfInv => SatfTypeOK
  BY DEF SatfInv
<1> QED BY <1>1, SatfInvariance, PTL

(* Though all measurements on a worker share one counter, and the sort     *)
(* algorithms copy the comparator as they like, every line has the number  *)
(* of comparisons of its own measurement.                                  *)
THEOREM CountsAreRight == SatfSpec => []CountsBelongToLines
<1>1. SatfInv => CountsBelongToLines
  BY DEF SatfInv, LogInv
<1> QED BY <1>1, SatfInvariance, PTL

(* Sizes that differ can be counted by the lines.                          *)
LEMMA OneSizePerLine ==
  ASSUME SatfInv, NEW f \in Files
  PROVE  Cardinality(SizesIn(f)) = Len(log[f])
<1> DEFINE n    == Len(log[f])
           size == [k \in 1..n |-> log[f][k].size]
<1>1. n \in Nat /\ DOMAIN log[f] = 1..n
  BY LenProperties DEF SatfInv, SatfTypeOK
<1>2. SizesIn(f) = {log[f][k].size : k \in 1..n}
  BY <1>1 DEF SizesIn
<1>3. \A j, k \in 1..n : log[f][j].size = log[f][k].size => j = k
  BY <1>1 DEF SatfInv, LogInv
<1> HIDE DEF n
<1>4. size \in [1..n -> SizesIn(f)] /\ \A k \in 1..n : size[k] = log[f][k].size
  BY <1>2
<1> HIDE DEF size
<1>5. /\ \A j, k \in 1..n : size[j] = size[k] => j = k
      /\ \A t \in SizesIn(f) : \E k \in 1..n : size[k] = t
  BY <1>2, <1>3, <1>4
<1>6. size \in Bijection(1..n, SizesIn(f))
  BY <1>4, <1>5, Fun_IsBij
<1>7. ExistsBijection(1..n, SizesIn(f))
  BY <1>6 DEF ExistsBijection
<1>8. IsFiniteSet(1..n) /\ Cardinality(1..n) = n
  <2>1. IsFiniteSet(1..n) /\ Cardinality(1..n) = IF 1 > n THEN 0 ELSE n - 1 + 1
    BY <1>1, FS_Interval
  <2>2. (IF 1 > n THEN 0 ELSE n - 1 + 1) = n
    BY <1>1
  <2> QED BY <2>1, <2>2
<1> QED BY <1>7, <1>8, FS_Bijection DEF n

(* No file ever has two lines for a size, and each measurement that was    *)
(* executed has a line, unless its file could not be opened.               *)
THEOREM LogsHaveOneLineEach == SatfSpec => []OneLineEach
<1>1. SatfInv => OneLineEach
  <2> SUFFICES ASSUME SatfInv, NEW f \in Files
               PROVE  /\ Cardinality(SizesIn(f)) = Len(log[f])
                      /\ SizesIn(f) \cap LostSizes(f) = {}
                      /\ \A m \in done : m.file = f => m.size \in SizesIn(f) \cup LostSizes(f)
    BY DEF OneLineEach
  <2>1. SizesIn(f) \cap LostSizes(f) = {}
    BY DEF SatfInv, LogInv, Recorded, LostSizes
  <2>2. ASSUME NEW m \in done, m.file = f
        PROVE  m.size \in SizesIn(f) \cup LostSizes(f)
    <3>1. m \in Measurement
      BY DEF SatfInv, PlacesInv
    <3>2. Recorded(m) \/ m \in lost
      BY <3>1 DEF SatfInv, LogInv
    <3> QED BY <2>2, <3>2 DEF Recorded, LostSizes
  <2> QED BY <2>1, <2>2, OneSizePerLine
<1> QED BY <1>1, SatfInvariance, PTL

(* The destructor of the pool has waited: when main returns, each file has *)
(* exactly the sizes asked for, whatever order the workers took.           *)
THEOREM LogsAreComplete == SatfSpec => []CompleteWhenMainReturns
<1>1. SatfInv => CompleteWhenMainReturns
  <2> SUFFICES ASSUME SatfInv, main = "returned", NEW f \in Files, NEW n
               PROVE  n \in SizesIn(f) \cup LostSizes(f)
                        <=> n \in min_size .. max_size /\ n > 0
    BY DEF CompleteWhenMainReturns
  <2>1. /\ Pending = {} /\ running = {} /\ i = max_size + 1
        /\ \A m \in Measurement : m \in done <=> WasScheduled(m)
    BY DEF SatfInv, PlacesInv, MainInv
  <2>2. \A m : ~Finishing(m)
    BY <2>1 DEF SatfInv, WorkersInv, Finishing
  <2>3. \A m \in Measurement : Recorded(m) \/ m \in lost <=> WasScheduled(m)
    BY <2>1, <2>2 DEF SatfInv, LogInv
  <2>4. /\ MaxSize \in Nat /\ min_size \in 0..MaxSize /\ max_size \in 0..MaxSize
        /\ log[f] \in Seq([size : 0..MaxSize, comparisons : Nat])
        /\ lost \subseteq Measurement
    BY SatfConstants DEF SatfInv, SatfTypeOK
  <2>5. n \in SizesIn(f) \cup LostSizes(f) => n \in 0..MaxSize
    <3>1. \A k \in DOMAIN log[f] : log[f][k].size \in 0..MaxSize
      <4>1. \A k \in DOMAIN log[f] : log[f][k] \in [size : 0..MaxSize, comparisons : Nat]
        BY <2>4, ElementOfSeq, LenProperties
      <4> QED BY <4>1
    <3> QED BY <2>4, <3>1, SatfConstants DEF SizesIn, LostSizes
  <2>6. n \in min_size .. max_size => n \in 0..MaxSize
    BY <2>4
  <2>7. ASSUME n \in 0..MaxSize
        PROVE  n \in SizesIn(f) \cup LostSizes(f)
                 <=> n \in min_size .. max_size /\ n > 0
    <3> DEFINE m == [file |-> f, size |-> n]
    <3>1. m \in Measurement /\ m.file = f /\ m.size = n
      BY <2>7 DEF Measurement
    <3>2. n \in LostSizes(f) <=> m \in lost
      <4>1. \A l \in lost : l.file = f /\ l.size = n <=> l = m
        BY <2>4 DEF Measurement
      <4> QED BY <3>1, <4>1 DEF LostSizes
    <3>3. n \in SizesIn(f) <=> Recorded(m)
      BY <3>1 DEF Recorded
    <3>4. WasScheduled(m) <=> n \in min_size .. max_size /\ n > 0
      <4>1. WasScheduled(m) <=> n > 0 /\ min_size <= n /\ n <= max_size /\ n < i
        BY <3>1 DEF WasScheduled
      <4> HIDE DEF m
      <4> QED BY <4>1, <2>1, <2>4, <2>7
    <3> QED BY <3>1, <3>2, <3>3, <3>4, <2>3
  <2> QED BY <2>5, <2>6, <2>7
<1> QED BY <1>1, SatfInvariance, PTL

-----------------------------------------------------------------------------
(* How far out of order the lines are.  A size that is missing before a    *)
(* line has been started before the line's, as the pool is a fifo, and is  *)
(* in the hands of another worker.                                         *)

HeldInv ==
  /\ \A w \in Workers : wpc[w] # "idle" => w \in threads
  /\ \A m \in running : \E w \in Workers : wpc[w] # "idle" /\ current[w] = m

FifoInv ==
  /\ \A j, k \in DOMAIN arrived :
       j < k /\ arrived[j].file = arrived[k].file
         => arrived[j].size < arrived[k].size
  /\ \A a \in Pending, m \in running \cup done :
       a.file = m.file => m.size < a.size

OrderInv == HeldInv /\ FifoInv /\ LittleOutOfOrder

(* The sizes still missing when line k of f was written.                   *)
Missing(f, k) ==
  {n \in min_size .. log[f][k].size - 1 :
     n > 0 /\ n \notin {log[f][l].size : l \in 1..k} \cup LostSizes(f)}

LEMMA MissingMeans ==
  LittleOutOfOrder <=>
    \A f \in Files : \A k \in DOMAIN log[f] :
      Cardinality(Missing(f, k)) < Cardinality(threads)
BY DEF LittleOutOfOrder, Missing

LEMMA HeldUnchanged ==
  ASSUME HeldInv, UNCHANGED <<threads, running, current>>,
         \A w \in Workers : wpc'[w] = "idle" <=> wpc[w] = "idle"
  PROVE  HeldInv'
BY DEF HeldInv

LEMMA FifoUnchanged ==
  ASSUME FifoInv, UNCHANGED <<arrived, Pending>>, (running \cup done)' = running \cup done
  PROVE  FifoInv'
BY DEF FifoInv

LEMMA LinesUnchanged ==
  ASSUME LittleOutOfOrder, UNCHANGED <<log, lost, min_size, threads>>
  PROVE  LittleOutOfOrder'
<1>1. \A f, k : Missing(f, k)' = Missing(f, k)
  BY DEF Missing, LostSizes
<1>2. \A f \in Files : \A k \in DOMAIN log'[f] :
        Cardinality(Missing(f, k)') < Cardinality(threads')
  BY <1>1, MissingMeans
<1> QED BY <1>2 DEF LittleOutOfOrder, Missing

LEMMA LineTypes ==
  ASSUME SatfInv, NEW f \in Files, NEW k \in DOMAIN log[f]
  PROVE  log[f][k] \in [size : 0..MaxSize, comparisons : Nat]
<1>1. log[f] \in Seq([size : 0..MaxSize, comparisons : Nat])
  BY DEF SatfInv, SatfTypeOK
<1> DEFINE Lines == [size : 0..MaxSize, comparisons : Nat]
           q     == log[f]
<1>2. q \in Seq(Lines) /\ k \in DOMAIN q
  BY <1>1
<1> HIDE DEF q, Lines
<1>3. k \in 1..Len(q)
  BY <1>2, LenProperties
<1>4. q[k] \in Lines
  BY <1>2, <1>3, ElementOfSeq
<1> QED BY <1>4 DEF q, Lines

(* Before the pool is constructed nothing has happened.                    *)
LEMMA NothingYet ==
  ASSUME SatfInv, main = "starting"
  PROVE  /\ Pending = {} /\ running = {} /\ done = {}
         /\ \A w \in Workers : wpc[w] = "idle"
         /\ \A f \in Files : DOMAIN log[f] = {}
<1>1. \A m \in Measurement : ~WasScheduled(m)
  <2> SUFFICES ASSUME NEW m \in Measurement PROVE ~WasScheduled(m)
    OBVIOUS
  <2>1. m.size \in Nat /\ i = 1
    BY SatfConstants DEF SatfInv, MainInv
  <2> QED BY <2>1 DEF WasScheduled
<1>2. \A m \in Measurement : m \notin Pending \cup running \cup done
  BY <1>1 DEF SatfInv, MainInv
<1>3. Pending \in SUBSET Measurement /\ running \in SUBSET Measurement /\ done \in SUBSET Measurement
  BY PendingProperties DEF SatfInv, PlacesInv, Pending
<1>4. Pending = {} /\ running = {} /\ done = {}
  BY <1>2, <1>3
<1>5. \A w \in Workers : wpc[w] = "idle"
  BY <1>4 DEF SatfInv, WorkersInv
<1>6. ASSUME NEW f \in Files, NEW k \in DOMAIN log[f]
      PROVE  FALSE
  <2> DEFINE m == [file |-> f, size |-> log[f][k].size]
  <2>1. log[f][k] \in [size : 0..MaxSize, comparisons : Nat]
    BY LineTypes
  <2>2. m \in Measurement /\ Recorded(m)
    BY <2>1 DEF Measurement, Recorded, SizesIn
  <2> HIDE DEF m
  <2>3. m \in done \/ Finishing(m)
    BY <2>2 DEF SatfInv, LogInv
  <2> QED BY <2>3, <1>4, <1>5 DEF Finishing
<1> QED BY <1>4, <1>5, <1>6

LEMMA ConstructOrder ==
  ASSUME SatfInv, OrderInv, Construct
  PROVE  OrderInv'
<1>1. /\ main = "starting"
      /\ UNCHANGED <<wpc, current, log, arrived, running, done, Pending>>
  BY DEF Construct, workerVars, poolVars, Pending
<1>2. /\ Pending = {} /\ running = {} /\ done = {}
      /\ \A w \in Workers : wpc[w] = "idle"
      /\ \A f \in Files : DOMAIN log[f] = {}
  BY <1>1, NothingYet
<1>3. HeldInv'
  BY <1>1, <1>2 DEF HeldInv
<1>4. FifoInv'
  BY <1>1, FifoUnchanged DEF OrderInv
<1>5. LittleOutOfOrder'
  BY <1>1, <1>2 DEF LittleOutOfOrder
<1> QED BY <1>3, <1>4, <1>5 DEF OrderInv

(* What is scheduled is larger than all before it of the same file.        *)
LEMMA ScheduleNextOrder ==
  ASSUME SatfInv, OrderInv, ScheduleNext
  PROVE  OrderInv'
<1>1. /\ main = "scheduling" /\ Pool!Accept(Bound)
      /\ UNCHANGED <<wpc, current, threads, log, lost, min_size>>
  BY DEF ScheduleNext, workerVars
<1>2. Bound \in Measurement /\ Bound.size = i /\ i \in Nat
  <2>1. next[1] \in DOMAIN DataNames /\ next[2] \in DOMAIN Algorithms
    BY DEF SatfInv, SatfTypeOK
  <2>2. <<DataNames[next[1]], Algorithms[next[2]]>> \in Files
    BY <2>1, SatfConstants
  <2>3. data = i /\ data \in 0..MaxSize
    BY <1>1 DEF SatfInv, SatfTypeOK, MainInv
  <2> QED BY <2>2, <2>3, SatfConstants DEF Bound, Measurement
<1>3. /\ Bound \notin Pending \cup running \cup done
      /\ Pending' = Pending \cup {Bound}
      /\ arrived' = Append(arrived, Bound)
      /\ UNCHANGED <<running, done>>
  BY <1>1, <1>2, AcceptStep DEF SatfInv
<1>4. Pending \in SUBSET Measurement /\ running \cup done \in SUBSET Measurement
  BY PendingProperties DEF SatfInv, PlacesInv, Pending
<1>5. ASSUME NEW m \in Pending \cup running \cup done, m.file = Bound.file
      PROVE  m.size < Bound.size
  <2>1. m \in Measurement /\ m # Bound
    BY <1>3, <1>4
  <2>2. WasScheduled(m)
    BY <1>1, <2>1 DEF SatfInv, MainInv
  <2>3. m.size < i \/ m.size = i
    BY <2>2 DEF WasScheduled
  <2>4. m.size # Bound.size
    BY <1>2, <1>5, <2>1 DEF Measurement
  <2> QED BY <1>2, <2>3, <2>4
<1>6. /\ arrived \in Seq(Measurement) /\ Len(arrived) \in Nat
      /\ DOMAIN arrived = 1..Len(arrived)
      /\ \A k \in 1..Len(arrived) : arrived[k] \in Pending
  BY PendingProperties DEF SatfInv, PlacesInv, Pending
<1>7. /\ DOMAIN arrived' = 1..Len(arrived) + 1
      /\ \A k \in 1..Len(arrived) : arrived'[k] = arrived[k]
      /\ arrived'[Len(arrived) + 1] = Bound
  <2>1. /\ arrived' \in Seq(Measurement) /\ Len(arrived') = Len(arrived) + 1
        /\ \A k \in 1..Len(arrived) : arrived'[k] = arrived[k]
        /\ arrived'[Len(arrived) + 1] = Bound
    BY <1>2, <1>3, <1>6, AppendProperties
  <2> QED BY <2>1, LenProperties
<1>8. FifoInv'
  <2>1. ASSUME NEW j \in DOMAIN arrived', NEW k \in DOMAIN arrived',
               j < k, arrived'[j].file = arrived'[k].file
        PROVE  arrived'[j].size < arrived'[k].size
    <3>0. j \in 1..Len(arrived)
      BY <1>6, <1>7, <2>1
    <3>1. CASE k \in 1..Len(arrived)
      BY <2>1, <3>0, <3>1, <1>6, <1>7 DEF OrderInv, FifoInv
    <3>2. CASE k = Len(arrived) + 1
      BY <2>1, <3>0, <3>2, <1>5, <1>6, <1>7
    <3> QED BY <3>1, <3>2, <1>6, <1>7
  <2>2. ASSUME NEW a \in Pending', NEW m \in running \cup done, a.file = m.file
        PROVE  m.size < a.size
    <3>1. CASE a = Bound
      BY <2>2, <3>1, <1>5
    <3>2. CASE a \in Pending
      BY <2>2, <3>2 DEF OrderInv, FifoInv
    <3> QED BY <3>1, <3>2, <1>3
  <2> QED BY <2>1, <2>2, <1>3 DEF FifoInv
<1>9. HeldInv'
  BY <1>1, <1>3, HeldUnchanged DEF OrderInv
<1>10. LittleOutOfOrder'
  BY <1>1, LinesUnchanged DEF OrderInv
<1> QED BY <1>8, <1>9, <1>10 DEF OrderInv

LEMMA FetchOrder ==
  ASSUME SatfInv, OrderInv, NEW w \in Workers, Fetch(w)
  PROVE  OrderInv'
<1>1. /\ w \in threads /\ wpc[w] = "idle" /\ Pool!Start
      /\ wpc' = [wpc EXCEPT ![w] = "sorting"]
      /\ UNCHANGED <<threads, log, lost, min_size>>
  BY DEF Fetch, mainVars
<1>2. PICK t \in running' \ running : current' = [current EXCEPT ![w] = t]
  BY DEF Fetch
<1>3. /\ UNCHANGED done
      /\ Len(arrived) \in Nat /\ 1 \in 1..Len(arrived)
      /\ arrived' \in Seq(Measurement) /\ arrived \in Seq(Measurement)
      /\ Len(arrived') = Len(arrived) - 1
      /\ \A k \in 1..Len(arrived) - 1 : arrived'[k] = arrived[k + 1]
      /\ running' = running \cup {arrived[1]}
      /\ Pending' = Pending \ {arrived[1]}
  BY <1>1, StartStep DEF SatfInv, PlacesInv
<1>4. t = arrived[1]
  BY <1>2, <1>3
<1>5. /\ wpc'[w] = "sorting" /\ current'[w] = t
      /\ \A v \in Workers \ {w} : wpc'[v] = wpc[v] /\ current'[v] = current[v]
  BY <1>1, <1>2 DEF SatfInv, SatfTypeOK
<1>6. HeldInv'
  <2>1. \A v \in Workers : wpc'[v] # "idle" => v \in threads'
    BY <1>1, <1>5 DEF OrderInv, HeldInv
  <2>2. ASSUME NEW m \in running'
        PROVE  \E v \in Workers : wpc'[v] # "idle" /\ current'[v] = m
    <3>1. CASE m = t
      BY <3>1, <1>5
    <3>2. CASE m \in running
      <4>1. PICK v \in Workers : wpc[v] # "idle" /\ current[v] = m
        BY <3>2 DEF OrderInv, HeldInv
      <4> QED BY <4>1, <1>1, <1>5
    <3> QED BY <3>1, <3>2, <1>3, <1>4
  <2> QED BY <2>1, <2>2 DEF HeldInv
<1>7. /\ DOMAIN arrived = 1..Len(arrived)
      /\ DOMAIN arrived' = 1..Len(arrived) - 1
      /\ \A x : x \in Pending' <=> \E k \in 1..Len(arrived) - 1 : arrived'[k] = x
  BY <1>3, PendingProperties DEF Pending
<1>8. \A k \in DOMAIN arrived' : /\ k + 1 \in DOMAIN arrived /\ 1 < k + 1
                                 /\ arrived'[k] = arrived[k + 1]
  BY <1>3, <1>7
<1>9. FifoInv'
  <2>1. ASSUME NEW j \in DOMAIN arrived', NEW k \in DOMAIN arrived',
               j < k, arrived'[j].file = arrived'[k].file
        PROVE  arrived'[j].size < arrived'[k].size
    <3>1. j + 1 < k + 1
      BY <2>1, <1>7
    <3> QED BY <2>1, <3>1, <1>8 DEF OrderInv, FifoInv
  <2>2. ASSUME NEW a \in Pending', NEW m \in running' \cup done', a.file = m.file
        PROVE  m.size < a.size
    <3>1. CASE m = arrived[1]
      <4>1. PICK k \in DOMAIN arrived' : arrived'[k] = a
        BY <1>7
      <4>2. 1 \in DOMAIN arrived
        BY <1>3, <1>7
      <4> QED BY <2>2, <3>1, <4>1, <4>2, <1>8 DEF OrderInv, FifoInv
    <3>2. CASE m \in running \cup done
      BY <2>2, <3>2, <1>3 DEF OrderInv, FifoInv
    <3> QED BY <3>1, <3>2, <1>3
  <2> QED BY <2>1, <2>2 DEF FifoInv
<1>10. LittleOutOfOrder'
  BY <1>1, LinesUnchanged DEF OrderInv
<1> QED BY <1>6, <1>9, <1>10 DEF OrderInv

LEMMA FinishTaskOrder ==
  ASSUME SatfInv, OrderInv, NEW w \in Workers, FinishTask(w)
  PROVE  OrderInv'
<1>1. /\ wpc[w] = "finishing" /\ Pool!Finish(current[w])
      /\ wpc' = [wpc EXCEPT ![w] = "idle"]
      /\ current' = [current EXCEPT ![w] = NoMeasurement]
      /\ UNCHANGED <<threads, log, lost, min_size>>
  BY DEF FinishTask, mainVars
<1>2. /\ current[w] \in running
      /\ running' = running \ {current[w]}
      /\ done' = done \cup {current[w]}
      /\ UNCHANGED <<arrived, Pending>>
  BY <1>1, FinishStep DEF SatfInv
<1>3. /\ wpc'[w] = "idle"
      /\ \A v \in Workers \ {w} : wpc'[v] = wpc[v] /\ current'[v] = current[v]
  BY <1>1 DEF SatfInv, SatfTypeOK
<1>4. HeldInv'
  <2>1. \A v \in Workers : wpc'[v] # "idle" => v \in threads'
    BY <1>1, <1>3 DEF OrderInv, HeldInv
  <2>2. ASSUME NEW m \in running'
        PROVE  \E v \in Workers : wpc'[v] # "idle" /\ current'[v] = m
    <3>1. PICK v \in Workers : wpc[v] # "idle" /\ current[v] = m
      BY <1>2 DEF OrderInv, HeldInv
    <3>2. v # w
      BY <3>1, <1>2
    <3> QED BY <3>1, <3>2, <1>3
  <2> QED BY <2>1, <2>2 DEF HeldInv
<1>5. FifoInv'
  <2>1. (running \cup done)' = running \cup done
    BY <1>2
  <2> QED BY <1>2, <2>1, FifoUnchanged DEF OrderInv
<1>6. LittleOutOfOrder'
  BY <1>1, LinesUnchanged DEF OrderInv
<1> QED BY <1>4, <1>5, <1>6 DEF OrderInv

LEMMA MissingIsFinite ==
  ASSUME SatfInv, NEW f \in Files, NEW k \in DOMAIN log[f]
  PROVE  IsFiniteSet(Missing(f, k))
<1>1. log[f][k] \in [size : 0..MaxSize, comparisons : Nat]
  BY LineTypes
<1>2. min_size \in Int /\ log[f][k].size - 1 \in Int
  BY <1>1, SatfConstants DEF SatfInv, SatfTypeOK
<1>3. IsFiniteSet(min_size .. log[f][k].size - 1)
  BY <1>2, FS_Interval
<1>4. Missing(f, k) \subseteq min_size .. log[f][k].size - 1
  BY DEF Missing
<1> QED BY <1>3, <1>4, FS_Subset

LEMMA LogFailsOrder ==
  ASSUME SatfInv, OrderInv, NEW w \in Workers, LogFails(w)
  PROVE  OrderInv'
<1>1. /\ wpc[w] = "logging" /\ wpc' = [wpc EXCEPT ![w] = "finishing"]
      /\ lost' = lost \cup {current[w]}
      /\ UNCHANGED <<current, threads, log, min_size, arrived, running, done, Pending>>
  BY DEF LogFails, mainVars, poolVars, Pending
<1>2. \A v \in Workers : wpc'[v] = "idle" <=> wpc[v] = "idle"
  BY <1>1 DEF SatfInv, SatfTypeOK
<1>3. HeldInv' /\ FifoInv'
  BY <1>1, <1>2, HeldUnchanged, FifoUnchanged DEF OrderInv
<1>4. LittleOutOfOrder'
  <2>1. ASSUME NEW f \in Files, NEW k \in DOMAIN log[f]
        PROVE  Cardinality(Missing(f, k)') < Cardinality(threads)
    <3>1. Missing(f, k)' \subseteq Missing(f, k)
      BY <1>1 DEF Missing, LostSizes
    <3>2. /\ Cardinality(Missing(f, k)') <= Cardinality(Missing(f, k))
          /\ Cardinality(Missing(f, k)') \in Nat /\ Cardinality(Missing(f, k)) \in Nat
      BY <3>1, MissingIsFinite, FS_Subset, FS_CardinalityType
    <3>3. Cardinality(Missing(f, k)) < Cardinality(threads)
      BY MissingMeans DEF OrderInv
    <3>4. Cardinality(threads) \in Nat
      <4>1. threads \subseteq Workers
        BY DEF SatfInv, SatfTypeOK
      <4> QED BY <4>1, SatfAssumption, FS_Subset, FS_CardinalityType DEF SatfAssumption
    <3> DEFINE a == Cardinality(Missing(f, k)')
               b == Cardinality(Missing(f, k))
               c == Cardinality(threads)
    <3> HIDE DEF a, b, c
    <3>5. a <= b /\ b < c /\ a \in Nat /\ b \in Nat /\ c \in Nat
      BY <3>2, <3>3, <3>4 DEF a, b, c
    <3>6. a < c
      BY <3>5
    <3> QED BY <3>6 DEF a, c
  <2>2. \A f \in Files : \A k \in DOMAIN log'[f] :
          Cardinality(Missing(f, k)') < Cardinality(threads')
    BY <2>1, <1>1
  <2> QED BY <2>2 DEF LittleOutOfOrder, Missing
<1> QED BY <1>3, <1>4 DEF OrderInv

(* What is missing when w writes its line is executed by other workers: it *)
(* was scheduled, it is not pending, and it is not recorded.               *)
LEMMA MissingIsHeld ==
  ASSUME SatfInv, OrderInv, NEW w \in Workers, wpc[w] = "logging", Running,
         NEW n, n \in min_size .. current[w].size - 1, n > 0,
         n \notin SizesIn(current[w].file) \cup LostSizes(current[w].file)
  PROVE  \E v \in threads \ {w} :
           /\ wpc[v] # "idle"
           /\ current[v] = [file |-> current[w].file, size |-> n]
<1> DEFINE m0 == current[w]
           m  == [file |-> m0.file, size |-> n]
<1>1. /\ m0 \in running /\ m0 \in Measurement
      /\ m0.file \in Files /\ m0.size \in 0..MaxSize /\ MaxSize \in Nat
      /\ min_size \in Nat
  <2>1. m0 \in running /\ m0 \in Measurement
    BY Holds
  <2> QED BY <2>1, SatfConstants DEF SatfInv, SatfTypeOK
<1> HIDE DEF m0
<1>2. n \in 0..MaxSize /\ min_size <= n /\ n < m0.size
  BY <1>1 DEF m0
<1>3. m \in Measurement /\ m.file = m0.file /\ m.size = n /\ m # m0
  BY <1>1, <1>2 DEF Measurement
<1> HIDE DEF m
<1>4. main # "aborted" /\ WasScheduled(m0)
  BY <1>1 DEF SatfInv, MainInv, Running
<1>5. WasScheduled(m)
  <2>1. /\ m0.size <= max_size
        /\ m0.size < i \/ m0.size = i
    BY <1>4 DEF WasScheduled
  <2>2. i \in Nat /\ max_size \in Nat
    BY SatfConstants DEF SatfInv, SatfTypeOK
  <2>3. m.size > 0 /\ min_size <= m.size /\ m.size <= max_size /\ m.size < i
    BY <1>1, <1>2, <1>3, <2>1, <2>2
  <2> QED BY <2>3 DEF WasScheduled
<1>6. m \in Pending \cup running \cup done
  BY <1>3, <1>4, <1>5 DEF SatfInv, MainInv
<1>7. m \notin Pending
  <2> SUFFICES ASSUME m \in Pending PROVE FALSE
    OBVIOUS
  <2>1. m0.size < m.size
    BY <1>1, <1>3 DEF OrderInv, FifoInv
  <2> QED BY <2>1, <1>1, <1>2, <1>3
<1>8. m \notin done
  <2>1. n \notin SizesIn(m0.file) /\ n \notin LostSizes(m0.file)
    BY DEF m0
  <2>2. ~Recorded(m) /\ m \notin lost
    BY <1>3, <2>1 DEF Recorded, LostSizes
  <2> QED BY <1>3, <2>2 DEF SatfInv, LogInv
<1>9. PICK v \in Workers : wpc[v] # "idle" /\ current[v] = m
  BY <1>6, <1>7, <1>8 DEF OrderInv, HeldInv
<1>10. v \in threads /\ v # w
  BY <1>3, <1>9 DEF OrderInv, HeldInv, m0
<1> QED BY <1>9, <1>10 DEF m, m0

LEMMA LogOrder ==
  ASSUME SatfInv, OrderInv, NEW w \in Workers, Log(w)
  PROVE  OrderInv'
<1> DEFINE m0   == current[w]
           line == Line(w)
           Lines == [size : 0..MaxSize, comparisons : Nat]
<1>1. /\ m0 \in Measurement /\ m0.file \in Files /\ m0.size \in 0..MaxSize
      /\ line \in Lines /\ line.size = m0.size
      /\ log \in [Files -> Seq(Lines)]
  <2>1. m0 \in Measurement
    BY Holds DEF Log
  <2>2. counted[w] \in Nat /\ log \in [Files -> Seq(Lines)]
    BY DEF SatfInv, SatfTypeOK
  <2> QED BY <2>1, <2>2, SatfConstants DEF Line
<1>2. PICK f0 \in Files, n0 \in 0..MaxSize : f0 = m0.file /\ n0 = m0.size
  BY <1>1
<1>3. /\ Running /\ wpc[w] = "logging" /\ wpc' = [wpc EXCEPT ![w] = "finishing"]
      /\ log' = [log EXCEPT ![f0] = Append(log[f0], line)]
      /\ UNCHANGED <<current, lost, threads, min_size, arrived, running, done, Pending>>
  BY <1>2 DEF Log, Written, mainVars, poolVars, Pending
<1>4. \A v \in Workers : wpc'[v] = "idle" <=> wpc[v] = "idle"
  BY <1>3 DEF SatfInv, SatfTypeOK
<1>5. HeldInv' /\ FifoInv'
  BY <1>3, <1>4, HeldUnchanged, FifoUnchanged DEF OrderInv
<1> HIDE DEF line, Lines, m0
<1> DEFINE old  == log[f0]
           new  == log'[f0]
<1>6. old \in Seq(Lines) /\ new = Append(old, line)
  BY <1>1, <1>3
<1>7. \A f \in Files : f # f0 => log'[f] = log[f]
  BY <1>1, <1>3
<1> HIDE DEF old, new
<1>8. /\ Len(old) \in Nat /\ DOMAIN old = 1..Len(old) /\ DOMAIN new = 1..Len(old) + 1
      /\ \A k \in 1..Len(old) : new[k] = old[k]
      /\ new[Len(old) + 1] = line
  <2>1. /\ new \in Seq(Lines) /\ Len(new) = Len(old) + 1
        /\ \A k \in 1..Len(old) : new[k] = old[k]
        /\ new[Len(old) + 1] = line
    BY <1>1, <1>6, AppendProperties
  <2> QED BY <2>1, <1>6, LenProperties
<1>9. PICK last \in Nat : last = Len(old) + 1
  BY <1>8
<1>10. LostSizes(f0)' = LostSizes(f0) /\ \A f : LostSizes(f)' = LostSizes(f)
  BY <1>3 DEF LostSizes
(* Nothing changes for the lines that were there.                          *)
<1>11. ASSUME NEW f \in Files, NEW k \in DOMAIN log[f]
       PROVE  Missing(f, k)' = Missing(f, k)
  <2>1. \A l \in 1..k : log'[f][l] = log[f][l]
    <3>1. CASE f # f0
      BY <3>1, <1>7
    <3>2. CASE f = f0
      <4>1. log'[f] = new /\ log[f] = old /\ k \in 1..Len(old)
        BY <3>2, <1>8 DEF old, new
      <4>2. \A l \in 1..k : l \in 1..Len(old)
        BY <4>1, <1>8
      <4> QED BY <4>1, <4>2, <1>8
    <3> QED BY <3>1, <3>2
  <2>2. k \in 1..k
    <3>1. log[f] \in Seq(Lines)
      BY <1>1
    <3>2. DOMAIN log[f] = 1..Len(log[f])
      BY <3>1, LenProperties
    <3> QED BY <3>2
  <2>3. {log'[f][l].size : l \in 1..k} = {log[f][l].size : l \in 1..k}
    BY <2>1
  <2>4. log'[f][k] = log[f][k] /\ min_size' = min_size
    BY <1>3, <2>1, <2>2
  <2> QED BY <2>3, <2>4, <1>10 DEF Missing
(* The sizes missing before the new line are held by other workers.        *)
<1> DEFINE missing == {n \in min_size .. n0 - 1 :
                         n > 0 /\ n \notin SizesIn(f0) \cup LostSizes(f0)}
<1>12. Missing(f0, last)' \subseteq missing
  <2>1. \A k \in DOMAIN old : k \in 1..last /\ log'[f0][k].size = old[k].size
    BY <1>8, <1>9 DEF new
  <2>2. SizesIn(f0) = {old[k].size : k \in DOMAIN old}
    BY DEF SizesIn, old
  <2>3. SizesIn(f0) \subseteq {log'[f0][l].size : l \in 1..last}
    BY <2>1, <2>2
  <2>4. log'[f0][last].size = n0 /\ min_size' = min_size
    BY <1>1, <1>2, <1>3, <1>8, <1>9 DEF new
  <2> QED BY <2>3, <2>4, <1>10 DEF Missing
<1>13. IsFiniteSet(threads) /\ w \in threads
  <2>1. threads \subseteq Workers
    BY DEF SatfInv, SatfTypeOK
  <2>2. w \in threads
    BY <1>3 DEF OrderInv, HeldInv
  <2> QED BY <2>1, <2>2, SatfAssumption, FS_Subset DEF SatfAssumption
<1>14. /\ IsFiniteSet(threads \ {w})
       /\ Cardinality(threads \ {w}) = Cardinality(threads) - 1
       /\ Cardinality(threads) \in Nat
  BY <1>13, FS_RemoveElement, FS_CardinalityType
<1>15. IsFiniteSet(missing) /\ Cardinality(missing) <= Cardinality(threads \ {w})
  <2> DEFINE holds(v, n) == current[v] = [file |-> f0, size |-> n]
             g == [n \in missing |-> CHOOSE v \in threads \ {w} : holds(v, n)]
  <2>1. ASSUME NEW n \in missing
        PROVE  \E v \in threads \ {w} : holds(v, n)
    <3>1. /\ n \in min_size .. current[w].size - 1 /\ n > 0
          /\ n \notin SizesIn(current[w].file) \cup LostSizes(current[w].file)
      BY <1>2 DEF m0
    <3> QED BY <1>2, <1>3, <3>1, MissingIsHeld DEF m0
  <2> HIDE DEF missing
  <2>2. \A n \in missing : g[n] \in threads \ {w} /\ holds(g[n], n)
    BY <2>1
  <2>3. g \in [missing -> threads \ {w}]
    BY <2>2
  <2> HIDE DEF g
  <2>4. \A m, n : [file |-> f0, size |-> m] = [file |-> f0, size |-> n] => m = n
    <3> SUFFICES ASSUME NEW m, NEW n,
                        [file |-> f0, size |-> m] = [file |-> f0, size |-> n]
                 PROVE  m = n
      OBVIOUS
    <3>1. [file |-> f0, size |-> m].size = m /\ [file |-> f0, size |-> n].size = n
      OBVIOUS
    <3> QED BY <3>1
  <2>5. \A m, n \in missing : g[m] = g[n] => m = n
    <3> SUFFICES ASSUME NEW m \in missing, NEW n \in missing, g[m] = g[n]
                 PROVE  m = n
      OBVIOUS
    <3>1. holds(g[m], m) /\ holds(g[n], n)
      BY <2>2
    <3>2. /\ current[g[m]] = [file |-> f0, size |-> m]
          /\ current[g[n]] = [file |-> f0, size |-> n]
      BY <3>1
    <3>3. [file |-> f0, size |-> m] = [file |-> f0, size |-> n]
      BY <3>2, Zenon
    <3> QED BY <3>3, <2>4, Zenon
  <2>6. g \in Injection(missing, threads \ {w})
    BY <2>3, <2>5, Fun_IsInj
  <2> QED BY <2>6, <1>14, FS_Injection
<1> HIDE DEF missing
<1>16. Cardinality(Missing(f0, last)') < Cardinality(threads)
  <2>1. /\ Cardinality(Missing(f0, last)') <= Cardinality(missing)
        /\ Cardinality(Missing(f0, last)') \in Nat /\ Cardinality(missing) \in Nat
    BY <1>12, <1>15, FS_Subset, FS_CardinalityType
  <2> DEFINE a == Cardinality(Missing(f0, last)')
             b == Cardinality(missing)
             c == Cardinality(threads \ {w})
             d == Cardinality(threads)
  <2> HIDE DEF a, b, c, d
  <2>2. a <= b /\ b <= c /\ c = d - 1 /\ a \in Nat /\ b \in Nat /\ d \in Nat
    BY <2>1, <1>14, <1>15 DEF a, b, c, d
  <2>3. a < d
    BY <2>2
  <2> QED BY <2>3 DEF a, d
<1>17. \A f \in Files : \A k \in DOMAIN log'[f] :
         Cardinality(Missing(f, k)') < Cardinality(threads')
  <2> SUFFICES ASSUME NEW f \in Files, NEW k \in DOMAIN log'[f]
               PROVE  Cardinality(Missing(f, k)') < Cardinality(threads')
    OBVIOUS
  <2>1. CASE k \in DOMAIN log[f]
    <3>1. Cardinality(Missing(f, k)) < Cardinality(threads)
      BY <2>1, MissingMeans DEF OrderInv
    <3> QED BY <2>1, <3>1, <1>3, <1>11
  <2>2. CASE k \notin DOMAIN log[f]
    <3>1. f = f0
      BY <2>2, <1>7
    <3>2. k = last
      BY <2>2, <3>1, <1>8, <1>9 DEF old, new
    <3> QED BY <3>1, <3>2, <1>3, <1>16
  <2> QED BY <2>1, <2>2
<1>18. LittleOutOfOrder'
  BY <1>17 DEF LittleOutOfOrder, Missing
<1> QED BY <1>5, <1>18 DEF OrderInv

LEMMA OrderInvInit == SatfInit => OrderInv
<1> SUFFICES ASSUME SatfInit PROVE OrderInv
  OBVIOUS
<1>1. /\ wpc = [w \in Workers |-> "idle"] /\ running = {} /\ done = {}
      /\ arrived = <<>> /\ log = [f \in Files |-> <<>>]
  BY DEF SatfInit, Pool!TaskPoolInit
<1>2. Pending = {} /\ DOMAIN arrived = {}
  BY <1>1 DEF Pending, ToSet
<1> QED BY <1>1, <1>2 DEF OrderInv, HeldInv, FifoInv, LittleOutOfOrder

LEMMA OrderInvStep ==
  SatfInv /\ OrderInv /\ [SatfNext]_satfVars => OrderInv'
<1> SUFFICES ASSUME SatfInv, OrderInv, [SatfNext]_satfVars PROVE OrderInv'
  OBVIOUS
<1>1. ASSUME UNCHANGED <<current, threads, min_size, log, lost>>,
             UNCHANGED <<arrived, running, done, Pending>>,
             \A w \in Workers : wpc'[w] = "idle" <=> wpc[w] = "idle"
      PROVE  OrderInv'
  BY <1>1, HeldUnchanged, FifoUnchanged, LinesUnchanged DEF OrderInv
<1>2. CASE RejectArguments \/ InitThrows \/ Grow
  <2>1. /\ UNCHANGED <<wpc, current, threads, min_size, log, lost>>
        /\ UNCHANGED <<arrived, running, done, Pending>>
    BY <1>2 DEF RejectArguments, InitThrows, Grow, workerVars, poolVars, Pending
  <2> QED BY <1>1, <2>1
<1>3. CASE LeaveMain \/ AwaitPool
  <2>1. UNCHANGED <<arrived, running, done, Pending>>
    BY <1>3, DestroySteps DEF LeaveMain, AwaitPool, SatfInv
  <2>2. UNCHANGED <<wpc, current, threads, min_size, log, lost>>
    BY <1>3 DEF LeaveMain, AwaitPool, workerVars
  <2> QED BY <1>1, <2>1, <2>2
<1>4. ASSUME NEW w \in Workers, Sort(w) \/ Count(w)
      PROVE  OrderInv'
  <2>1. /\ UNCHANGED <<current, threads, min_size, log, lost>>
        /\ UNCHANGED <<arrived, running, done, Pending>>
    BY <1>4 DEF Sort, Count, mainVars, poolVars, Pending
  <2>2. \A v \in Workers : wpc'[v] = "idle" <=> wpc[v] = "idle"
    BY <1>4 DEF Sort, Count, SatfInv, SatfTypeOK
  <2> QED BY <1>1, <2>1, <2>2
<1>5. ASSUME NEW w \in Workers, LogThrows(w)
      PROVE  OrderInv'
  <2>1. /\ UNCHANGED <<wpc, current, threads, min_size, log, lost>>
        /\ UNCHANGED <<arrived, running, done, Pending>>
    BY <1>5 DEF LogThrows, workerVars, poolVars, Pending
  <2> QED BY <1>1, <2>1
<1>6. CASE UNCHANGED satfVars
  <2>1. /\ UNCHANGED <<wpc, current, threads, min_size, log, lost>>
        /\ UNCHANGED <<arrived, running, done, Pending>>
    BY <1>6 DEF satfVars, mainVars, workerVars, poolVars, Pending
  <2> QED BY <1>1, <2>1
<1> QED BY <1>2, <1>3, <1>4, <1>5, <1>6, ConstructOrder, ScheduleNextOrder,
           FetchOrder, LogOrder, LogFailsOrder, FinishTaskOrder
        DEF SatfNext, MainNext, WorkerNext

(* When a line is written fewer smaller sizes are missing than the pool    *)
(* has workers, for every number of workers and sizes: the logs that       *)
(* satf.sh sorts are nearly sorted.                                        *)
THEOREM LinesAreLittleOutOfOrder == SatfSpec => []LittleOutOfOrder
<1>1. OrderInv => LittleOutOfOrder
  BY DEF OrderInv
<1> QED BY <1>1, SatfInvariance, OrderInvInit, OrderInvStep, PTL DEF SatfSpec

=============================================================================
