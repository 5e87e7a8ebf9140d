------------------------------ MODULE SatfRun ------------------------------
(***************************************************************************)
(* One execution of the program: main grows the data sets and schedules a  *)
(* measurement for each algorithm and data set at each size, the workers   *)
(* of the pool execute them and append a line to a log file each, and the  *)
(* pool is destroyed when main leaves.  The pool is a TaskPool.            *)
(***************************************************************************)
EXTENDS Integers, Sequences, FiniteSets

CONSTANTS
  Workers,         \* the threads that --threads may ask for
  Arguments,       \* the pairs <<min, max>> of a command line
  MaxSize,         \* a bound on the largest max
  DataNames, Algorithms,    \* data_names and the algorithms of the inner
                            \* loop, in the order of main
  Comparisons,     \* how often an algorithm compares, for its data and size
  Failures,        \* of the file system: "directory", "open"
  MaxLost,         \* a bound on the lines lost by the second
  Unset            \* s_count of a thread that has not compared yet

Files == {<<DataNames[k], Algorithms[l]>> :
            k \in DOMAIN DataNames, l \in DOMAIN Algorithms}

ASSUME SatfAssumption ==
  /\ IsFiniteSet(Workers)
  /\ MaxSize \in Nat
  /\ Arguments \subseteq (0..MaxSize) \X (0..MaxSize)
  /\ DataNames \in Seq(STRING) /\ DataNames # <<>>
  /\ Algorithms \in Seq(STRING) /\ Algorithms # <<>>
  /\ \A k, l \in DOMAIN DataNames : DataNames[k] = DataNames[l] => k = l
  /\ \A k, l \in DOMAIN Algorithms : Algorithms[k] = Algorithms[l] => k = l
  /\ Comparisons \in [Files \X (0..MaxSize) -> Nat]
  /\ Failures \subseteq {"directory", "open"} /\ MaxLost \in Nat
  /\ Unset \notin Nat

VARIABLES
  main,                 \* where main is
  min_size, max_size,   \* the arguments
  threads,              \* the workers of the pool
  i, next,              \* the counter of the loop over sizes, and the data
                        \* set and algorithm to be scheduled next
  data,                 \* the length of each of the local vectors
  wpc, current,         \* where a worker is, and its measurement
  s_count,              \* the thread-local counters of CountLess<int>
  counted,              \* what count() returned
  log,                  \* the lines of each file, the oldest first
  lost                  \* the measurements whose file could not be opened

VARIABLES arrived, running, done, dropped, phase    \* of TaskPool

mainVars == <<main, min_size, max_size, threads, i, next, data>>
workerVars == <<wpc, current, s_count, counted>>
poolVars == <<arrived, running, done, dropped, phase>>
satfVars == <<mainVars, workerVars, log, lost, poolVars>>

(* boost::threadpool::pool is a fifo_pool.                                 *)
Scheduler_Lifo == "lifo_scheduler"
Scheduler == "fifo_scheduler"
Shutdown_ActiveOnly == "wait_for_active_tasks"
Shutdown == "wait_for_all_tasks"

(* What is bound into a task: a function, and copies of a vector, here its *)
(* length, and of its name.                                                *)
Measurement == [file : Files, size : 0..MaxSize]

Pool == INSTANCE TaskPool WITH
          Tasks <- Measurement, SchedulingPolicy <- Scheduler,
          Priority <- <<>>, ShutdownPolicy <- Shutdown

NoMeasurement == [file |-> <<>>, size |-> 0]

SatfTypeOK ==
  /\ main \in {"starting", "growing", "scheduling", "destroying", "returned",
               "rejected", "aborted"}
  /\ min_size \in 0..MaxSize /\ max_size \in 0..MaxSize
  /\ threads \subseteq Workers
  /\ i \in 1..MaxSize + 1
  /\ next \in (DOMAIN DataNames) \X (DOMAIN Algorithms)
  /\ data \in 0..MaxSize
  /\ wpc \in [Workers -> {"idle", "sorting", "counting", "logging",
                          "finishing"}]
  /\ current \in [Workers -> Measurement \cup {NoMeasurement}]
  /\ s_count \in [Workers -> Nat \cup {Unset}]
  /\ counted \in [Workers -> Nat]
  /\ log \in [Files -> Seq([size : 0..MaxSize, comparisons : Nat])]
  /\ lost \subseteq Measurement
  /\ running \subseteq Measurement

SatfInit ==
  /\ main = "starting"
  /\ min_size = 0 /\ max_size = 0 /\ threads = {}
  /\ i = 1 /\ next = <<1, 1>>
  /\ data = 0
  /\ wpc = [w \in Workers |-> "idle"]
  /\ current = [w \in Workers |-> NoMeasurement]
  /\ s_count = [w \in Workers |-> Unset]
  /\ counted = [w \in Workers |-> 0]
  /\ log = [f \in Files |-> <<>>]
  /\ lost = {}
  /\ Pool!TaskPoolInit

-----------------------------------------------------------------------------
(* --help, or a minimum above the maximum.                                 *)
RejectArguments ==
  /\ main = "starting"
  /\ main' = "rejected"
  /\ UNCHANGED <<min_size, max_size, threads, i, next, data, workerVars, log,
                 lost, poolVars>>

(* log_init cannot create its directory: nobody catches what it throws.    *)
InitThrows ==
  /\ "directory" \in Failures
  /\ main = "starting"
  /\ main' = "aborted"
  /\ UNCHANGED <<min_size, max_size, threads, i, next, data, workerVars, log,
                 lost, poolVars>>

(* The pool is constructed with the threads asked for, as far as they can  *)
(* be created.                                                             *)
Construct ==
  /\ main = "starting"
  /\ \E a \in Arguments :
       /\ a[1] <= a[2]
       /\ min_size' = a[1] /\ max_size' = a[2]
  /\ threads' \in SUBSET Workers
  /\ main' = "growing"
  /\ UNCHANGED <<i, next, data, workerVars, log, lost, poolVars>>

(* Every vector gets one more element.                                     *)
Grow ==
  /\ main = "growing" /\ i <= max_size
  /\ data' = data + 1
  /\ IF i < min_size THEN i' = i + 1 /\ UNCHANGED main
                     ELSE main' = "scheduling" /\ UNCHANGED i
  /\ UNCHANGED <<min_size, max_size, threads, next, workerVars, log, lost,
                 poolVars>>

(* What the next call of schedule binds.                                   *)
Bound == [file |-> <<DataNames[next[1]], Algorithms[next[2]]>>, size |-> data]

(* The loop over data sets, with a call of schedule for each algorithm.    *)
ScheduleNext ==
  /\ main = "scheduling"
  /\ Pool!Accept(Bound)
  /\ \/ /\ next[2] < Len(Algorithms)
        /\ next' = <<next[1], next[2] + 1>>
        /\ UNCHANGED <<main, i>>
     \/ /\ next[2] = Len(Algorithms) /\ next[1] < Len(DataNames)
        /\ next' = <<next[1] + 1, 1>>
        /\ UNCHANGED <<main, i>>
     \/ /\ next = <<Len(DataNames), Len(Algorithms)>>
        /\ next' = <<1, 1>>
        /\ i' = i + 1
        /\ main' = "growing"
  /\ UNCHANGED <<min_size, max_size, threads, data, workerVars, log, lost>>

(* main returns 0: its vectors are destroyed, then the pool.               *)
LeaveMain ==
  /\ main = "growing" /\ i > max_size
  /\ data' = 0
  /\ main' = "destroying"
  /\ Pool!Close
  /\ UNCHANGED <<min_size, max_size, threads, i, next, workerVars, log, lost>>

AwaitPool ==
  /\ main = "destroying"
  /\ Pool!DropAtClose \/ Pool!Terminate
  /\ main' = IF phase' = "terminated" THEN "returned" ELSE main
  /\ UNCHANGED <<min_size, max_size, threads, i, next, data, workerVars, log,
                 lost>>

-----------------------------------------------------------------------------
Running == main \notin {"returned", "rejected", "aborted"}

Fetch(w) ==
  /\ Running /\ w \in threads /\ wpc[w] = "idle"
  /\ Pool!Start
  /\ \E m \in running' \ running : current' = [current EXCEPT ![w] = m]
  /\ wpc' = [wpc EXCEPT ![w] = "sorting"]
  /\ UNCHANGED <<mainVars, s_count, counted, log, lost>>

(* CountLess() makes the counter of the thread if there is none, and the   *)
(* algorithm counts in it, whichever copy of the comparator it calls.      *)
Sort(w) ==
  /\ Running /\ wpc[w] = "sorting"
  /\ LET before == IF s_count[w] = Unset THEN 0 ELSE s_count[w]
         m == current[w]
     IN  s_count' = [s_count EXCEPT
           ![w] = before + Comparisons[<<m.file, m.size>>]]
  /\ wpc' = [wpc EXCEPT ![w] = "counting"]
  /\ UNCHANGED <<mainVars, current, counted, log, lost, poolVars>>

Count_NoReset(w) ==
  /\ Running /\ wpc[w] = "counting"
  /\ counted' = [counted EXCEPT ![w] = s_count[w]]
  /\ wpc' = [wpc EXCEPT ![w] = "logging"]
  /\ UNCHANGED <<mainVars, current, s_count, log, lost, poolVars>>

Count(w) ==
  /\ Running /\ wpc[w] = "counting"
  /\ counted' = [counted EXCEPT ![w] = s_count[w]]
  /\ s_count' = [s_count EXCEPT ![w] = 0]
  /\ wpc' = [wpc EXCEPT ![w] = "logging"]
  /\ UNCHANGED <<mainVars, current, log, lost, poolVars>>

(* The line of the measurement of w.                                       *)
Line(w) == [size |-> current[w].size, comparisons |-> counted[w]]

Written_Truncated(w) == <<Line(w)>>

(* The file is opened to append.                                           *)
Written(w) == Append(log[current[w].file], Line(w))

Log(w) ==
  /\ Running /\ wpc[w] = "logging"
  /\ log' = [log EXCEPT ![current[w].file] = Written(w)]
  /\ wpc' = [wpc EXCEPT ![w] = "finishing"]
  /\ UNCHANGED <<mainVars, current, s_count, counted, lost, poolVars>>

(* A stream that did not open, or cannot write, swallows the line.         *)
LogFails(w) ==
  /\ "open" \in Failures /\ Cardinality(lost) < MaxLost
  /\ Running /\ wpc[w] = "logging"
  /\ lost' = lost \cup {current[w]}
  /\ wpc' = [wpc EXCEPT ![w] = "finishing"]
  /\ UNCHANGED <<mainVars, current, s_count, counted, log, poolVars>>

(* create_directory throws, which no thread catches.                       *)
LogThrows(w) ==
  /\ "directory" \in Failures
  /\ Running /\ wpc[w] = "logging"
  /\ main' = "aborted"
  /\ UNCHANGED <<min_size, max_size, threads, i, next, data, workerVars, log,
                 lost, poolVars>>

FinishTask_StaysActive(w) ==
  /\ Running /\ wpc[w] = "finishing"
  /\ wpc' = [wpc EXCEPT ![w] = "idle"]
  /\ current' = [current EXCEPT ![w] = NoMeasurement]
  /\ counted' = [counted EXCEPT ![w] = 0]
  /\ UNCHANGED <<mainVars, s_count, log, lost, poolVars>>

FinishTask(w) ==
  /\ Running /\ wpc[w] = "finishing"
  /\ Pool!Finish(current[w])
  /\ wpc' = [wpc EXCEPT ![w] = "idle"]
  /\ current' = [current EXCEPT ![w] = NoMeasurement]
  /\ counted' = [counted EXCEPT ![w] = 0]
  /\ UNCHANGED <<mainVars, s_count, log, lost>>

MainNext ==
  \/ RejectArguments \/ InitThrows \/ Construct
  \/ Grow \/ ScheduleNext
  \/ LeaveMain \/ AwaitPool

WorkerNext(w) ==
  \/ Fetch(w) \/ Sort(w) \/ Count(w)
  \/ Log(w) \/ LogFails(w) \/ LogThrows(w)
  \/ FinishTask(w)

SatfNext == MainNext \/ \E w \in Workers : WorkerNext(w)

SatfSpec == SatfInit /\ [][SatfNext]_satfVars

(* The threads of the program run.                                         *)
SatfFairSpec ==
  /\ SatfSpec
  /\ WF_satfVars(MainNext)
  /\ \A w \in Workers : WF_satfVars(WorkerNext(w))

-----------------------------------------------------------------------------
SizesIn(f) == {log[f][k].size : k \in DOMAIN log[f]}

LostSizes(f) == {m.size : m \in {l \in lost : l.file = f}}

(* Each line has the number of comparisons of the measurement it is for:   *)
(* the counter is shared by all measurements that a worker executes, and   *)
(* by no others.                                                           *)
CountsBelongToLines ==
  \A f \in Files : \A k \in DOMAIN log[f] :
    log[f][k].comparisons = Comparisons[<<f, log[f][k].size>>]

(* Whatever the workers do in which order, a file never has two lines for  *)
(* a size, and a measurement that was executed left its line behind,       *)
(* unless the file could not be opened.                                    *)
OneLineEach ==
  \A f \in Files :
    /\ Cardinality(SizesIn(f)) = Len(log[f])
    /\ SizesIn(f) \cap LostSizes(f) = {}
    /\ \A m \in done : m.file = f => m.size \in SizesIn(f) \cup LostSizes(f)

(* When main returns every size asked for has been measured with every     *)
(* algorithm on every data set, and nothing else has.                      *)
CompleteWhenMainReturns ==
  main = "returned" =>
    \A f \in Files :
      SizesIn(f) \cup LostSizes(f)
        = {n \in min_size .. max_size : n > 0}

(* Lines are out of order, but not by more than the other workers make it: *)
(* when a line is written at most one smaller size per other worker is     *)
(* still missing.  (It is why satf.sh sorts the files.)                    *)
LittleOutOfOrder ==
  \A f \in Files : \A k \in DOMAIN log[f] :
    Cardinality({n \in min_size .. log[f][k].size - 1 :
                   n > 0 /\ n \notin {log[f][l].size : l \in 1..k}
                                       \cup LostSizes(f)})
      < Cardinality(threads)

(* main returns, if the pool has a worker: the destructor of the pool      *)
(* waits for all measurements.                                             *)
MainReturns ==
  (main = "growing" /\ threads # {}) ~> (main \in {"returned", "aborted"})

=============================================================================
