# satf: TLA+ models, checks and proofs

satf (Sort Algorithm Test Fest) measures sort algorithms on growing data sets.
The main program builds the data and schedules one task per algorithm, data set
and size on a thread pool; the workers of the pool execute the tasks, count
comparisons and append a line to a log; a script turns the logs into plots. The
hard part, and most of the code, is the thread pool (`boost/threadpool`), which
the program depends on to execute every measurement once and to be finished
when `main` returns.

This directory holds TLA+ models of that pool, of its futures, of a run of the
program on it, of `quick_sort`, of the looped task and of the script, the TLC
runs that check them, and proofs about them. Paths below are relative to `src/`
of the repository's tree; `TP` stands for `src/boost/threadpool`.

## 1. The system

| Part | Code | State | Operations | Talks to |
|---|---|---|---|---|
| pool_core | `TP/detail/pool_core.hpp` | worker counts (attached, target, active), the scheduler, the termination flag, the vector of terminated workers; one recursive mutex `m_monitor` and two conditions | `schedule`, `clear`, `wait` (with and without a timestamp), `resize`, `execute_task`, `worker_destructed`, `worker_died_unexpectedly`, `terminate_all_workers` | everything below |
| worker_thread | `TP/detail/worker_thread.hpp`, `scope_guard.hpp` | a boost thread, a shared_ptr to the pool | `create_and_attach`, `run`, `join`, `died_unexpectedly` | calls back into pool_core |
| thread_pool | `TP/pool.hpp` | shared_ptr to the core and to a shutdown controller | constructor, forwarding calls, shutdown by the last copy | pool_core and the policies |
| policies | `TP/size_policies.hpp`, `shutdown_policies.hpp`, `scheduling_policies.hpp` | a queue, deque or priority_queue of tasks | `static_size`, `resize_controller`; three `shutdown`s; `push`/`top`/`pop` | called by pool_core, under the monitor or at the shutdown |
| task and pool adaptors | `TP/task_adaptors.hpp`, `pool_adaptors.hpp` | a function, a priority, a break | `operator()`, convenience `schedule`s | wrapped into tasks |
| future | `TP/future.hpp`, `detail/future.hpp` | value, `m_ready`, `m_is_cancelled`, `m_executing`; a mutex and a condition | `schedule(pool, f)`, `get`, `wait`, `timed_wait`, `cancel` | its task runs in the pool |
| main program | `src/main.cpp` | four growing vectors, the pool | scheduling the measurements | pool, log, algorithms |
| CountLess | `src/countless.h` | one thread-local counter per type | `operator()`, `count` | used by the measurements |
| algorithms | `src/heapsort.h`, `src/quicksort.h` | none | `heap_sort`, `quick_sort` | used by the measurements |
| log | `src/utility.cpp` | the log directory, a mutex | `log_init`, `log` | called by all workers |
| satf.sh | `satf.sh` | log files | run, choose the last log, plot | reads the logs |

### What is hard, and what correct means

* **Workers against workers and callers.** `schedule` notifies one sleeping
  worker; meanwhile another may take the task, or the pool may shrink, and the
  notified one leaves. No task may stay behind sleeping workers, be executed
  twice or be lost (`NoLostTaskWakeup`, `ExecutedOnce`, `EveryTaskEnds`).
* **Counters.** `m_worker_count` and `m_active_worker_count` are unsigned, are
  changed at seven places, and `wait()` and the shutdown rely on them. They must
  be exact whenever the monitor is free (`CountersExact`), for then `wait` means
  what it says (`WaitReturnsQuiet`).
* **Conditions.** Each waiter needs a notification for each step that makes its
  condition true (`NoMissedIdleEvent`, `ShrinkReachesSleepers`, `WaitReturns`).
* **Failure.** A task that throws kills its worker, which must be replaced
  (`SizePreserved`), but not in a pool that terminates
  (`NoNewWorkersAfterTermination`). A thread may fail to be created in the
  middle of a `resize`.
* **Shutdown.** It takes several critical sections, with workers, dying workers
  and a `resize_controller` acting in between; it must keep its policy's promise
  (`ShutdownKeepsPromise`), return, and leave no worker (`ShutdownReturns`,
  `WorkersLeave`).
* **Futures.** A value is delivered while callers look at it, sleep, time out
  and cancel, some of it without a lock (`NoMissedValue`, `ReadyMeansComputed`,
  `CancelTakesEffect`, `RefusedMeansOver`, `GetReturns`).

* **A run of the program.** `main` grows its vectors and returns while
  measurements are still pending; each has copies of its data, workers reuse
  their thread-local counter of comparisons, streams may not open. Each line must
  belong to its measurement and none be missing or double
  (`CountsBelongToLines`, `OneLineEach`, `CompleteWhenMainReturns`,
  `MainReturns`); and the lines of a file are out of order by at most one size
  per other worker (`LittleOutOfOrder`).
* **Recursion on equal elements.** `quick_sort` relies on `std::max(first + 1,
  middle)` to end and to skip no element, whatever order `std::partition` leaves
  (`ReturnsSorted`, `DepthBounded`, `ComparisonsBounded`).
* **Breaks by the wall clock.** `looped_task_func` adds nanoseconds without a
  carry and sleeps until a time of a clock that may be set (`MinimumBreak`,
  `PunctualBreak`).
* **Calls of the script.** It goes on when the program failed, finds its logs by
  name, and sorts and plots what is there (`SortedWhenPlotted`,
  `RangeCoversPlots`, `PlotsComplete`, `NewestWithinMonth`, `LinesAreKept`,
  `ScriptEnds`).

`PROJECT.json` lists these hazards with the line where each bites.

## 2. The modules

```
                    TaskPool  <---- implements ----  PoolProperties -- MCPool
                   /        \                              |
      MCFuture -- Future   SatfRun -- MCSatfRun         PoolCore
                   |          |                            |
          FutureProofs   SatfRunProofs             SchedulingPolicies

      SatfScript -- MCSatfScript, SatfScriptProofs
      LoopedTask -- MCLoopedTask, LoopedTaskProofs
      QuickSort -- MCQuickSort, QuickSortProofs
      PoolProperties -- PoolCoreProofs -- PoolRefinementProofs
```

| Module | Content |
|---|---|
| `SchedulingPolicies` | the three task containers as operators on sequences: `push`, `top`, `pop`, `TopPositions` |
| `PoolCore` | the pool with its workers, policies and handle |
| `PoolProperties` | what the pool must do, the refinement mapping, and what its documentation says that it does not do |
| `TaskPool` | the abstract specification: a pool without threads |
| `Future` | futures on top of `TaskPool`, with their properties |
| `SatfRun` | a run of the program on top of `TaskPool`: `main`, the measurements on the workers, `CountLess`, the log |
| `QuickSort` | `quick_sort`, one step per call |
| `LoopedTask` | `looped_task_func` and the wall clock |
| `SatfScript` | `satf.sh`, call after call, with the directories that the program leaves |
| `MCPool`, `MCFuture`, `MCSatfRun`, `MCQuickSort`, `MCLoopedTask`, `MCSatfScript` | instances for TLC |
| `SequenceLemmas`, `PoolCoreProofs` (with the containers of `SchedulingPolicies`), `PoolRefinementProofs`, `FutureProofs`, `QuickSortProofs`, `SatfRunProofs`, `LoopedTaskProofs`, `SatfScriptProofs` | lemmas, theorems and proofs |

Definitions whose name ends in `_Something` and that stand before a definition
of the same name are its variants with a plausible mistake; they are used by no
specification, and serve to show that the properties notice the mistake.

### PoolCore and the code

Everything the pool shares is guarded by `m_monitor`, so an action is what a
thread does from locking it until it unlocks it or waits on a condition
(a boost condition releases the mutex atomically). `execute_task` is thus two
actions, `FetchTask` from its first line and `ResumeFetch` from the return of
the wait, which share the pass through its loop (`WaitForTask`). The monitor is
held across actions only while `terminate_all_workers` joins
(`shutdown = "joining"`); all other actions that lock it require `MonitorFree`.

| Variable | Code |
|---|---|
| `m_worker_count` ... `m_terminated_workers` | the members of that name |
| `wpc[w]` | where the worker is in `run`: `fetching`, `asleep` on the task event, `woken`, `executing`, `leaving` (before `worker_destructed`), `dying` (before `worker_died_unexpectedly`), `finishing` (thread about to end), `exited`; `none` is an unused slot |
| `task[w]` | the local `task` of `execute_task` |
| `cpc[c]`, `threshold[c]`, `timed[c]` | a thread in `wait`, and its arguments |
| `shutdown` | `constructing`, `open`, then the steps of `ShutdownPolicy::shutdown` |
| `shutter` | the thread that drops the last copy and so executes the shutdown; it may be a worker, when a task held that copy |
| `done`, `dropped` | history: tasks executed and tasks cleared |

| Action | Code |
|---|---|
| `Construct`, `ControllerResize`, `Resize` | `thread_pool(n)`, `static_size::init`, `resize_controller::resize`, `pool_core::resize` with its loop of `create_and_attach` |
| `Schedule`, `Clear`, `Wait`, `ResumeWait`, `Timeout`, `ReturnFalse` | the calls of that name; `Wait` is both overloads, up to the first sleep |
| `FetchTask`, `ResumeFetch`, `TaskReturns`, `TaskThrows` | `execute_task` |
| `WorkerDestructed`, `WorkerDiedUnexpectedly`, `ThreadExit` | the two callbacks, with `static_size::worker_died_unexpectedly`, and the end of `run` |
| `BeginShutdown`, `ShutdownClear`, `ShutdownWait`, `TerminateAllWorkers`, `ResumeTerminate`, `JoinTerminated` | the last `~thread_pool` and the three shutdown policies |
| `SpuriousWakeup` | what a condition variable may do |

Abstractions. A task is a model value, scheduled once; what it does is to
return, to throw `thread_interrupted` (any other exception ends the process in
`std::terminate` or the thread function, so it has no further behaviour) or to
go on for ever. A slot of `Workers` is free again when nothing refers to the
worker object any more, so `Workers` bounds how many coexist, not how many are
created. A handle's calls happen only while a copy exists
(`shutdown = "open"`), and the last copy is not dropped while a client is in
`wait`; a `resize_controller` has no such limit.

The members of a `volatile` core that are read without the monitor, `size()`
and `active()`, change no state.

### TaskPool

The pool as its users see it: tasks arrive, start in the order of the scheduling
policy, end, or are cleared; the destructor closes the pool, drops what its
policy drops, and passes its wait when nothing is left. There are no workers, no
counters and no conditions. `PoolProperties` maps `PoolCore` to it: `arrived` is
the container (reversed for lifo, which pushes in front), `running` the tasks
that workers hold, `phase` is read off `shutdown`. `ImplementsTaskPool` says
that every behaviour of the threads is one of `TaskPool`.

### Future

Built on `TaskPool` rather than on `PoolCore`, which is justified by that
refinement. `wait` and `set_value` are critical sections of the future's
`m_monitor`; `m_ready`, `m_is_cancelled` and `m_executing` are also accessed
without the lock, by `cancel`, `ready` and `set_execution_status`, so each such
access is an action: `cancel` is `Cancel` (reads `m_ready`), `CancelCheck` (reads
`m_executing`) and `CancelSet`; `future_impl_task_func::operator()` is
`StartTask`, `BeginExecution`, `CheckCancelled`, `CallFunction`, `SetValue`,
`Deliver`, `EndExecution`, `TaskEnds`. `SetValue` is the test of `set_value` and
`Deliver` its writes with the notification; a `cancel` may fall between them, a
waiter may not, as the monitor is held (`MonitorFree`). The constructor does not
initialise `m_executing`, so its first value is arbitrary. Values are not
modelled: what matters is whether there is one.

`CancelTakesEffect` therefore promises no more than the code does: a cancellation
that comes before the test of `set_value` is final and keeps the value back
(`CalledOff`), one that comes before `is_cancelled()` is read keeps the function
from being called (`NotToBeCalled`). One that comes later is answered true and
changes nothing (section 5). `GetReturns` exempts the futures that are
`CalledOff`, not all that are cancelled: a cancellation that comes too late
leaves nobody waiting.

### SatfRun

An instance of `TaskPool` in which a task is a measurement: a file (data set and
algorithm) and the length of the vector that was copied into the `bind`. The
program uses `threadpool::pool`, that is, fifo and wait_for_all_tasks.

| Variable | Code |
|---|---|
| `main` | `starting` (arguments, `log_init`), `growing` (head of the loop over sizes), `scheduling` (the inner loop), `destroying` (`~thread_pool` of `tp`), `returned`; `rejected` for arguments that are refused; `aborted` when an exception that nobody catches ended the process |
| `i`, `next` | the counters of the two loops, `next` with the call in the inner loop's body |
| `data` | the length of each of `data[0]` ... `data[3]`, which always agree |
| `wpc[w]`, `current[w]` | where a worker is in its `measure_...` function |
| `s_count[w]` | `CountLess<int>::s_count` of that thread, `Unset` before the first `CountLess` on it |
| `counted[w]` | what `count()` returned, an argument of `log` |
| `log`, `lost` | the lines of the files, and the measurements whose stream did not open |

`RejectArguments`, `InitThrows`, `Construct`, `Grow`, `ScheduleNext`,
`LeaveMain` and `AwaitPool` are the steps of `main`, `Fetch`, `Sort`, `Count`,
`Log` (with `LogFails` and `LogThrows`) and `FinishTask` those of a worker. A
measurement that is being sorted touches nothing shared, so `Sort` is one step;
`count()` and `log` are two, between which another worker may log. The number of
comparisons of an algorithm is a constant function of file and size, different
for each, so that a count in the wrong line is noticed.

### QuickSort

The state is the array, the calls not yet begun (a call of a recursive function
returns before the next begins, so that the pending ones form a stack) and the
comparisons. `Partition` is a call on a range that is not empty up to its two
recursive calls, `Return` one that is empty. `std::partition` may leave any
arrangement with the smaller elements first. One thing is assumed of it, that it
moves nothing when no element is smaller than the pivot: the second call leaves
out the first element then, which must still be the pivot. The standard does not
promise it; the implementations swap an element only for a smaller one. That the
array stays a permutation of its input is part of that assumption, and no
property. The
overload with a result copies its input and does the same to the copy.

### LoopedTask

`Begin`, `Wake`, `ReturnTrue` and `ReturnFalse` are `operator()` between its
calls of `m_function` and of `thread::sleep`; the deadline is the `xtime` as the
code computes it, with `nsec` of up to two seconds (less than 2^31, so the signed
32 bits of `xt.nsec` hold it). `Tick` is time passing until the task is due,
`SetClock` somebody setting the clock by a second, in either direction;
`forward` and `back` record that it happened during the break.

### SatfScript

`pc` is the phase of the script; `logs` maps the second in which a directory was
created to the lines of its files. Two runs within a second append to the same
files (`log_init` does not mind that its directory exists). `RunBinary` leaves
any lines that a run may leave: of some of the sizes, in any order (a process
that is ended by an exception leaves some), or no directory at all. `LastLog` is
`ls | tail -n1`, with the order of the names of the months; `Sorted` is
`sort -n`, any arrangement of the lines that is in order; `todo` is what the
nested loops have still to do, as positions in the order of `ls`; `MaximumOf` is the last line's number; `plot_line` is
`ALL_IN_ONE_PLOT_LINE_...` with its separators, and a plot is drawn only if they
stand where gnuplot needs them. The two maxima and the two lines, for time and
for comparisons, are handled alike, and one of each is modelled. `Tick` moves the
local time on at any moment, `Clean` is `satf.sh clean`.

## 3. The runs

Every run visits all states of its instance, the largest (`satf_script`, about
530,000 states, and `satf_run`, about 330,000) within a minute and a half.
`CHECK_DEADLOCK FALSE` everywhere: a pool that is shut down, callers who call no
more, a program that has returned, a loop that has ended and a script that
nobody calls legitimately stop. (That waiting ends is stated as liveness.)

| Run | Bounds | Shows |
|---|---|---|
| `pool_safety` | 3 worker slots, 2 at first, 3 tasks, 1 client, resizes to 0, 1 and 3, `wait(0)`, `wait(1)`, both forms; clear, failed threads, spurious wakeups, all tasks may throw; fifo, wait_for_all_tasks; symmetry | types, exact counters, execution once, no lost wakeup, the shutdown's promise, quiet returns from `wait`, termination is final, refinement of `TaskPool` |
| `pool_active` | the same size; lifo, wait_for_active_tasks, no clear, threads never fail | no missed event for `wait(0)` and the shutdown |
| `pool_immediate` | the same size; prio with equal and different priorities, immediately; one task throws, one goes on for ever, and a task may drop the last copy; no symmetry, priorities differ | refinement for those policies |
| `pool_liveness` | 2 slots, 1 worker at first, growing to 2; 3 tasks of two priorities, one may throw; `wait(0)`, `wait(1)`, both forms, clear | every task ends, `wait`, the shutdown and the workers end; the size is preserved; refinement of the fair `TaskPool` |
| `future_safety` | 2 tasks, one empty, one that may throw, 2 callers; symmetry on callers | all safety of futures |
| `future_liveness` | 1 task, 2 callers who wait with or without timestamp and cancel | `get` returns, unless the task was cleared or cancelled in time |
| `satf_run` | up to 2 workers, 2 data sets, 2 algorithms; `--min`/`--max` of 1 and 3, 2 and 2, 0 and 0, and 2 and 1, which is refused; one line may be lost (`MaxLost`), directories may fail | counts, lines, order and completeness of the logs; `main` returns |
| `quick_sort` | all arrays of up to 5 elements of 3 values, all arrangements of `std::partition` | sorted, bounded depth and comparisons |
| `looped_task` | breaks of 0 to 2 s, on and off whole seconds, looked at every 250 ms; 4 s; the clock is set up to twice | no break is too short unless the clock is set forward, nor longer than by what it is set back |
| `satf_script` | 2 calls, of sizes 9 and 10, 0 and 1, and a refused range; two seconds in November and one in December; 3 files in 2 directories | files are sorted before they are plotted, ranges cover, the directory is the newest within a month, nothing is lost, every call ends |
| `doc_shutdown_awaits_workers` | 2 workers, 2 tasks, no other calls | section 5 |
| `doc_last_log` | the instance of `satf_script` | section 5 |

Why these bounds are enough to be interesting: three workers let one be
notified, another take its task and a third die or be surplus at the same time;
three tasks leave one pending while two execute, and tell fifo, lifo and
priority order apart; size 0 empties the pool, and size 3 grows it beyond its
first size; one client suffices because clients do not affect one another (their
states are independent, and `notify_all` wakes them all); the shutdown is a
second waiter with a condition of its own. Two callers of a future are needed
for `notify_all`. Two measurements on one worker share its counter, and two
workers a file; sizes up to 3 let one worker fall behind by more than a size if
the pool let it. Arrays of five have room for two partitions within a part, with
equal elements on both sides. Sizes 9 and 10 tell numbers from text, and two
calls are the least for a directory to be shared or to be the wrong one. The
safety results do not rest on the bounds where they are proved for any
(section 4).

`NoMissedIdleEvent` is checked without `clear`, which lowers the sum without a
notification; with `clear` a waiter may sleep a while longer, until the worker
that was notified for the cleared task goes back to sleep, and `WaitReturns` in
`pool_liveness` shows that it does, in a pool that has workers.
`SizePreserved` is checked without shrinking and without failing threads, its
own premises. `NewestWithinMonth` has its premise because the code fails without
it (`doc_last_log`).

### Fairness

`FairSpec` assumes weak fairness of each worker, of each client inside `wait`,
of the thread that executes the shutdown and of the constructor: threads that
can run do. As an action is a whole critical section, this includes that a
thread contending for the monitor gets it eventually, as mutexes of the platform
provide. Weak fairness suffices, since the monitor is free whenever an action
begins except during the joins, which end in a state that does not come back.
For a worker in a task it says that the task ends, which the tasks of the
liveness runs do; `EndlessTasks` are exempt by their missing action. Callers are
under no obligation: nobody must schedule, resize, clear or drop the pool, and
spurious wakeups need not happen. `FutureFairSpec` takes from `TaskPool` what
`ImplementsFairTaskPool` shows of the pool, that pending tasks start and end.

The others are fair in the same sense: `SatfFairSpec` to the thread of `main`
and to each worker, `ScriptFairSpec` to a script that nobody interrupts (but
nobody need call it again). A caller of a future may find its monitor taken while
a value is delivered, which happens once, so weak fairness suffices there too.
`quick_sort` and the looped task are checked without fairness: that the recursion
is bounded says that the one ends, and that a break is at most so long that the
other goes on as time does.

## 4. The proofs

All theorems are for every value of the constants that satisfies the assumption
of the module: `PoolAssumption` (finitely many workers, a known policy, disjoint
names), `SatfAssumption` (data sets and algorithms have distinct names),
`QuickSortAssumption` (the elements are integers), `LoopedTaskAssumption` (times
are numbers, and the grain of time divides a second), `ScriptAssumption` (`ls`
lists a directory's files one after the other, and what is measured grows with
the size, as `satf.sh:68` assumes). TLC evaluates each of them in the runs.

**Counters, wakeups, sizes** (`PoolCoreProofs`). `NoLostTaskWakeup` is not
inductive: an awake worker that is surplus leaves with tasks pending, so one has
to know that nobody sleeps then (`ShrinkReachesSleepers`); that in turn depends
on which workers the counters count (`CountersExact`), and on the target being 0
after termination. `IInv` is the conjunction of these, with the types and the
agreement of `wpc` and `task`. The counters are sums over threads, so the proof
rests on two lemmas about cardinality, for one thread that moves (`OneMoves`) and
for a set of them (`SomeMove`); each action is an instance of one of them.
Theorems: `Invariance`, `TypeCorrect` (no counter goes below zero),
`CountersAreExact`, `NoWakeupIsLost`, `ShrinkWakesAll`, `TerminationIsFinal`.

**Tasks** (`PoolCoreProofs`). `ExecutedOnce` is inductive with `IInv`, by a case
split into five ways a step can move tasks (`TaskSteps`), of which the places of
tasks (`OnePlace`) follow: `TasksAreExecutedOnce`.

**Shutdown and wait** (`PoolCoreProofs`). Passing `pool.wait()` needs
`Load = 0`, which by `CountersExact` means that nobody executes; later steps
keep it, as nothing is pending and nothing can be scheduled:
`ShutdownPolicyIsKept`. The same count gives `WaitReturnsOnlyWhenQuiet`.

**Sleepers of wait and shutdown** (`PoolCoreProofs`). `NoMissedIdleEvent` is
inductive with `IInv` and one more fact, that no client is in `wait` once the
shutdown has begun (`IdleInv`): the last worker to become idle finds both counts
at zero and notifies. `IdleEventIsNotMissed` has the premise that `clear` is not
called, without which the property is false; `ShutdownIsAwakened`, its half about
the shutdown, needs no premise, since nothing but the shutdown clears then.

**Size** (`PoolCoreProofs`). `SizeIsPreserved` rests on `SizeInv`: until the
workers are terminated there are as many as the target says, none of them on its
way out. A worker that dies is replaced within the critical section that counts
it out, and without a surplus no other ever leaves. The premises are those of
`static_size`: no call shrinks the pool (`NobodyShrinks`, about the calls that are
made) and threads can be created.

**Refinement** (`PoolRefinementProofs`). `PoolImplementsTaskPool`: the initial
states map to initial states, and each step to a step of `TaskPool` or to a
stutter, from what the containers do (`PushProperties`, `PopProperties`,
`ReversePush`, `ReversePop`) and where the shutdown goes (`PhaseSteps`). It
covers the three scheduling and the three shutdown policies.

**Futures** (`FutureProofs`). `FutureInv` relates the three places that know
about a task: the pool (`PlacesInv`), its execution and its future
(`ExecutionInv`), and the calls on it (`CallsInv`, which is what makes an answer
of `cancel` still true when it is given). From it `ReadyOnlyWhenComputed`,
`NoValueIsMissed`, `RefusedCancellationIsOver`; and `CancellationTakesEffect`,
since a cancelled task goes on only from where it already is behind the test
(`CancelledExecution`).

**Types.** `TypeOK` is checked and proved; `SortTypeOK`, which says that no range
leaves the array, `SatfTypeOK`, `LoopTypeOK` and `ScriptTypeOK` are part of the
inductive invariants and proved without a run. That the pool keeps its promise and its finality under
the policies that `pool_safety` does not have is proved as well
(`ShutdownPolicyIsKept`, `TerminationIsFinal`).

**quick_sort** (`QuickSortProofs`). That the array is sorted at the end is made
inductive by `Placed`: two elements in the wrong order lie within the range of
one pending call. This needs the ranges to be disjoint and in order
(`Ordered`), and inside the array (`SortTypeOK`); `DepthLeft` says that depth
and length of each range together do not exceed the array. A step is either the
end of a call on an empty range or a partition, whose effect on an arbitrary pair
of elements is split by which of them the range holds. Theorems:
`SortInvariance`, `RangesAreValid`, `QuickSortSorts`, `RecursionIsBounded`.
`ComparisonsAreBounded` needs a sum over the pending calls, which no induction of
the prover reaches, so it is written as a sequence of which one exists (`Paid`):
`rest[n]` pays for the n-th call to come, at the worst case of its length
(`Cost`), and for those after it; with the comparisons made so far `rest[1]`
stays within the cost of the whole array (`Pays`). A partition puts two costs in
the place of one, which covers both and the comparisons of the partition.

**A run of the program** (`SatfRunProofs`). `SatfInv` relates the places of a
measurement: the pool has each in one place (`PlacesInv`), each worker its own
(`WorkersInv`, which also has the counter zero or unset whenever a worker
begins to sort: this makes `CountsBelongToLines` inductive), it is recorded or
lost exactly when it is over or about to be (`LogInv`), and the pool has been
given exactly what the two loops have passed (`MainInv`, in terms of `i` and
`next`). Theorems: `SatfInvariance`, `SatfTypeCorrect`, `CountsAreRight`,
`LogsHaveOneLineEach`, `LogsAreComplete`.
`LinesAreLittleOutOfOrder` needs two more facts, that every running measurement
is held by a worker of the pool (`HeldInv`) and that the pool has started all
smaller sizes of a file first (`FifoInv`): the missing sizes then map one to one
into the other workers.

**The looped task** (`LoopedTaskProofs`). `xtime` has seconds and nanoseconds,
and the deadline nanoseconds of up to two seconds. `Time` makes either a number
of nanoseconds, of which the comparison and the carries of the code are the
comparison and the sum. `LoopInv` says that the two members the constructor
divides the interval in are the interval together, that clock and deadline are
as far apart as time is left of the break, closer only if the clock was set
forward, and farther by no more than it was set back. From it `BreaksArePunctual` and `BreaksAreLongEnough`, for every interval
in milliseconds and every grain of time that divides a second.

**The script** (`SatfScriptProofs`). `ScriptInv` says what the loops have done
so far: the files that are no longer in `todo` are sorted and within the maximum
(`HandledInv`), those that have left the second loop are plotted, and the plot
line still has all its commas until the first combined plot (`PlotsInv`); that
the directory is there (`ChosenInv`); and that the one written last is the
youngest (`NewestInv`). `FilesAreSortedWhenPlotted`, `RangeCoversAllPlots`,
`PlotsAreComplete` and `NewestIsChosenWithinMonth` follow from it. `NoLineIsLost`
counts equal lines, through the bijection of an arrangement and through
concatenation. What `sort` computes is taken from its definition, an arrangement
in order; that each sequence has one is not proved (it is an induction over
data), but `ScriptEnds` would fail in `satf_script` if the loop were stuck, as it
would if no directory were the last.

**Only model-checked.** All liveness (`EveryTaskEnds`, `WaitReturns`,
`ShutdownReturns`, `WorkersLeave`, `GetReturns`, `ImplementsFairTaskPool`,
`MainReturns`, `ScriptEnds`): the prover has no support
for fairness and ENABLED. Every invariant and every action property that a
passing run checks, and the refinement `ImplementsTaskPool`, is stated by a
theorem. The inductive invariants were checked by TLC on the instances of the
runs before they were proved.

## 5. Where documents and code disagree

Each `doc_` run checks one property that states what a comment says, and finds a
behaviour of the code that violates it; `PROJECT.json` quotes the comments.

| Run | Disagreement |
|---|---|
| `doc_shutdown_awaits_workers` | the shutdown that "waits for ... the worker termination" returns at once when all workers are idle: they are not counted as active, and nobody has retired to be joined. In this program static destructors may thus run while workers still end. |
| `doc_last_log` | "the last generated log dir" (`satf.sh:56`) is the last one by name, and the names hold the month's name: after a run in November, a run in December generates a directory that the script does not look at. |

Also visible in the models, without a run of their own.

In the pool:

* A worker that retires after the shutdown is put into a vector of the pool it
  keeps alive (`TP/detail/pool_core.hpp:396`), a cycle that is never freed.
* Workers decide to leave and are counted out in two critical sections
  (`:410`, `:390`), so one surplus worker can send several away, and none is
  created in their place.
* The timed `wait` returns false at its timestamp without another look at its
  condition (`:278`), also when nothing is left.
* `wait(k)`, k > 0, is notified only by workers that become idle, and may sleep
  on although the sum is at k (`:257`).
* A task that drops the last copy of its pool waits for itself, under the two
  policies that wait (`TP/pool.hpp:101`).
* `active()` "returns the number of tasks which are currently executed"
  (`TP/detail/pool_core.hpp:198`), but counts workers that look for a task or
  leave.
* `static_size` "preserves the thread count" (`TP/size_policies.hpp:63`), but a
  worker that dies sets the target to the current count, undoing a shrink that
  the other workers have not obeyed yet (`Replace`).

The program itself meets only the first of these: it neither resizes nor waits,
and its tasks hold no copy of the pool.

In the futures and adaptors:

* `get()` is annotated with `throw( thread::cancelation_exception, ... )`
  (`TP/future.hpp:86`), but the code that would throw is commented out:
  on a cancelled future it blocks for ever, and `GetReturns` exempts it.
* `cancel()` may answer true for a value that is delivered all the same: it
  writes `m_is_cancelled` without the lock (`TP/detail/future.hpp:135-138`), and
  `set_value` does not look again after its test (`:113`, `:116`). It also answers
  true when the value has been delivered but the worker has not yet come to
  `set_execution_status(false)` (`:201`); and a cancellation between
  `is_cancelled()` (`:196`) and the call (`:199`) does not prevent the call.
* "The minimum break time" (`TP/task_adaptors.hpp:120`) is not kept when the
  wall clock is set forward during a break, and a clock that is set back
  lengthens it by as much (`PunctualBreak`).

In the program and its script:

* `README` lists `quick_sort` and `std::partial_sort` as measured, which
  `src/main.cpp:148-153` does not schedule. The call of `measure_quick_sort` is
  commented out; it would not compile, as `CountLess` lacks the typedefs that
  `std::bind2nd` asks for.
* The partially sorted data equal the sorted data: both get `i` at each size, so
  the `sort` at `src/main.cpp:139` finds nothing to do.
* Times are measured in microseconds (`src/main.cpp:48`) and called milliseconds
  from there on (`src/utility.cpp:47`, `satf.sh:87`, `:106`).
* "Results are logged per execution run" (`README:4`), but runs within a second
  share a directory (`src/utility.cpp:34-37`).
* With `--threads 0`, or where `hardware_concurrency()` is 0, `main` schedules
  everything and never returns; `MainReturns` has a worker as its premise.
* `ALL_IN_ONE_PLOT_LINE_...` is reset for no directory and has lost its last
  separator after the first (`satf.sh:122-128`): the combined plots of all other
  data sets are not drawn, and gnuplot's complaint goes to `/dev/null`.
  `PlotsComplete` promises the first only.
* The x-range of the plots is that of this call's arguments, also when the
  directory is another run's (`satf.sh:105`).

## 6. Not modelled

* The contents of the vectors, the column of times (which has no meaning to the
  program), `print_vector` (called only from comments), and `heap_sort`, which is
  a call of `std::make_heap` and one of `std::sort_heap`.
* The end of the loop `i <= max_size` at the largest `unsigned int`: the vectors
  would need more memory than there is.
* Concurrent calls of `satf.sh`, directories in which no file could be opened,
  and local time that is set back.
* `pool_adaptors.hpp`'s overloads, which wrap their argument and call
  `schedule`.
* Memory: the reference counts of core, workers and futures appear only through
  what they decide (who drops the last copy, which worker slot is free).
* Widths of the pool's counters: proved to be numbers of existing threads, so
  they do not wrap.
* Calls of `wait` inside a task of the same pool, which deadlock by design, and
  copies or swaps of handles, which change no shared state.
* Build files and the umbrella header.

## 7. Plan

1. The lifetime of core, workers and handles as reference counts, to state the
   leak and the end of the process where they happen, with its invariant proved.
2. Steps towards liveness that the prover can do: that each of the steps on which
   `EveryTaskEnds` and `ShutdownReturns` rest decreases a measure.
3. Theorems about what `TaskPool` promises by itself (order of starts, nothing
   after the destructor), which the pool then inherits by refinement.
