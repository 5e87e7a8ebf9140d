----------------------------- MODULE LoopedTask -----------------------------
(***************************************************************************)
(* A looped_task_func executed by a worker: it takes a break, calls its    *)
(* function, and repeats both until the function returns false.  It sleeps *)
(* until a time of the wall clock, which may be set meanwhile.             *)
(***************************************************************************)
EXTENDS Integers

CONSTANTS
  Intervals,     \* the arguments of the constructor, in milliseconds
  Step,          \* the milliseconds from one look at the time to the next
  LastSecond,    \* a bound on the seconds at which a break begins
  MaxSets        \* a bound on how often the wall clock is set

Million == 1000000
Billion == 1000 * Million

ASSUME LoopedTaskAssumption ==
  /\ Intervals \subseteq Nat
  /\ Step \in 1..1000 /\ 1000 % Step = 0
  /\ LastSecond \in Nat /\ MaxSets \in Nat

VARIABLES
  pc,                       \* where operator() is
  empty,                    \* whether m_function is empty
  interval,                 \* the argument of the constructor
  m_break_s, m_break_ns,    \* what it made of that
  deadline,                 \* xt; its nsec may exceed a second, and stays
                            \* below two, which its 32 bits can hold
  clock,                    \* the wall clock
  elapsed,                  \* milliseconds since the break began
  sets,                     \* how often the clock has been set
  forward, back             \* since the break began: whether the clock was
                            \* set forward, and the seconds it was set back

members == <<empty, interval, m_break_s, m_break_ns>>
loopVars == <<pc, members, deadline, clock, elapsed, sets, forward, back>>

Seconds(ms) == ms \div 1000

Nanoseconds(ms) == (ms - Seconds(ms) * 1000) * 1000 * 1000

LoopInit ==
  /\ pc = "called"
  /\ empty \in BOOLEAN /\ interval \in Intervals
  /\ m_break_s = Seconds(interval)
  /\ m_break_ns = Nanoseconds(interval)
  /\ clock = [sec |-> 0, nsec |-> Billion - Step * Million]
  /\ deadline = clock
  /\ elapsed = 0 /\ sets = 0 /\ forward = FALSE /\ back = 0

Break_RoundedUp ==
  /\ IF m_break_s > 0 \/ m_break_ns > 0
     THEN /\ pc' = "sleeping"
          /\ deadline' = [sec |-> clock.sec + m_break_s + 1, nsec |-> clock.nsec]
     ELSE pc' = "calling" /\ UNCHANGED deadline
  /\ elapsed' = 0 /\ forward' = FALSE /\ back' = 0
  /\ UNCHANGED <<members, clock, sets>>

Break_CarryLost ==
  /\ IF m_break_s > 0 \/ m_break_ns > 0
     THEN /\ pc' = "sleeping"
          /\ deadline' = [sec |-> clock.sec + m_break_s,
                          nsec |-> (clock.nsec + m_break_ns) % Billion]
     ELSE pc' = "calling" /\ UNCHANGED deadline
  /\ elapsed' = 0 /\ forward' = FALSE /\ back' = 0
  /\ UNCHANGED <<members, clock, sets>>

(* A break, or for none a yield to other threads.                          *)
Break ==
  /\ IF m_break_s > 0 \/ m_break_ns > 0
     THEN /\ pc' = "sleeping"
          /\ deadline' = [sec |-> clock.sec + m_break_s,
                          nsec |-> clock.nsec + m_break_ns]
     ELSE pc' = "calling" /\ UNCHANGED deadline
  /\ elapsed' = 0 /\ forward' = FALSE /\ back' = 0
  /\ UNCHANGED <<members, clock, sets>>

Begin ==
  /\ pc = "called" /\ ~empty
  /\ Break

BeginEmpty ==
  /\ pc = "called" /\ empty
  /\ pc' = "ended"
  /\ UNCHANGED <<members, deadline, clock, elapsed, sets, forward, back>>

(* thread::sleep returns at xt; nsec may hold another second.              *)
Reached ==
  LET sec == deadline.sec + deadline.nsec \div Billion
  IN  \/ clock.sec > sec
      \/ clock.sec = sec /\ clock.nsec >= deadline.nsec % Billion

Wake ==
  /\ pc = "sleeping" /\ Reached
  /\ pc' = "calling"
  /\ UNCHANGED <<members, deadline, clock, elapsed, sets, forward, back>>

ReturnTrue ==
  /\ pc = "calling" /\ clock.sec <= LastSecond
  /\ Break

ReturnFalse ==
  /\ pc = "calling"
  /\ pc' = "ended"
  /\ UNCHANGED <<members, deadline, clock, elapsed, sets, forward, back>>

(* Time passes until the worker is due; how late it runs does not matter.  *)
Tick ==
  /\ pc = "sleeping" /\ ~Reached
  /\ clock' = IF clock.nsec + Step * Million < Billion
              THEN [clock EXCEPT !.nsec = @ + Step * Million]
              ELSE [sec |-> clock.sec + 1,
                    nsec |-> clock.nsec + Step * Million - Billion]
  /\ elapsed' = elapsed + Step
  /\ UNCHANGED <<pc, members, deadline, sets, forward, back>>

(* The wall clock is set by a second.                                      *)
SetClock ==
  /\ pc = "sleeping" /\ sets < MaxSets
  /\ \/ /\ clock' = [clock EXCEPT !.sec = @ + 1]
        /\ forward' = TRUE /\ UNCHANGED back
     \/ /\ clock.sec > 0
        /\ clock' = [clock EXCEPT !.sec = @ - 1]
        /\ back' = back + 1 /\ UNCHANGED forward
  /\ sets' = sets + 1
  /\ UNCHANGED <<pc, members, deadline, elapsed>>

LoopStep == Begin \/ BeginEmpty \/ Wake \/ ReturnTrue \/ ReturnFalse

LoopNext == LoopStep \/ Tick \/ SetClock

LoopSpec == LoopInit /\ [][LoopNext]_loopVars

-----------------------------------------------------------------------------
(* The interval is the minimum break before the first execution and        *)
(* between the following ones, in time that passes, unless the clock is    *)
(* set forward during the break.                                           *)
MinimumBreak ==
  [][pc' = "calling" /\ pc # "calling" => elapsed' >= interval \/ forward]_loopVars

(* A break ends within a look at the time of its interval, wherever the    *)
(* seconds of the clock and of the deadline lie; when the clock is set     *)
(* back during the break it is longer by that much, and by no more.        *)
PunctualBreak ==
  pc = "sleeping" => elapsed < interval + Step + 1000 * back

=============================================================================
