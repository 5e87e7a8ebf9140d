-------------------------- MODULE LoopedTaskProofs --------------------------
(***************************************************************************)
(* The breaks of a looped task, proved for every interval, every step in   *)
(* which its thread looks at the time and however often the wall clock is  *)
(* set.                                                                    *)
(***************************************************************************)
EXTENDS LoopedTask, TLAPS

-----------------------------------------------------------------------------
(* Times as numbers of nanoseconds.                                        *)

Time(t) == t.sec * Billion + t.nsec

IsTime(t) == t \in [sec : Nat, nsec : Nat]

LoopTypeOK ==
  /\ pc \in {"called", "sleeping", "calling", "ended"}
  /\ interval \in Nat
  /\ m_break_s \in Nat /\ m_break_ns \in Nat /\ m_break_ns < Billion
  /\ IsTime(clock) /\ clock.nsec < Billion
  /\ IsTime(deadline) /\ deadline.nsec < 2 * Billion
  /\ elapsed \in Nat /\ sets \in Nat
  /\ forward \in BOOLEAN /\ back \in Nat

(* The constructor divides the interval in two members, which together are *)
(* the interval; the clock is as far from the deadline as time is left of  *)
(* the break, closer only if it was set forward, and farther by no more    *)
(* than it was set back.                                                   *)
LoopInv ==
  /\ LoopTypeOK
  /\ m_break_s * Billion + m_break_ns = interval * Million
  /\ pc = "sleeping" /\ ~forward =>
       Time(clock) + interval * Million <= Time(deadline) + elapsed * Million
  /\ pc = "sleeping" =>
       Time(clock) + interval * Million + back * Billion >=
         Time(deadline) + elapsed * Million
  /\ PunctualBreak

LEMMA StepType == Step \in Nat /\ 1 <= Step /\ Step <= 1000
BY LoopedTaskAssumption

LEMMA TimeType ==
  ASSUME NEW t, IsTime(t)
  PROVE  Time(t) \in Nat
<1>1. PICK s, n \in Nat : t.sec = s /\ t.nsec = n
  BY DEF IsTime
<1>2. s * Billion + n \in Nat
  BY SMT DEF Billion, Million
<1> QED BY <1>1, <1>2 DEF Time

LEMMA MillionsType ==
  ASSUME NEW n \in Nat
  PROVE  n * Million \in Nat
BY SMT DEF Million

(* The constructor loses nothing of the interval.                          *)
LEMMA IntervalDivided ==
  ASSUME NEW ms \in Nat
  PROVE  /\ Seconds(ms) \in Nat
         /\ Nanoseconds(ms) \in Nat /\ Nanoseconds(ms) < Billion
         /\ Seconds(ms) * Billion + Nanoseconds(ms) = ms * Million
<1>1. PICK s, r \in Nat : s = ms \div 1000 /\ ms = s * 1000 + r /\ r < 1000
  <2>1. /\ ms \div 1000 \in Nat /\ ms % 1000 \in Nat /\ ms % 1000 < 1000
        /\ ms = (ms \div 1000) * 1000 + (ms % 1000)
    OBVIOUS
  <2> QED BY <2>1
<1>2. Seconds(ms) = s /\ Nanoseconds(ms) = r * 1000 * 1000
  BY <1>1 DEF Seconds, Nanoseconds
<1> QED BY <1>1, <1>2, SMT DEF Billion, Million

(* xt is compared as a time, although its nsec may hold another second.    *)
LEMMA ReachedInTime ==
  ASSUME LoopTypeOK
  PROVE  Reached <=> Time(clock) >= Time(deadline)
<1>1. PICK cs, cn, ds, dn \in Nat :
        /\ cs = clock.sec /\ cn = clock.nsec /\ cn < Billion
        /\ ds = deadline.sec /\ dn = deadline.nsec
  BY SMT DEF LoopTypeOK, IsTime, Billion, Million
<1>2. PICK q, r \in Nat : /\ q = dn \div Billion /\ r = dn % Billion
                          /\ dn = q * Billion + r /\ r < Billion
  <2>1. /\ dn \div 1000000000 \in Nat /\ dn % 1000000000 \in Nat
        /\ dn % 1000000000 < 1000000000
        /\ dn = (dn \div 1000000000) * 1000000000 + (dn % 1000000000)
    OBVIOUS
  <2>2. Billion = 1000000000
    BY SMT DEF Billion, Million
  <2> QED BY <2>1, <2>2
<1>3. Reached <=> cs > ds + q \/ (cs = ds + q /\ cn >= r)
  BY <1>1, <1>2 DEF Reached
<1>4. PICK x \in Nat : x = ds + q
  OBVIOUS
<1>5. Billion = 1000000000
  BY SMT DEF Billion, Million
<1>6. /\ Time(clock) = cs * 1000000000 + cn
      /\ Time(deadline) = x * 1000000000 + r
  <2>1. Time(deadline) = ds * 1000000000 + (q * 1000000000 + r)
    BY <1>1, <1>2, <1>5 DEF Time
  <2>2. Time(clock) = cs * 1000000000 + cn
    BY <1>1, <1>5 DEF Time
  <2> QED BY <1>4, <2>1, <2>2, SMT
<1>7. cn < 1000000000 /\ r < 1000000000
  BY <1>1, <1>2, <1>5
<1>8. cs * 1000000000 + cn >= x * 1000000000 + r <=>
        cs > x \/ (cs = x /\ cn >= r)
  BY <1>7, SMT
<1> QED BY <1>3, <1>4, <1>6, <1>8

-----------------------------------------------------------------------------
(* The steps.                                                              *)

LEMMA LoopInvInit == LoopInit => LoopInv
<1> SUFFICES ASSUME LoopInit PROVE LoopInv
  OBVIOUS
<1>1. interval \in Nat /\ pc = "called" /\ elapsed = 0 /\ sets = 0
      /\ forward = FALSE /\ back = 0 /\ deadline = clock
  BY LoopedTaskAssumption DEF LoopInit
<1>2. /\ m_break_s \in Nat /\ m_break_ns \in Nat /\ m_break_ns < Billion
      /\ m_break_s * Billion + m_break_ns = interval * Million
  BY <1>1, IntervalDivided DEF LoopInit
<1>3. Billion - Step * Million \in Nat /\ Billion - Step * Million < Billion
  BY StepType, SMT DEF Billion, Million
<1>4. IsTime(clock) /\ clock.nsec < Billion
  BY <1>3 DEF LoopInit, IsTime
<1>5. clock.nsec < 2 * Billion
  BY <1>4, SMT DEF IsTime, Billion, Million
<1> QED BY <1>1, <1>2, <1>4, <1>5 DEF LoopInv, LoopTypeOK, PunctualBreak

LEMMA BreakInv ==
  ASSUME LoopInv, Break
  PROVE  LoopInv'
<1>0. LoopTypeOK /\ m_break_s * Billion + m_break_ns = interval * Million
  BY DEF LoopInv
<1>1. /\ elapsed' = 0 /\ forward' = FALSE /\ back' = 0
      /\ UNCHANGED <<empty, interval, m_break_s, m_break_ns, clock, sets>>
  BY DEF Break, members
<1>2. CASE ~(m_break_s > 0 \/ m_break_ns > 0)
  <2>1. pc' = "calling" /\ UNCHANGED deadline
    BY <1>2 DEF Break
  <2> QED BY <1>0, <1>1, <2>1 DEF LoopInv, LoopTypeOK, PunctualBreak
<1>3. CASE m_break_s > 0 \/ m_break_ns > 0
  <2>1. /\ pc' = "sleeping"
        /\ deadline' = [sec |-> clock.sec + m_break_s,
                        nsec |-> clock.nsec + m_break_ns]
    BY <1>3 DEF Break
  <2>2. PICK cs, cn, s, n, i \in Nat :
          /\ cs = clock.sec /\ cn = clock.nsec /\ cn < Billion
          /\ s = m_break_s /\ n = m_break_ns /\ n < Billion
          /\ i = interval
    BY <1>0 DEF LoopTypeOK, IsTime
  <2>3. IsTime(deadline') /\ deadline'.nsec < 2 * Billion
    BY <2>1, <2>2, SMT DEF IsTime, Billion, Million
  <2>4. /\ Time(clock) = cs * Billion + cn
        /\ Time(deadline') = (cs + s) * Billion + (cn + n)
    BY <2>1, <2>2 DEF Time
  <2>5. Time(deadline') = Time(clock) + interval * Million
    <3>1. s * Billion + n = i * Million
      BY <1>0, <2>2, Zenon
    <3>2. (cs + s) * Billion + (cn + n) = (cs * Billion + cn) + i * Million
      BY <3>1, SMT DEF Billion, Million
    <3> QED BY <2>2, <2>4, <3>2, Zenon
  <2>6. elapsed' * Million = 0 /\ back' * Billion = 0
    BY <1>1, SMT DEF Million, Billion
  <2>7. Time(clock) \in Int /\ interval * Million \in Int
    BY <1>0, TimeType, MillionsType DEF LoopTypeOK
  <2>8. PunctualBreak'
    BY <1>0, <1>1, StepType DEF PunctualBreak, LoopTypeOK
  <2>9. LoopTypeOK'
    BY <1>0, <1>1, <2>1, <2>3 DEF LoopTypeOK
  <2>10. Time(clock') = Time(clock) /\ interval' = interval
    BY <1>1
  <2>11. (m_break_s * Billion + m_break_ns = interval * Million)'
    BY <1>0, <1>1
  <2>12. /\ Time(clock') + interval' * Million <=
              Time(deadline') + elapsed' * Million
         /\ Time(clock') + interval' * Million + back' * Billion >=
              Time(deadline') + elapsed' * Million
    BY <2>5, <2>6, <2>7, <2>10
  <2> QED BY <2>8, <2>9, <2>11, <2>12 DEF LoopInv, Time
<1> QED BY <1>2, <1>3

(* Time that passes brings the clock closer to the deadline.               *)
LEMMA TickInv ==
  ASSUME LoopInv, Tick
  PROVE  LoopInv'
<1>0. LoopTypeOK
  BY DEF LoopInv
<1>1. /\ pc = "sleeping" /\ ~Reached /\ elapsed' = elapsed + Step
      /\ UNCHANGED <<pc, empty, interval, m_break_s, m_break_ns, deadline, sets,
                     forward, back>>
  BY DEF Tick, members
<1>2. PICK cs, cn, e, i, b \in Nat :
        /\ cs = clock.sec /\ cn = clock.nsec /\ cn < Billion
        /\ e = elapsed /\ i = interval /\ b = back
  BY <1>0 DEF LoopTypeOK, IsTime
<1>3. /\ IsTime(clock') /\ clock'.nsec < Billion
      /\ Time(clock') = Time(clock) + Step * Million
  <2>0. clock = [sec |-> cs, nsec |-> cn]
    BY <1>0, <1>2 DEF LoopTypeOK, IsTime
  <2>1. CASE cn + Step * Million < Billion
    <3>1. clock' = [sec |-> cs, nsec |-> cn + Step * Million]
      BY <1>2, <2>0, <2>1 DEF Tick
    <3>2. cn + Step * Million \in Nat /\ cn + Step * Million < Billion
      BY <2>1, StepType, SMT DEF Billion, Million
    <3> QED BY <2>0, <3>1, <3>2, StepType, SMT DEF IsTime, Time, Billion, Million
  <2>2. CASE ~(cn + Step * Million < Billion)
    <3>1. clock' = [sec |-> cs + 1, nsec |-> cn + Step * Million - Billion]
      BY <1>2, <2>0, <2>2 DEF Tick
    <3>2. /\ cn + Step * Million - Billion \in Nat
          /\ cn + Step * Million - Billion < Billion
      BY <1>2, <2>2, StepType, SMT DEF Billion, Million
    <3> QED BY <2>0, <3>1, <3>2, StepType, SMT DEF IsTime, Time, Billion, Million
  <2> QED BY <2>1, <2>2
<1>4. PICK c, d \in Int : c = Time(clock) /\ d = Time(deadline)
  BY <1>0, TimeType DEF LoopTypeOK
<1>5. Time(deadline') = d /\ Time(clock') = c + Step * Million
  BY <1>1, <1>3, <1>4
<1>6. c < d
  BY <1>0, <1>1, <1>4, ReachedInTime
<1>7. LoopTypeOK'
  BY <1>0, <1>1, <1>3, StepType DEF LoopTypeOK
<1>8. ~forward' => Time(clock') + interval' * Million <=
                     Time(deadline') + elapsed' * Million
  <2>1. ~forward => c + i * Million <= d + e * Million
    BY <1>1, <1>2, <1>4 DEF LoopInv
  <2>2. ~forward => c + Step * Million + i * Million <= d + (e + Step) * Million
    BY <2>1, StepType, SMT DEF Million
  <2> QED BY <1>1, <1>2, <1>5, <2>2
<1>9. c + i * Million + b * Billion >= d + e * Million
  BY <1>1, <1>2, <1>4 DEF LoopInv
<1>10. Time(clock') + interval' * Million + back' * Billion >=
         Time(deadline') + elapsed' * Million
  <2>1. c + Step * Million + i * Million + b * Billion >= d + (e + Step) * Million
    BY <1>9, StepType, SMT DEF Million, Billion
  <2> QED BY <1>1, <1>2, <1>5, <2>1
<1>11. PunctualBreak'
  <2>1. e < i + 1000 * b
    BY <1>6, <1>9, SMT DEF Million, Billion
  <2>2. e + Step < i + Step + 1000 * b
    BY <2>1, StepType
  <2> QED BY <1>1, <1>2, <2>2 DEF PunctualBreak
<1>12. (m_break_s * Billion + m_break_ns = interval * Million)'
  BY <1>1 DEF LoopInv
<1> QED BY <1>7, <1>8, <1>10, <1>11, <1>12 DEF LoopInv, Time

LEMMA SetClockInv ==
  ASSUME LoopInv, SetClock
  PROVE  LoopInv'
<1>0. LoopTypeOK
  BY DEF LoopInv
<1>1. /\ pc = "sleeping" /\ sets' = sets + 1
      /\ UNCHANGED <<pc, empty, interval, m_break_s, m_break_ns, deadline, elapsed>>
  BY DEF SetClock, members
<1>2. sets' \in Nat
  BY <1>0, <1>1 DEF LoopTypeOK
<1>3. PICK cs, cn \in Nat : clock = [sec |-> cs, nsec |-> cn] /\ cn < Billion
  BY <1>0 DEF LoopTypeOK, IsTime
<1>4. \/ /\ forward' = TRUE /\ back' = back
         /\ clock' = [sec |-> cs + 1, nsec |-> cn]
      \/ /\ cs > 0 /\ forward' = forward /\ back' = back + 1
         /\ clock' = [sec |-> cs - 1, nsec |-> cn]
  BY <1>3 DEF SetClock
<1>5. LoopTypeOK'
  <2>1. IsTime(clock') /\ clock'.nsec < Billion
    BY <1>3, <1>4 DEF IsTime
  <2>2. forward' \in BOOLEAN
    BY <1>0, <1>4, Zenon DEF LoopTypeOK
  <2>3. back' \in Nat
    <3>1. PICK b \in Nat : b = back
      BY <1>0 DEF LoopTypeOK
    <3>2. back' = b \/ back' = b + 1
      BY <1>4, <3>1
    <3> QED BY <3>2
  <2> QED BY <1>0, <1>1, <1>2, <2>1, <2>2, <2>3 DEF LoopTypeOK
<1>6. ~forward' => Time(clock') <= Time(clock) /\ ~forward
  BY <1>3, <1>4, SMT DEF Time, Billion, Million
<1>7. /\ Time(clock) \in Int /\ Time(clock') \in Int /\ Time(deadline) \in Int
      /\ interval * Million \in Int /\ elapsed * Million \in Int
  BY <1>0, <1>5, TimeType, MillionsType DEF LoopTypeOK
<1>8. ~forward' => Time(clock') + interval' * Million <=
                     Time(deadline') + elapsed' * Million
  <2>1. ~forward => Time(clock) + interval * Million <=
                      Time(deadline) + elapsed * Million
    BY <1>1 DEF LoopInv
  <2>2. /\ interval' * Million = interval * Million
        /\ elapsed' * Million = elapsed * Million
        /\ Time(deadline') = Time(deadline)
    BY <1>1
  <2> QED BY <1>6, <1>7, <2>1, <2>2
<1>9. (m_break_s * Billion + m_break_ns = interval * Million)'
  BY <1>1 DEF LoopInv
<1>10. PICK b \in Nat : b = back
  BY <1>0 DEF LoopTypeOK
<1>11. PICK c, d, i, e \in Int :
         /\ c = Time(clock) /\ d = Time(deadline)
         /\ i = interval * Million /\ e = elapsed * Million
  BY <1>7
<1>12. c + i + b * Billion >= d + e
  BY <1>1, <1>10, <1>11 DEF LoopInv
<1>13. Time(clock') + interval' * Million + back' * Billion >=
         Time(deadline') + elapsed' * Million
  <2>1. /\ interval' * Million = i
        /\ elapsed' * Million = e
        /\ Time(deadline') = d
    BY <1>1, <1>11
  <2>2. CASE back' = back /\ clock' = [sec |-> cs + 1, nsec |-> cn]
    <3>1. Time(clock') = c + Billion
      BY <1>3, <1>11, <2>2, SMT DEF Time, Billion, Million
    <3>2. c + Billion + i + b * Billion >= d + e
      BY <1>12, SMT DEF Billion, Million
    <3> QED BY <1>10, <2>1, <2>2, <3>1, <3>2
  <2>3. CASE back' = back + 1 /\ clock' = [sec |-> cs - 1, nsec |-> cn]
    <3>1. Time(clock') = c - Billion
      BY <1>3, <1>11, <2>3, SMT DEF Time, Billion, Million
    <3>2. c - Billion + i + (b + 1) * Billion >= d + e
      BY <1>12, SMT DEF Billion, Million
    <3> QED BY <1>10, <2>1, <2>3, <3>1, <3>2
  <2> QED BY <1>4, <2>2, <2>3
<1>14. PunctualBreak'
  <2>1. PICK x, y, z \in Nat : x = elapsed /\ y = interval /\ z = Step
    BY <1>0, StepType DEF LoopTypeOK
  <2>2. x < y + z + 1000 * b
    BY <1>1, <1>10, <2>1 DEF LoopInv, PunctualBreak
  <2>3. x < y + z + 1000 * (b + 1)
    BY <2>2
  <2> QED BY <1>1, <1>4, <1>10, <2>1, <2>2, <2>3 DEF PunctualBreak
<1> QED BY <1>5, <1>8, <1>9, <1>13, <1>14 DEF LoopInv, Time

LEMMA LoopInvStep == LoopInv /\ [LoopNext]_loopVars => LoopInv'
<1> SUFFICES ASSUME LoopInv, [LoopNext]_loopVars PROVE LoopInv'
  OBVIOUS
<1>1. CASE Begin \/ ReturnTrue
  BY <1>1, BreakInv DEF Begin, ReturnTrue
<1>2. CASE BeginEmpty \/ Wake \/ ReturnFalse
  BY <1>2 DEF BeginEmpty, Wake, ReturnFalse, members, LoopInv, LoopTypeOK,
     PunctualBreak
<1>3. CASE UNCHANGED loopVars
  BY <1>3 DEF loopVars, members, LoopInv, LoopTypeOK, PunctualBreak
<1> QED BY <1>1, <1>2, <1>3, TickInv, SetClockInv DEF LoopNext, LoopStep

THEOREM LoopInvariance == LoopSpec => []LoopInv
BY LoopInvInit, LoopInvStep, PTL DEF LoopSpec

-----------------------------------------------------------------------------
(* What the task's user gets.                                              *)

(* No break exceeds the interval by a look at the time, although seconds   *)
(* and nanoseconds are added, compared and carried apart; nor by more than *)
(* the clock is set back meanwhile.                                        *)
THEOREM BreaksArePunctual == LoopSpec => []PunctualBreak
<1>1. LoopInv => PunctualBreak
  BY DEF LoopInv
<1> QED BY <1>1, LoopInvariance, PTL

(* The interval is the minimum break before each execution, unless the     *)
(* clock is set forward meanwhile: setting it back only prolongs a break.  *)
THEOREM BreaksAreLongEnough == LoopSpec => MinimumBreak
<1> DEFINE A == pc' = "calling" /\ pc # "calling" =>
                  elapsed' >= interval \/ forward
<1>1. LoopInv /\ [LoopNext]_loopVars => [A]_loopVars
  <2> SUFFICES ASSUME LoopInv, LoopNext, pc' = "calling", pc # "calling", ~forward
               PROVE  elapsed' >= interval
    OBVIOUS
  <2>0. LoopTypeOK /\ m_break_s * Billion + m_break_ns = interval * Million
    BY DEF LoopInv
  <2>1. Wake \/ (Begin /\ Break)
    BY DEF LoopNext, LoopStep, Begin, BeginEmpty, ReturnTrue, ReturnFalse, Tick,
       SetClock
  <2>2. CASE Wake
    <3>1. pc = "sleeping" /\ Reached /\ elapsed' = elapsed
      BY <2>2 DEF Wake
    <3>2. PICK c, d \in Int : c = Time(clock) /\ d = Time(deadline)
      BY <2>0, TimeType DEF LoopTypeOK
    <3>3. c >= d
      BY <2>0, <3>1, <3>2, ReachedInTime
    <3>4. c + interval * Million <= d + elapsed * Million
      BY <3>1, <3>2 DEF LoopInv
    <3>5. interval \in Nat /\ elapsed \in Nat
      BY <2>0 DEF LoopTypeOK
    <3> QED BY <3>1, <3>3, <3>4, <3>5, SMT DEF Million
  <2>3. CASE Begin /\ Break
    <3>1. elapsed' = 0 /\ ~(m_break_s > 0 \/ m_break_ns > 0)
      BY <2>3 DEF Break
    <3>2. interval = 0
      BY <2>0, <3>1, SMT DEF LoopTypeOK, Billion, Million
    <3> QED BY <3>1, <3>2
  <2> QED BY <2>1, <2>2, <2>3
<1> QED BY <1>1, LoopInvariance, PTL DEF LoopSpec, MinimumBreak

=============================================================================
