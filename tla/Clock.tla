-------------------------------- MODULE Clock -------------------------------
(***************************************************************************)
(* The two ways this code measures time on a millisecond counter that      *)
(* wraps: a deadline (utils_timer.c: iotx_time_t) and a start with a       *)
(* length (sdk_impl.c: timerGetId, timerIsEnd, delay; the ports carry the  *)
(* same code as timer_get_left).  One wait is armed at a time, both ways.  *)
(***************************************************************************)
EXTENDS Integers

CONSTANTS ClockRange,   \* 2^32
          ClockWaits,   \* lengths of waits
          ClockLongest  \* bound: how long a wait is looked at

ASSUME ClockAssumption ==
  /\ ClockRange \in Nat /\ ClockRange > 3
  /\ ClockRange = 2 * (ClockRange \div 2)
  /\ ClockWaits \subseteq 0 .. ClockRange - 1
  /\ ClockLongest \in Nat

VARIABLES clock,     \* HAL_UptimeMs()
          deadline,  \* iotx_time_t.time
          timerID,   \* timerGetId() at the start
          wait,      \* the length of the wait
          elapsed    \* history: the time since the start, without wrap

clockVars == <<clock, deadline, timerID, wait, elapsed>>

UINT_MAX == ClockRange - 1

(* uint32_t addition and subtraction.                                      *)
Plus(a, b) == IF a + b < ClockRange THEN a + b ELSE a + b - ClockRange
Minus(a, b) == IF a >= b THEN a - b ELSE a - b + ClockRange

-----------------------------------------------------------------------------
(* Mutant: compared as numbers that do not wrap.                           *)
ExpiredPlainly == clock >= deadline

(* utils_time_is_expired: less than half the range after the deadline.     *)
Expired == Minus(clock, deadline) < UINT_MAX \div 2

(* iotx_time_left                                                          *)
Left == IF Expired THEN 0 ELSE Minus(deadline, clock)

(* utils_time_spend                                                        *)
Spent == Minus(clock, timerID)

(* timerIsEnd: after a wrap the result is one short.                       *)
ElapsedMillis ==
  IF clock < timerID THEN UINT_MAX - timerID + clock ELSE clock - timerID
TimerIsEnd == ElapsedMillis >= wait

(* The loop of delay() is over.                                            *)
DelayOver == wait = 0 \/ ElapsedMillis > wait

-----------------------------------------------------------------------------
(* utils_time_countdown_ms, timerGetId                                     *)
ClockStart ==
  \E ms \in ClockWaits :
    /\ deadline' = Plus(clock, ms)
    /\ timerID' = clock
    /\ wait' = ms
    /\ elapsed' = 0
    /\ UNCHANGED clock

ClockTick ==
  /\ elapsed < ClockLongest
  /\ clock' = Plus(clock, 1)
  /\ elapsed' = elapsed + 1
  /\ UNCHANGED <<deadline, timerID, wait>>

ClockInit ==
  /\ clock = 0 /\ deadline = 0 /\ timerID = 0 /\ wait = 0 /\ elapsed = 0

ClockNext == ClockStart \/ ClockTick

ClockSpec == ClockInit /\ [][ClockNext]_clockVars

-----------------------------------------------------------------------------
ClockTypeOK ==
  /\ clock \in 0 .. UINT_MAX /\ deadline \in 0 .. UINT_MAX
  /\ timerID \in 0 .. UINT_MAX
  /\ wait \in 0 .. UINT_MAX /\ elapsed \in Nat

(* Both ways of waiting are right although the counter wraps in between.   *)
(* A deadline up to half the range away, looked at within half the range   *)
(* after it, is past exactly when it is, and the time left is right; looked*)
(* at later, a past deadline counts as one to come.  timerIsEnd and delay, *)
(* looked at before the counter comes round, never end early, and end at   *)
(* most a millisecond late where it wraps.                                 *)
ClockRight ==
  /\ wait <= ClockRange \div 2 /\ elapsed - wait < UINT_MAX \div 2 =>
       /\ Expired <=> elapsed >= wait
       /\ Left = IF elapsed >= wait THEN 0 ELSE wait - elapsed
  /\ elapsed < ClockRange =>
       /\ TimerIsEnd => elapsed >= wait
       /\ elapsed > wait => TimerIsEnd
       /\ DelayOver /\ wait > 0 => elapsed > wait
       /\ Spent = elapsed

=============================================================================
