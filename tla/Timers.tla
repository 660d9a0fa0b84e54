------------------------------- MODULE Timers -------------------------------
(***************************************************************************)
(* The soft timers (iotx_timer_api.c): a list of timers in the order of    *)
(* their registration, walked by IOT_TIMER_Loop, whose callbacks may call  *)
(* every other operation.                                                  *)
(***************************************************************************)
EXTENDS Integers, Sequences

CONSTANTS TimerNums,      \* numbers of timers
          TimerPeriods,   \* periods, in loops
          TimerRange      \* 2^32, the range of a tick

ASSUME TimerAssumption ==
  /\ TimerRange \in Nat
  /\ \A p \in TimerPeriods : p \in Nat /\ p < TimerRange

VARIABLES timers,    \* the list
          walk,      \* the node TimerListLoop is at (0: it is not running)
          in_cb,     \* the callback of that node is running
          asked      \* history: timers started since their callback last began

timerVars == <<timers, walk, in_cb, asked>>

Nodes == 1 .. Len(timers)
TimerExists(num) == \E i \in Nodes : timers[i].timerNum = num

(* A walk over the list that changes the timers of a number.               *)
ChangeTimer(num, Change(_)) ==
  timers' = [i \in Nodes |-> IF timers[i].timerNum = num THEN Change(timers[i])
                             ELSE timers[i]]

(* The application calls an operation between two loops or in a callback.  *)
MayCall == walk = 0 \/ in_cb

-----------------------------------------------------------------------------
(* A number that is there is ignored (the new node is never freed).        *)
IOT_TIMER_Register(num, period, oneShot) ==
  /\ MayCall
  /\ ~TimerExists(num)
  /\ timers' = Append(timers, [timerNum |-> num, period |-> period,
                 oneShot |-> oneShot, start |-> FALSE, timerTick |-> 0])
  /\ UNCHANGED <<walk, in_cb, asked>>

IOT_TIMER_ChangePeriod(num, period) ==
  /\ MayCall /\ timers # <<>>
  /\ ChangeTimer(num, LAMBDA t : [t EXCEPT !.period = period])
  /\ UNCHANGED <<walk, in_cb, asked>>

(* The ticks of an earlier run are kept.                                   *)
IOT_TIMER_Start(num) ==
  /\ MayCall /\ timers # <<>>
  /\ ChangeTimer(num, LAMBDA t : [t EXCEPT !.start = TRUE])
  /\ asked' = asked \cup {num}
  /\ UNCHANGED <<walk, in_cb>>

IOT_TIMER_Stop(num) ==
  /\ MayCall /\ timers # <<>>
  /\ ChangeTimer(num, LAMBDA t : [t EXCEPT !.start = FALSE])
  /\ UNCHANGED <<walk, in_cb, asked>>

IOT_TIMER_Reset(num) ==
  /\ MayCall /\ timers # <<>>
  /\ ChangeTimer(num, LAMBDA t : [t EXCEPT !.timerTick = 0])
  /\ UNCHANGED <<walk, in_cb, asked>>

IOT_TIMER_Loop ==
  /\ walk = 0 /\ timers # <<>>
  /\ walk' = 1
  /\ UNCHANGED <<timers, in_cb, asked>>

NextNode(i) == IF i < Len(timers) THEN i + 1 ELSE 0

(* Mutant: a period that is already passed is not over.                    *)
DueExactly(t, tick) == t.start /\ tick = t.period

Due(t, tick) == t.start /\ tick >= t.period

(* A node of the walk: its tick, and its callback when the period is over. *)
TimerTurn ==
  /\ walk # 0 /\ ~in_cb
  /\ LET t == timers[walk]
         tick == (t.timerTick + 1) % TimerRange
         due == Due(t, tick)
     IN  /\ timers' = IF t.start
                        THEN [timers EXCEPT ![walk].timerTick = IF due THEN 0 ELSE tick]
                        ELSE timers
         /\ in_cb' = due
         /\ asked' = IF due /\ t.oneShot THEN asked \ {t.timerNum} ELSE asked
         /\ walk' = IF due THEN walk ELSE NextNode(walk)

(* Mutant: a one-shot is not stopped.                                      *)
CallbackReturnsOnly ==
  /\ in_cb
  /\ in_cb' = FALSE
  /\ walk' = NextNode(walk)
  /\ UNCHANGED <<timers, asked>>

(* After the callback a one-shot is stopped, also when the callback has    *)
(* started it again.                                                       *)
CallbackReturns ==
  /\ in_cb
  /\ in_cb' = FALSE
  /\ timers' = IF timers[walk].oneShot THEN [timers EXCEPT ![walk].start = FALSE]
               ELSE timers
  /\ walk' = NextNode(walk)
  /\ UNCHANGED asked

TimersInit == timers = <<>> /\ walk = 0 /\ in_cb = FALSE /\ asked = {}

TimersNext ==
  \/ \E num \in TimerNums, period \in TimerPeriods :
       \/ \E oneShot \in BOOLEAN : IOT_TIMER_Register(num, period, oneShot)
       \/ IOT_TIMER_ChangePeriod(num, period)
  \/ \E num \in TimerNums :
       IOT_TIMER_Start(num) \/ IOT_TIMER_Stop(num) \/ IOT_TIMER_Reset(num)
  \/ IOT_TIMER_Loop \/ TimerTurn \/ CallbackReturns

TimersSpec == TimersInit /\ [][TimersNext]_timerVars

(* The application calls the loop again and again; its callbacks return.   *)
TimersFairness ==
  /\ WF_timerVars(IOT_TIMER_Loop) /\ WF_timerVars(TimerTurn)
  /\ WF_timerVars(CallbackReturns)

-----------------------------------------------------------------------------
TimersTypeOK ==
  /\ \A i \in Nodes :
       /\ timers[i].timerNum \in TimerNums /\ timers[i].period \in TimerPeriods
       /\ timers[i].oneShot \in BOOLEAN /\ timers[i].start \in BOOLEAN
       /\ timers[i].timerTick \in 0 .. TimerRange - 1
  /\ walk \in 0 .. Len(timers) /\ in_cb \in BOOLEAN
  /\ asked \subseteq TimerNums

(* A one-shot runs at most once per start, whatever the callbacks of the   *)
(* other timers and its own do to it in the middle of the walk.            *)
OneShotOnce ==
  \A i \in Nodes : timers[i].oneShot /\ timers[i].start /\ ~(in_cb /\ walk = i) =>
    timers[i].timerNum \in asked

Running(num) == \E i \in Nodes : timers[i].timerNum = num /\ timers[i].start
Fires(num) == in_cb /\ timers[walk].timerNum = num

(* A timer that is left started, and is not reset, fires again and again:  *)
(* changing its period to one it has already passed, from a callback or    *)
(* between two loops, does not make it miss its end.                       *)
TimerFires ==
  \A num \in TimerNums :
    <>[]Running(num) /\ <>[][~IOT_TIMER_Reset(num)]_timerVars => []<>Fires(num)

=============================================================================
