----------------------------- MODULE PartsProofs ----------------------------
(***************************************************************************)
(* Theorems about the parts that share no state: a connection of the       *)
(* network abstraction (Net), the two ways to measure time (Clock), the    *)
(* soft timers (Timers), the keys (Keys), payload encryption (Crypto) and  *)
(* the log's cache of levels (Log), each for every value of its constants; *)
(* and the types of all the parts as module MCParts runs them together,    *)
(* the streams of StreamProofs and the CoAP messages among them.           *)
(***************************************************************************)
EXTENDS MCParts, StreamProofs, WellFoundedInduction, SequenceTheorems, TLAPS

-----------------------------------------------------------------------------
(* Net: the bytes a read has collected are those not yet returned, and no  *)
(* port gives a positive value for an error.                               *)
NetIInv == NetTypeOK /\ NetBytesReported /\ taken + unread <= NetMaxBytes

LEMMA ErrorsNotPositive ==
  ASSUME NetIInv, NEW err_code \in {0, -1, -2}, ReadReturns(err_code)
  PROVE  /\ result' \in Int /\ reported' \in Nat
         /\ reader' = Idle
         /\ reported' = reported + reader.got
BY DEF NetIInv, NetTypeOK, ReadReturns

LEMMA NetInitial == NetInit => NetIInv
BY NetAssumption DEF NetInit, NetIInv, NetTypeOK, NetBytesReported, Idle

LEMMA NetStep == NetIInv /\ [NetNext]_netVars => NetIInv'
<1> SUFFICES ASSUME NetIInv, [NetNext]_netVars PROVE NetIInv'
  OBVIOUS
<1> USE NetAssumption DEF NetIInv, NetTypeOK, NetBytesReported, Idle
<1>1. CASE NetConnect
  BY <1>1 DEF NetConnect
<1>2. CASE PeerSends
  BY <1>2 DEF PeerSends
<1>3. CASE PeerEnds
  BY <1>3 DEF PeerEnds
<1>4. CASE NetRead
  BY <1>4 DEF NetRead
<1>5. CASE ReadSelectEnds
  <2>1. PICK err_code \in {0, -1, -2} : ReadReturns(err_code)
    BY <1>5 DEF ReadSelectEnds
  <2> QED
    BY <1>5, <2>1, ErrorsNotPositive DEF ReadSelectEnds
<1>6. CASE ReadReceives
  BY <1>6 DEF ReadReceives
<1>7. CASE ReadFindsEnd
  <2>1. PICK err_code \in {0, -1, -2} : ReadReturns(err_code)
    BY <1>7 DEF ReadFindsEnd
  <2> QED
    BY <1>7, <2>1, ErrorsNotPositive DEF ReadFindsEnd
<1>8. CASE NetWrite
  BY <1>8 DEF NetWrite
<1>9. CASE NetDisconnect
  BY <1>9 DEF NetDisconnect
<1>10. CASE UNCHANGED netVars
  BY <1>10 DEF netVars
<1> QED
  BY <1>1, <1>2, <1>3, <1>4, <1>5, <1>6, <1>7, <1>8, <1>9, <1>10 DEF NetNext

(* Every byte HAL_TCP_Read takes out of the socket is returned, on every   *)
(* port, however the read ends.                                            *)
THEOREM NetBytesKept == NetSpec => []NetBytesReported
<1>1. NetIInv => NetBytesReported
  BY DEF NetIInv
<1> QED
  BY <1>1, NetInitial, NetStep, PTL DEF NetSpec

-----------------------------------------------------------------------------
(* Clock: as long as the counter has not come round, it is as far after    *)
(* the start as time has passed, and the deadline as far as the wait is.   *)
ClockIInv ==
  /\ ClockTypeOK
  /\ deadline = Plus(timerID, wait)
  /\ elapsed < ClockRange => clock = Plus(timerID, elapsed)

LEMMA ClockInitial == ClockInit => ClockIInv
BY ClockAssumption DEF ClockInit, ClockIInv, ClockTypeOK, Plus, UINT_MAX

LEMMA ClockStep == ClockIInv /\ [ClockNext]_clockVars => ClockIInv'
<1> SUFFICES ASSUME ClockIInv, [ClockNext]_clockVars PROVE ClockIInv'
  OBVIOUS
<1> USE ClockAssumption DEF ClockIInv, ClockTypeOK, Plus, UINT_MAX
<1>1. CASE ClockStart
  BY <1>1 DEF ClockStart
<1>2. CASE ClockTick
  BY <1>2 DEF ClockTick
<1>3. CASE UNCHANGED clockVars
  BY <1>3 DEF clockVars
<1> QED
  BY <1>1, <1>2, <1>3 DEF ClockNext

LEMMA HalfRange ==
  /\ ClockRange \div 2 \in Nat /\ ClockRange = 2 * (ClockRange \div 2)
  /\ UINT_MAX \div 2 = ClockRange \div 2 - 1
<1>1. ClockRange \div 2 \in Nat
  BY ClockAssumption
<1> QED
  BY <1>1, ClockAssumption DEF UINT_MAX

(* A deadline is past exactly when it is, and a wait never ends early,     *)
(* although the counter wraps (utils_time_is_expired, timerIsEnd).         *)
THEOREM ClockNeverWrong == ClockSpec => []ClockRight
<1>1. ASSUME ClockIInv PROVE ClockRight
  <2> DEFINE half == ClockRange \div 2
  <2> USE <1>1, ClockAssumption DEF ClockIInv, ClockTypeOK
  <2>1. ASSUME wait <= half, elapsed - wait < UINT_MAX \div 2
        PROVE  /\ Expired <=> elapsed >= wait
               /\ Left = IF elapsed >= wait THEN 0 ELSE wait - elapsed
    <3>1. half \in Nat /\ ClockRange = 2 * half /\ UINT_MAX \div 2 = half - 1
      BY HalfRange
    <3> HIDE DEF half
    <3>2. clock = Plus(timerID, elapsed)
      BY <2>1, <3>1
    <3>3. elapsed >= wait => Minus(clock, deadline) = elapsed - wait
      BY <2>1, <3>1, <3>2 DEF Plus, Minus, UINT_MAX
    <3>4. elapsed < wait => /\ Minus(deadline, clock) = wait - elapsed
                            /\ Minus(clock, deadline) = ClockRange - (wait - elapsed)
      BY <2>1, <3>1, <3>2 DEF Plus, Minus, UINT_MAX
    <3>5. Expired <=> elapsed >= wait
      BY <2>1, <3>1, <3>3, <3>4 DEF Expired
    <3> QED
      BY <3>4, <3>5 DEF Left
  <2>2. ASSUME elapsed < ClockRange
        PROVE  /\ TimerIsEnd => elapsed >= wait
               /\ elapsed > wait => TimerIsEnd
               /\ DelayOver /\ wait > 0 => elapsed > wait
               /\ Spent = elapsed
    <3>1. Spent = elapsed
      BY <2>2 DEF Spent, Plus, Minus, UINT_MAX
    <3>2. ElapsedMillis \in {elapsed, elapsed - 1}
      BY <2>2 DEF ElapsedMillis, Plus, UINT_MAX
    <3> QED
      BY <3>1, <3>2 DEF TimerIsEnd, DelayOver
  <2> QED
    BY <2>1, <2>2 DEF ClockRight
<1> QED
  BY <1>1, ClockInitial, ClockStep, PTL DEF ClockSpec

-----------------------------------------------------------------------------
(* Timers: the numbers in the list are different, which makes a change of  *)
(* a number's timers the change of one node.                               *)
Timer == [timerNum : TimerNums, period : TimerPeriods, oneShot : BOOLEAN,
          start : BOOLEAN, timerTick : 0 .. TimerRange - 1]

TimersIInv ==
  /\ timers \in Seq(Timer)
  /\ \A i, j \in Nodes : timers[i].timerNum = timers[j].timerNum => i = j
  /\ walk \in 0 .. Len(timers) /\ in_cb \in BOOLEAN /\ asked \subseteq TimerNums
  /\ in_cb => walk # 0
  /\ OneShotOnce

LEMMA TimersInitial == TimersInit => TimersIInv
<1> SUFFICES ASSUME TimersInit PROVE TimersIInv
  OBVIOUS
<1>1. timers \in Seq(Timer) /\ Len(timers) = 0 /\ Nodes = {}
  BY DEF TimersInit, Nodes
<1>2. OneShotOnce /\ \A i, j \in Nodes : timers[i].timerNum = timers[j].timerNum => i = j
  BY <1>1 DEF OneShotOnce
<1>3. walk \in 0 .. Len(timers) /\ in_cb = FALSE /\ asked = {}
  BY <1>1 DEF TimersInit
<1> QED
  BY <1>1, <1>2, <1>3 DEF TimersIInv

(* The nodes keep their places and numbers when some of them change.       *)
LEMMA NodesChange ==
  ASSUME TimersIInv, timers' \in [Nodes -> Timer],
         \A i \in Nodes : timers'[i].timerNum = timers[i].timerNum
  PROVE  /\ timers' \in Seq(Timer) /\ Len(timers') = Len(timers) /\ Nodes' = Nodes
         /\ \A i, j \in Nodes' : timers'[i].timerNum = timers'[j].timerNum => i = j
<1>1. timers' \in Seq(Timer) /\ Len(timers') = Len(timers)
  BY DEF TimersIInv, Nodes
<1> QED
  BY <1>1 DEF TimersIInv, Nodes

LEMMA NodeIsTimer ==
  ASSUME TimersIInv, NEW i \in Nodes
  PROVE  /\ timers[i] \in Timer /\ TimerRange \in Nat \ {0}
         /\ (timers[i].timerTick + 1) % TimerRange \in 0 .. TimerRange - 1
<1>1. timers[i] \in Timer
  BY DEF TimersIInv, Nodes
<1>2. TimerRange \in Nat \ {0}
  BY <1>1, TimerAssumption DEF Timer
<1>3. timers[i].timerTick \in Nat
  BY <1>1 DEF Timer
<1> QED
  BY <1>1, <1>2, <1>3

LEMMA TimersStep == TimersIInv /\ [TimersNext]_timerVars => TimersIInv'
<1> SUFFICES ASSUME TimersIInv, [TimersNext]_timerVars PROVE TimersIInv'
  OBVIOUS
<1>1. ASSUME NEW num \in TimerNums, NEW period \in TimerPeriods, NEW oneShot \in BOOLEAN,
             IOT_TIMER_Register(num, period, oneShot)
      PROVE  TimersIInv'
  <2> DEFINE new == [timerNum |-> num, period |-> period, oneShot |-> oneShot,
                     start |-> FALSE, timerTick |-> 0]
  <2>1. new \in Timer
    BY TimerAssumption DEF Timer
  <2>2. /\ timers' \in Seq(Timer) /\ Len(timers') = Len(timers) + 1
        /\ \A i \in Nodes : timers'[i] = timers[i]
        /\ timers'[Len(timers) + 1] = new
    BY <1>1, <2>1 DEF IOT_TIMER_Register, TimersIInv, Nodes
  <2>3. \A i \in Nodes : timers[i].timerNum # num
    BY <1>1 DEF IOT_TIMER_Register, TimerExists
  <2>4. Nodes' = Nodes \cup {Len(timers) + 1} /\ Len(timers) \in Nat
    BY <2>2 DEF Nodes, TimersIInv
  <2>5. \A i, j \in Nodes' : timers'[i].timerNum = timers'[j].timerNum => i = j
    BY <2>2, <2>3, <2>4 DEF TimersIInv
  <2>6. walk' = walk /\ in_cb' = in_cb /\ asked' = asked
    BY <1>1 DEF IOT_TIMER_Register
  <2>7. ~timers'[Len(timers) + 1].start
    BY <2>2
  <2> HIDE DEF new
  <2>8. OneShotOnce'
    BY <2>2, <2>4, <2>6, <2>7 DEF OneShotOnce, TimersIInv
  <2>9. walk' \in 0 .. Len(timers')
    BY <2>2, <2>4, <2>6 DEF TimersIInv
  <2> QED
    BY <2>2, <2>5, <2>6, <2>8, <2>9 DEF TimersIInv
<1>2. ASSUME NEW num \in TimerNums, NEW period \in TimerPeriods,
             IOT_TIMER_ChangePeriod(num, period)
      PROVE  TimersIInv'
  <2>1. /\ timers' \in [Nodes -> Timer]
        /\ \A i \in Nodes : /\ timers'[i].timerNum = timers[i].timerNum
                           /\ timers'[i].oneShot = timers[i].oneShot
                           /\ timers'[i].start = timers[i].start
    BY <1>2, NodeIsTimer DEF IOT_TIMER_ChangePeriod, ChangeTimer, Timer
  <2> QED
    BY <1>2, <2>1, NodesChange DEF TimersIInv, IOT_TIMER_ChangePeriod, OneShotOnce
<1>3. ASSUME NEW num \in TimerNums, IOT_TIMER_Start(num) PROVE TimersIInv'
  <2>1. /\ timers' \in [Nodes -> Timer]
        /\ \A i \in Nodes : /\ timers'[i].timerNum = timers[i].timerNum
                           /\ timers'[i].oneShot = timers[i].oneShot
                           /\ \/ timers'[i].start = timers[i].start
                              \/ timers[i].timerNum = num
    BY <1>3, NodeIsTimer DEF IOT_TIMER_Start, ChangeTimer, Timer
  <2> QED
    BY <1>3, <2>1, NodesChange DEF TimersIInv, IOT_TIMER_Start, OneShotOnce
<1>4. ASSUME NEW num \in TimerNums, IOT_TIMER_Stop(num) PROVE TimersIInv'
  <2>1. /\ timers' \in [Nodes -> Timer]
        /\ \A i \in Nodes : /\ timers'[i].timerNum = timers[i].timerNum
                           /\ timers'[i].oneShot = timers[i].oneShot
                           /\ timers'[i].start \in {timers[i].start, FALSE}
    BY <1>4, NodeIsTimer DEF IOT_TIMER_Stop, ChangeTimer, Timer
  <2> QED
    BY <1>4, <2>1, NodesChange DEF TimersIInv, IOT_TIMER_Stop, OneShotOnce
<1>5. ASSUME NEW num \in TimerNums, IOT_TIMER_Reset(num) PROVE TimersIInv'
  <2>1. /\ timers' \in [Nodes -> Timer]
        /\ \A i \in Nodes : /\ timers'[i].timerNum = timers[i].timerNum
                           /\ timers'[i].oneShot = timers[i].oneShot
                           /\ timers'[i].start = timers[i].start
    <3>1. \A i \in Nodes : [timers[i] EXCEPT !.timerTick = 0] \in Timer
      <4>1. \A i \in Nodes : 0 \in 0 .. TimerRange - 1
        BY NodeIsTimer
      <4> QED
        BY <4>1, NodeIsTimer DEF Timer
    <3> QED
      BY <1>5, <3>1, NodeIsTimer DEF IOT_TIMER_Reset, ChangeTimer, Timer
  <2> QED
    BY <1>5, <2>1, NodesChange DEF TimersIInv, IOT_TIMER_Reset, OneShotOnce
<1>6. CASE IOT_TIMER_Loop
  BY <1>6 DEF IOT_TIMER_Loop, TimersIInv, OneShotOnce, Nodes
<1>7. CASE TimerTurn
  <2> DEFINE t == timers[walk]
             tick == (t.timerTick + 1) % TimerRange
             due == Due(t, tick)
  <2>1. walk \in Nodes /\ t \in Timer /\ tick \in 0 .. TimerRange - 1 /\ 0 \in 0 .. TimerRange - 1
    BY <1>7, NodeIsTimer DEF TimerTurn, TimersIInv, Nodes
  <2>2. /\ timers' = IF t.start THEN [timers EXCEPT ![walk].timerTick = IF due THEN 0 ELSE tick]
                    ELSE timers
        /\ in_cb' = due /\ walk' = IF due THEN walk ELSE NextNode(walk)
        /\ asked' = IF due /\ t.oneShot THEN asked \ {t.timerNum} ELSE asked
    BY <1>7 DEF TimerTurn
  <2>3. due \in BOOLEAN
    BY DEF Due
  <2> HIDE DEF tick, due
  <2>4. /\ timers' \in [Nodes -> Timer]
        /\ \A i \in Nodes : /\ timers'[i].timerNum = timers[i].timerNum
                           /\ timers'[i].oneShot = timers[i].oneShot
                           /\ timers'[i].start = timers[i].start
    <3>1. timers \in [Nodes -> Timer]
      BY NodeIsTimer DEF TimersIInv, Nodes
    <3>2. (IF due THEN 0 ELSE tick) \in 0 .. TimerRange - 1
      BY <2>1
    <3> QED
      BY <2>1, <2>2, <3>1, <3>2 DEF Timer
  <2>5. OneShotOnce'
    BY <1>7, <2>1, <2>2, <2>4, NodesChange DEF OneShotOnce, TimersIInv, TimerTurn
  <2> QED
    BY <2>1, <2>2, <2>3, <2>4, <2>5, NodesChange DEF TimersIInv, Nodes, NextNode
<1>8. CASE CallbackReturns
  <2>1. /\ walk \in Nodes /\ timers[walk] \in Timer
    BY <1>8, NodeIsTimer DEF CallbackReturns, TimersIInv, Nodes
  <2>2. /\ timers' \in [Nodes -> Timer]
        /\ \A i \in Nodes : /\ timers'[i].timerNum = timers[i].timerNum
                           /\ timers'[i].oneShot = timers[i].oneShot
                           /\ timers'[i].start \in {timers[i].start, FALSE}
        /\ timers'[walk].oneShot => timers'[walk].start = FALSE
    <3>1. timers \in [Nodes -> Timer]
      BY NodeIsTimer DEF TimersIInv, Nodes
    <3> QED
      BY <1>8, <2>1, <3>1 DEF CallbackReturns, Timer
  <2>3. OneShotOnce'
    BY <1>8, <2>1, <2>2, NodesChange DEF OneShotOnce, TimersIInv, CallbackReturns
  <2> QED
    <3>1. /\ timers' \in Seq(Timer) /\ Len(timers') = Len(timers)
          /\ \A i, j \in Nodes' : timers'[i].timerNum = timers'[j].timerNum => i = j
      BY <2>2, NodesChange
    <3>2. walk' \in 0 .. Len(timers') /\ in_cb' = FALSE /\ asked' = asked
      BY <1>8, <2>1, <3>1 DEF CallbackReturns, Nodes, NextNode
    <3> QED
      BY <2>3, <3>1, <3>2 DEF TimersIInv
<1>9. CASE UNCHANGED timerVars
  BY <1>9 DEF timerVars, TimersIInv, OneShotOnce, Nodes
<1> QED
  BY <1>1, <1>2, <1>3, <1>4, <1>5, <1>6, <1>7, <1>8, <1>9 DEF TimersNext

(* A one-shot runs at most once per start, whatever the callbacks do.      *)
THEOREM OneShotsRunOnce == TimersSpec => []OneShotOnce
<1>1. TimersIInv => OneShotOnce
  BY DEF TimersIInv
<1> QED
  BY <1>1, TimersInitial, TimersStep, PTL DEF TimersSpec

(* The nodes of the list are timers.                                       *)
LEMMA TimersTyped == TimersIInv => TimersTypeOK
<1> SUFFICES ASSUME TimersIInv PROVE TimersTypeOK
  OBVIOUS
<1>1. \A i \in Nodes : timers[i] \in Timer
  BY DEF TimersIInv, Nodes
<1> QED
  BY <1>1 DEF TimersIInv, TimersTypeOK, Timer

-----------------------------------------------------------------------------
(* Keys: the machine is in a press of the recorded key, which has a double *)
(* click where one is on its way; and a key is only told of a press that   *)
(* starts when it has a stop callback to be told of its end.               *)
KeyKinds == UNION {KeyWants[num] : num \in KeyNums}

OwnPress ==
  /\ \A num \in held : "double" \in cbs[num] \/ (state = 6 /\ num = keyNumRecord)
  /\ state = 3 => "double" \in cbs[keyNumRecord]

KeysIInv ==
  /\ keys \in Seq(KeyNums) /\ cbs \in [KeyNums -> SUBSET KeyKinds]
  /\ state \in {0, 1, 2, 3, 6} /\ mixed \in BOOLEAN /\ held \subseteq KeyNums
  /\ state # 0 => keyNumRecord \in KeyNums
  /\ \A num \in held : "stop" \in cbs[num]
  /\ ~mixed => OwnPress

(* The list has a first pressed key, and it is recorded.                   *)
LEMMA PressedIsRecorded ==
  ASSUME keys \in Seq(KeyNums), NEW pressed, pressed \subseteq Registered, pressed # {}
  PROVE  Recorded(pressed) \in KeyNums
<1> DEFINE FirstDown(i) == keys[i] \in pressed /\ \A j \in 1 .. i - 1 : keys[j] \notin pressed
           T == {i \in 1 .. Len(keys) : keys[i] \in pressed}
<1>1. T \subseteq Nat /\ T # {}
  BY DEF Registered
<1>2. PICK m \in T : \A k \in T : m <= k
  BY <1>1, LeastNumber
<1>3. m \in 1 .. Len(keys) /\ FirstDown(m)
  BY <1>2
<1>4. (CHOOSE i \in 1 .. Len(keys) : FirstDown(i)) \in 1 .. Len(keys)
  <2> HIDE DEF FirstDown
  <2> QED
    BY <1>3
<1> QED
  BY <1>4 DEF Recorded

LEMMA KeysInitial == KeysInit => KeysIInv
<1> SUFFICES ASSUME KeysInit PROVE KeysIInv
  OBVIOUS
<1>1. keys \in Seq(KeyNums) /\ cbs \in [KeyNums -> SUBSET KeyKinds]
  BY DEF KeysInit
<1>2. /\ state \in {0, 1, 2, 3, 6} /\ mixed \in BOOLEAN /\ held = {} /\ state = 0
  BY DEF KeysInit
<1> QED
  BY <1>1, <1>2 DEF KeysIInv, OwnPress

(* A turn of the loop that runs the callbacks of `types` for a key.        *)
LEMMA CallbacksRun ==
  ASSUME KeysIInv, NEW types, NEW num, held' = Told(types, num), cbs' = cbs,
         types \subseteq {"click", "double", "start", "stop", "during"},
         types # {} => num \in KeyNums
  PROVE  /\ held' \subseteq KeyNums /\ \A n \in held' : "stop" \in cbs'[n]
         /\ \A n \in held' : n \in held \/ n = num
         /\ types \cap {"double", "start"} = {} => held' \subseteq held
         /\ "stop" \in types /\ "double" \notin types /\ "start" \notin types => num \notin held'
<1> DEFINE run == UNION {Runs(t, num) : t \in types}
<1>1. "start" \in run => types \cap {"double", "start"} # {}
  BY DEF Runs
<1>2. /\ "stop" \in types /\ "stop" \in cbs[num] => "stop" \in run
      /\ types # {} \/ run = {}
  BY DEF Runs
<1> HIDE DEF run
<1>3. held' = IF "start" \in run /\ "stop" \in cbs[num] THEN held \cup {num}
              ELSE IF "stop" \in run THEN held \ {num} ELSE held
  BY DEF Told, run
<1> QED
  BY <1>1, <1>2, <1>3 DEF KeysIInv

LEMMA KeysStep == KeysIInv /\ [KeysNext]_keyVars => KeysIInv'
<1> SUFFICES ASSUME KeysIInv, [KeysNext]_keyVars PROVE KeysIInv'
  OBVIOUS
<1>1. ASSUME NEW num \in KeyNums, IOT_KEY_Register(num) PROVE KeysIInv'
  BY <1>1 DEF IOT_KEY_Register, KeysIInv, OwnPress
<1>2. ASSUME NEW num \in KeyNums, NEW t \in KeyWants[num], KeyListRegisterCbFunc(t, num)
      PROVE  KeysIInv'
  <2>1. t \in KeyKinds
    BY DEF KeyKinds
  <2>2. cbs' = [cbs EXCEPT ![num] = @ \cup {t}]
    BY <1>2 DEF KeyListRegisterCbFunc
  <2>3. /\ cbs' \in [KeyNums -> SUBSET KeyKinds]
        /\ \A n \in KeyNums : cbs[n] \subseteq cbs'[n]
    BY <2>1, <2>2 DEF KeysIInv
  <2> QED
    BY <1>2, <2>3 DEF KeyListRegisterCbFunc, KeysIInv, OwnPress
<1>3. CASE IOT_KEY_SetParams
  BY <1>3 DEF IOT_KEY_SetParams, KeysIInv, OwnPress
<1>4. ASSUME NEW pressed \in SUBSET KeyNums, NEW ms \in KeySteps, IOT_KEY_Loop(pressed, ms)
      PROVE  KeysIInv'
  <2> DEFINE num == Recorded(pressed)
             pressing == pressed # {}
  <2>1. /\ keyNumRecord' = num /\ UNCHANGED <<keys, cbs>> /\ pressed \subseteq Registered
        /\ mixed' = (mixed \/ (pressing /\ pressed # {num})
                       \/ (pressing /\ state # 0 /\ num # keyNumRecord))
    BY <1>4 DEF IOT_KEY_Loop
  <2>2. /\ pressing => num \in KeyNums
        /\ ~pressing => num = keyNumRecord
    BY <2>1, PressedIsRecorded DEF KeysIInv, Recorded
  <2>3. state # 0 /\ ~mixed' => num = keyNumRecord /\ ~mixed
    BY <2>1, <2>2 DEF KeysIInv
  <2>4. state # 0 => num \in KeyNums
    BY <2>2 DEF KeysIInv
  <2>5. \/ /\ held' = Told({}, num) /\ (state' # 0 => state # 0 \/ pressing)
           /\ \/ state' = state
              \/ state' = 3 /\ state = 2 /\ "double" \in cbs[num]
              \/ state' \in {0, 1, 2} /\ state \in {0, 1}
        \/ state = 1 /\ state' = 6 /\ held' = Told({"start", "during"}, num)
        \/ state = 2 /\ state' = 0 /\ held' = Told({"click"}, num)
        \/ state = 3 /\ state' = 0 /\ held' = Told({"double"}, num)
        \/ state = 6 /\ state' = 0 /\ held' = Told({"stop"}, num)
        \/ state = 6 /\ state' = 6 /\ held' = Told({"during"}, num)
    BY <1>4 DEF IOT_KEY_Loop, Step, KeysIInv
  <2>6. state' \in {0, 1, 2, 3, 6} /\ mixed' \in BOOLEAN
    BY <2>1, <2>5 DEF KeysIInv
  <2>7. state' # 0 => num \in KeyNums
    BY <2>2, <2>4, <2>5
  <2> SUFFICES /\ held' \subseteq KeyNums /\ \A n \in held' : "stop" \in cbs'[n]
               /\ ~mixed' => OwnPress'
    BY <2>1, <2>6, <2>7 DEF KeysIInv
  <2> HIDE DEF num, pressing
  <2>8. CASE /\ held' = Told({}, num)
             /\ \/ state' = state
                \/ state' = 3 /\ state = 2 /\ "double" \in cbs[num]
                \/ state' \in {0, 1, 2} /\ state \in {0, 1}
    <3>1. held' \subseteq held /\ \A n \in held' : "stop" \in cbs'[n]
      BY <2>1, <2>8, CallbacksRun
    <3> QED
      BY <2>1, <2>3, <2>8, <3>1 DEF KeysIInv, OwnPress
  <2>9. CASE state = 1 /\ state' = 6 /\ held' = Told({"start", "during"}, num)
    <3>1. /\ held' \subseteq KeyNums /\ \A n \in held' : "stop" \in cbs'[n]
          /\ \A n \in held' : n \in held \/ n = num
      BY <2>1, <2>4, <2>9, CallbacksRun
    <3> QED
      BY <2>1, <2>3, <2>9, <3>1 DEF KeysIInv, OwnPress
  <2>10. CASE state = 2 /\ state' = 0 /\ held' = Told({"click"}, num)
    <3>1. held' \subseteq held /\ \A n \in held' : "stop" \in cbs'[n]
      BY <2>1, <2>4, <2>10, CallbacksRun
    <3> QED
      BY <2>1, <2>3, <2>10, <3>1 DEF KeysIInv, OwnPress
  <2>11. CASE state = 3 /\ state' = 0 /\ held' = Told({"double"}, num)
    <3>1. /\ held' \subseteq KeyNums /\ \A n \in held' : "stop" \in cbs'[n]
          /\ \A n \in held' : n \in held \/ n = num
      BY <2>1, <2>4, <2>11, CallbacksRun
    <3> QED
      BY <2>1, <2>3, <2>11, <3>1 DEF KeysIInv, OwnPress
  <2>12. CASE state = 6 /\ state' = 0 /\ held' = Told({"stop"}, num)
    <3>1. /\ held' \subseteq held /\ \A n \in held' : "stop" \in cbs'[n]
          /\ num \notin held'
      BY <2>1, <2>4, <2>12, CallbacksRun
    <3> QED
      BY <2>1, <2>3, <2>12, <3>1 DEF KeysIInv, OwnPress
  <2>13. CASE state = 6 /\ state' = 6 /\ held' = Told({"during"}, num)
    <3>1. held' \subseteq held /\ \A n \in held' : "stop" \in cbs'[n]
      BY <2>1, <2>4, <2>13, CallbacksRun
    <3> QED
      BY <2>1, <2>3, <2>13, <3>1 DEF KeysIInv, OwnPress
  <2> QED
    BY <2>5, <2>8, <2>9, <2>10, <2>11, <2>12, <2>13
<1>5. CASE UNCHANGED keyVars
  BY <1>5 DEF keyVars, KeysIInv, OwnPress
<1> QED
  BY <1>1, <1>2, <1>3, <1>4, <1>5 DEF KeysNext

(* A key that has a stop callback and is told that a press starts is told  *)
(* that it stops before the machine waits for the next press, whatever     *)
(* other keys are registered, as long as no two presses overlap and it has *)
(* no double click.                                                        *)
THEOREM LongPressesEnd == KeysSpec => []LongPressEnds
<1>1. KeysIInv => LongPressEnds
  BY DEF KeysIInv, OwnPress, LongPressEnds
<1> QED
  BY <1>1, KeysInitial, KeysStep, PTL DEF KeysSpec

(* The times stay below their bound, and what is recorded is a key,        *)
(* or nothing yet.                                                         *)
KeyTimes ==
  /\ keyNumRecord \in KeyNums \cup {0}
  /\ start_age \in 0 .. KeyMaxAge /\ stop_age \in 0 .. KeyMaxAge

(* A time is counted up to its bound.                                      *)
LEMMA AgedInRange ==
  ASSUME NEW age \in 0 .. KeyMaxAge, NEW ms \in Nat
  PROVE  Aged(age, ms) \in 0 .. KeyMaxAge
BY KeyAssumption DEF Aged

LEMMA KeyTimesInit == KeysInit => KeyTimes
BY KeyAssumption DEF KeysInit, KeyTimes

(* The kinds are those of the callbacks an application can register.       *)
LEMMA KeysTyped == KeysIInv /\ KeyTimes => KeysTypeOK
<1> SUFFICES ASSUME KeysIInv, KeyTimes PROVE KeysTypeOK
  OBVIOUS
<1>1. KeyKinds \subseteq {"click", "double", "start", "stop", "during"}
  BY KeyAssumption DEF KeyKinds, KeyNums
<1>2. cbs \in [KeyNums -> SUBSET {"click", "double", "start", "stop", "during"}]
  BY <1>1 DEF KeysIInv
<1>3. Registered \subseteq KeyNums
  BY DEF KeysIInv, Registered
<1> QED
  BY <1>2, <1>3 DEF KeysTypeOK, KeyTimes, KeysIInv

(* No step records a key that is not registered.                           *)
LEMMA KeyTimesNext == KeysIInv /\ KeyTimes /\ [KeysNext]_keyVars => KeyTimes'
<1> SUFFICES ASSUME KeysIInv, KeyTimes, [KeysNext]_keyVars PROVE KeyTimes'
  OBVIOUS
<1>1. ASSUME NEW num \in KeyNums, IOT_KEY_Register(num) PROVE KeyTimes'
  BY <1>1 DEF IOT_KEY_Register, KeyTimes
<1>2. ASSUME NEW num \in KeyNums, NEW t \in KeyWants[num], KeyListRegisterCbFunc(t, num)
      PROVE  KeyTimes'
  BY <1>2 DEF KeyListRegisterCbFunc, KeyTimes
<1>3. CASE IOT_KEY_SetParams
  BY <1>3, KeyAssumption DEF IOT_KEY_SetParams, KeyTimes
<1>4. ASSUME NEW pressed \in SUBSET KeyNums, NEW ms \in KeySteps, IOT_KEY_Loop(pressed, ms)
      PROVE  KeyTimes'
  <2>1. /\ keyNumRecord' = Recorded(pressed) /\ pressed \subseteq Registered
        /\ start_age' \in {0, Aged(start_age, ms)} /\ stop_age' \in {0, Aged(stop_age, ms)}
    BY <1>4 DEF IOT_KEY_Loop, Step, KeysIInv
  <2>2. Recorded(pressed) \in KeyNums \cup {0}
    <3>1. CASE pressed = {}
      BY <3>1 DEF Recorded, KeyTimes
    <3>2. CASE pressed # {}
      BY <2>1, <3>2, PressedIsRecorded DEF KeysIInv
    <3> QED
      BY <3>1, <3>2
  <2>3. 0 \in 0 .. KeyMaxAge /\ ms \in Nat
    BY KeyAssumption
  <2>4. Aged(start_age, ms) \in 0 .. KeyMaxAge /\ Aged(stop_age, ms) \in 0 .. KeyMaxAge
    BY <2>3, AgedInRange DEF KeyTimes
  <2> QED
    BY <2>1, <2>2, <2>3, <2>4 DEF KeyTimes
<1>5. CASE UNCHANGED keyVars
  BY <1>5 DEF keyVars, KeyTimes
<1> QED
  BY <1>1, <1>2, <1>3, <1>4, <1>5 DEF KeysNext

-----------------------------------------------------------------------------
(* Crypto: where the offset does not wrap, block b lies on the bytes from  *)
(* BlockLen * (b - 1) on, and on no others.                                *)

LEMMA Division ==
  ASSUME NEW B \in Nat \ {0}, NEW j \in Nat
  PROVE  j \div B \in Nat /\ B * (j \div B) <= j /\ j < B * (j \div B) + B
<1>1. j \div B \in Int /\ j \div B >= 0
  OBVIOUS
<1>2. B * (j \div B) <= j
  OBVIOUS
<1>3. j < B * (j \div B) + B
  OBVIOUS
<1> QED
  BY <1>1, <1>2, <1>3

(* Two multiples of B that have a number within B above them are the same. *)
LEMMA OneBlock ==
  ASSUME NEW B \in Nat \ {0}, NEW p \in Nat, NEW q \in Nat, NEW j \in Nat,
         B * p <= j, j < B * p + B, B * q <= j, j < B * q + B
  PROVE  p = q
<1>1. ASSUME NEW x \in Nat, NEW y \in Nat, x < y PROVE B * x + B <= B * y
  <2>1. PICK d \in Nat : y = x + 1 + d
    <3>1. y - x - 1 \in Nat /\ y = x + 1 + (y - x - 1)
      BY <1>1
    <3> QED
      BY <3>1
  <2>2. B * (x + 1 + d) = B * x + B + B * d
    OBVIOUS
  <2>3. B * d \in Nat /\ B * x \in Nat
    OBVIOUS
  <2> QED
    BY <2>1, <2>2, <2>3
<1>2. B * p \in Nat /\ B * q \in Nat
  OBVIOUS
<1>3. ~(p < q)
  <2>1. p < q => B * p + B <= B * q
    BY <1>1
  <2> QED
    BY <1>2, <2>1
<1>4. ~(q < p)
  <2>1. q < p => B * q + B <= B * p
    BY <1>1
  <2> QED
    BY <1>2, <2>1
<1> QED
  BY <1>3, <1>4

(* The block b of a payload of n bytes, and where it lies.                 *)
LEMMA BlockLies ==
  ASSUME NEW n \in Nat, n <= IndexRange, NEW b \in 1 .. n, BlockLen * (b - 1) < n
  PROVE  /\ Offset(b) = BlockLen * (b - 1) /\ BlockLen * (b - 1) \in Nat
         /\ \A j \in 0 .. n - 1 : j \in Offset(b) .. Offset(b) + BlockSize(b, n) - 1
              <=> BlockLen * (b - 1) <= j /\ j < BlockLen * (b - 1) + BlockLen
<1> DEFINE at == BlockLen * (b - 1)
<1>1. at \in Nat /\ BlockLen * b = at + BlockLen /\ at < IndexRange
  BY CryptoAssumption
<1>2. BlockSize(b, n) = IF at + BlockLen <= n THEN BlockLen ELSE n - at
  BY <1>1 DEF BlockSize
<1> HIDE DEF at
<1>3. at % IndexRange = at
  BY <1>1, CryptoAssumption
<1>4. Offset(b) = at
  BY <1>3 DEF Offset, at
<1>5. \A j \in 0 .. n - 1 :
         j \in at .. at + BlockSize(b, n) - 1 <=> at <= j /\ j < at + BlockLen
  BY <1>1, <1>2, CryptoAssumption
<1> QED
  BY <1>1, <1>4, <1>5 DEF at

LEMMA WholePayloadCovered ==
  ASSUME NEW n \in Nat, n <= IndexRange
  PROVE  Covered(n) = StreamOf(n)
<1> DEFINE blocks(j) == {b \in 1 .. n : /\ BlockLen * (b - 1) < n
                                        /\ j \in Offset(b) .. Offset(b) + BlockSize(b, n) - 1}
           last(j) == IF blocks(j) = {} THEN 0
                      ELSE CHOOSE b \in blocks(j) : \A c \in blocks(j) : c <= b
<1>1. ASSUME NEW j \in 0 .. n - 1 PROVE blocks(j) = {j \div BlockLen + 1}
  <2> DEFINE q == j \div BlockLen
  <2>1. q \in Nat /\ BlockLen * q <= j /\ j < BlockLen * q + BlockLen
    BY Division, CryptoAssumption
  <2> HIDE DEF q
  <2>2. q <= BlockLen * q /\ BlockLen * q \in Nat
    BY <2>1, CryptoAssumption
  <2>3. q + 1 \in 1 .. n /\ BlockLen * ((q + 1) - 1) < n
    BY <2>1, <2>2
  <2>4. q + 1 \in blocks(j)
    BY <2>1, <2>3, BlockLies
  <2>5. ASSUME NEW b \in blocks(j) PROVE b = q + 1
    <3>1. b \in 1 .. n /\ BlockLen * (b - 1) < n
      OBVIOUS
    <3>2. BlockLen * (b - 1) <= j /\ j < BlockLen * (b - 1) + BlockLen
      BY <3>1, BlockLies
    <3>3. b - 1 \in Nat /\ j \in Nat
      BY <3>1
    <3>4. b - 1 = q
      BY <2>1, <3>2, <3>3, OneBlock, CryptoAssumption
    <3> QED
      BY <3>1, <3>4
  <2> QED
    BY <2>4, <2>5 DEF q
<1>2. ASSUME NEW j \in 0 .. n - 1 PROVE last(j) = j \div BlockLen + 1
  <2>1. j \div BlockLen \in Nat
    BY Division, CryptoAssumption
  <2> QED
    BY <1>1, <2>1
<1>3. Covered(n) = [j \in 0 .. n - 1 |-> last(j)]
  BY DEF Covered
<1> QED
  BY <1>2, <1>3 DEF StreamOf

-----------------------------------------------------------------------------
(* A protection that nothing disturbs is the only one, and the keys it     *)
(* uses are those of the session the cloud knows.                          *)

InHand == [pc : {"idle", "read", "write", "header", "encrypt", "mic", "send"},
           n : Nat, next : Nat, head : Nat, seq : Nat, key : Nat, mic : Nat,
           bare : BOOLEAN, overlaps : BOOLEAN]

CryptoTypes ==
  /\ secure_mode \in 1 .. 3
  /\ random_str \in Nat /\ skeys \in Nat /\ cloud \in Nat /\ up_packetid \in Nat
  /\ inhand \in [Publishers -> InHand]

(* The keys of the client and of the cloud.                                *)
SameSession ==
  /\ Normal => cloud = random_str
  /\ mc = "ready" => skeys = random_str

(* What a publisher has done so far, of a payload that nothing disturbed.  *)
Undisturbed(u) ==
  /\ Protecting(u) => /\ mc \in {"ready", "disconnected"} /\ skeys = random_str
                      /\ \A v \in Publishers \ {u} : ~Protecting(v)
  /\ inhand[u].pc = "encrypt" => inhand[u].head = up_packetid
  /\ inhand[u].pc = "mic" => inhand[u].seq = inhand[u].head /\ inhand[u].key = random_str
  /\ inhand[u].pc = "send" /\ ~inhand[u].bare /\ secure_mode # PLAIN =>
       /\ inhand[u].seq = inhand[u].head
       /\ inhand[u].key = random_str /\ inhand[u].mic = random_str

CryptoIInv ==
  /\ CryptoTypes /\ SameSession /\ PayloadsRead
  /\ \A u \in Publishers : ~inhand[u].overlaps => Undisturbed(u)

LEMMA CryptoInitial == CryptoInit => CryptoIInv
<1> SUFFICES ASSUME CryptoInit PROVE CryptoIInv
  OBVIOUS
<1>1. CryptoTypes
  BY CryptoAssumption DEF CryptoInit, CryptoTypes, InHand, Nothing
<1>2. SameSession /\ PayloadsRead
  BY DEF CryptoInit, SameSession, Normal, PayloadsRead, NothingGot
<1>3. \A u \in Publishers : Undisturbed(u)
  BY DEF CryptoInit, Undisturbed, Protecting, Nothing
<1> QED
  BY <1>1, <1>2, <1>3 DEF CryptoIInv

(* A step of one publisher, or of none, that leaves the others as they are *)
(* or disturbed.                                                           *)
LEMMA DisturbedOnly ==
  ASSUME CryptoTypes, NEW us
  PROVE  /\ Disturbed(us) \in [Publishers -> InHand]
         /\ \A v \in Publishers :
              /\ v \notin us => Disturbed(us)[v] = inhand[v]
              /\ v \in us => Disturbed(us)[v].overlaps
              /\ Disturbed(us)[v].pc = inhand[v].pc
BY DEF CryptoTypes, InHand, Disturbed

LEMMA NothingRead ==
  ASSUME got_last' = NothingGot
  PROVE  PayloadsRead'
BY DEF PayloadsRead, NothingGot

LEMMA CryptoStep == CryptoIInv /\ [CryptoNext]_cryptoVars => CryptoIInv'
<1> SUFFICES ASSUME CryptoIInv, [CryptoNext]_cryptoVars PROVE CryptoIInv'
  OBVIOUS
<1>a. /\ CryptoTypes /\ SameSession /\ PayloadsRead
      /\ \A u \in Publishers : ~inhand[u].overlaps => Undisturbed(u)
  BY DEF CryptoIInv
<1>1. CASE Authenticate
  <2> DEFINE us == {u \in Publishers : Protecting(u) \/ inhand[u].pc = "send"}
  <2>1. inhand' = Disturbed(us)
    BY <1>1 DEF Authenticate
  <2>2. CryptoTypes' /\ SameSession' /\ PayloadsRead'
    <3>1. inhand' \in [Publishers -> InHand]
      BY <1>a, <2>1, DisturbedOnly
    <3> QED
      BY <1>a, <1>1, <3>1, NothingRead DEF Authenticate, CryptoTypes, SameSession, Normal
  <2>3. ASSUME NEW u \in Publishers, ~inhand'[u].overlaps PROVE Undisturbed(u)'
    <3>1. u \notin us
      BY <1>a, <2>1, <2>3, DisturbedOnly
    <3>2. inhand'[u] = inhand[u]
      BY <1>a, <2>1, <3>1, DisturbedOnly
    <3> QED
      BY <3>1, <3>2 DEF Undisturbed, Protecting
  <2> QED
    BY <2>2, <2>3 DEF CryptoIInv
<1>2. CASE Connect
  <2>1. CryptoTypes' /\ SameSession' /\ PayloadsRead'
    BY <1>a, <1>2, NothingRead DEF Connect, CryptoTypes, SameSession, Normal
  <2>2. \A u \in Publishers : ~inhand'[u].overlaps => Undisturbed(u)'
    BY <1>a, <1>2 DEF Connect, Undisturbed, Protecting
  <2> QED
    BY <2>1, <2>2 DEF CryptoIInv
<1>3. CASE GenKeys
  <2> DEFINE us == {u \in Publishers : Protecting(u)}
  <2>1. inhand' = Disturbed(us)
    BY <1>3 DEF GenKeys
  <2>2. CryptoTypes' /\ SameSession' /\ PayloadsRead'
    <3>1. inhand' \in [Publishers -> InHand]
      BY <1>a, <2>1, DisturbedOnly
    <3> QED
      BY <1>a, <1>3, <3>1, NothingRead DEF GenKeys, CryptoTypes, SameSession, Normal
  <2>3. ASSUME NEW u \in Publishers, ~inhand'[u].overlaps PROVE Undisturbed(u)'
    <3>1. u \notin us
      BY <1>a, <2>1, <2>3, DisturbedOnly
    <3>2. inhand'[u] = inhand[u]
      BY <1>a, <2>1, <3>1, DisturbedOnly
    <3>3. UNCHANGED <<secure_mode, random_str>>
      BY <1>3 DEF GenKeys
    <3> QED
      BY <1>a, <2>3, <3>1, <3>2, <3>3 DEF Undisturbed, Protecting
  <2> QED
    BY <2>2, <2>3 DEF CryptoIInv
<1>4. CASE ConnectionLost
  <2>1. CryptoTypes' /\ SameSession' /\ PayloadsRead'
    BY <1>a, <1>4, NothingRead DEF ConnectionLost, CryptoTypes, SameSession, Normal
  <2>2. \A u \in Publishers : ~inhand'[u].overlaps => Undisturbed(u)'
    BY <1>a, <1>4 DEF ConnectionLost, Undisturbed, Protecting
  <2> QED
    BY <2>1, <2>2 DEF CryptoIInv
<1>5. ASSUME NEW u \in Publishers, NEW n \in PayloadLens, Publishes(u, n) PROVE CryptoIInv'
  <2>1. PICK no_memory \in BOOLEAN :
          inhand' = [inhand EXCEPT ![u] =
               [Nothing EXCEPT !.n = n, !.bare = no_memory,
                  !.pc = IF no_memory \/ secure_mode = PLAIN THEN "send" ELSE "read"]]
    BY <1>5 DEF Publishes
  <2>2. /\ inhand' \in [Publishers -> InHand]
        /\ \A v \in Publishers \ {u} : inhand'[v] = inhand[v]
        /\ inhand'[u].pc = "read" \/ (inhand'[u].pc = "send"
                                        /\ (inhand'[u].bare \/ secure_mode = PLAIN))
    BY <1>a, <2>1, CryptoAssumption DEF CryptoTypes, InHand, Nothing
  <2>3. UNCHANGED <<secure_mode, random_str, skeys, up_packetid, mc, cloud>>
    BY <1>5 DEF Publishes
  <2>4. CryptoTypes' /\ SameSession' /\ PayloadsRead'
    BY <1>a, <1>5, <2>2, <2>3, NothingRead DEF Publishes, CryptoTypes, SameSession, Normal
  <2>5. \A v \in Publishers : ~inhand'[v].overlaps => Undisturbed(v)'
    BY <1>a, <2>2, <2>3 DEF Undisturbed, Protecting
  <2> QED
    BY <2>4, <2>5 DEF CryptoIInv
<1>6. ASSUME NEW u \in Publishers, ReadPacketId(u) PROVE CryptoIInv'
  <2> DEFINE others == {v \in Publishers : Protecting(v)}
  <2>1. /\ inhand[u].pc = "read"
        /\ inhand' = [Disturbed(others) EXCEPT ![u] =
                        [inhand[u] EXCEPT !.next = up_packetid, !.pc = "write",
                           !.overlaps = others # {} \/ mc # "ready"]]
    BY <1>6 DEF ReadPacketId
  <2>2. u \notin others
    BY <2>1 DEF Protecting
  <2>3. /\ inhand' \in [Publishers -> InHand] /\ inhand'[u].pc = "write"
        /\ inhand'[u].overlaps = (others # {} \/ mc # "ready")
        /\ \A v \in Publishers \ {u} : inhand'[v] = Disturbed(others)[v]
    <3>1. [inhand[u] EXCEPT !.next = up_packetid, !.pc = "write",
             !.overlaps = others # {} \/ mc # "ready"] \in InHand
      <4>1. inhand[u] \in InHand /\ up_packetid \in Nat
        BY <1>a DEF CryptoTypes
      <4> HIDE DEF others
      <4>2. (others # {} \/ mc # "ready") \in BOOLEAN
        OBVIOUS
      <4> QED
        BY <4>1, <4>2 DEF InHand
    <3>2. Disturbed(others) \in [Publishers -> InHand]
      BY <1>a, DisturbedOnly
    <3> HIDE DEF others
    <3> QED
      BY <1>a, <2>1, <3>1, <3>2 DEF CryptoTypes, InHand
  <2>4. UNCHANGED <<secure_mode, random_str, skeys, up_packetid, mc, cloud>>
    BY <1>6 DEF ReadPacketId
  <2>5. CryptoTypes' /\ SameSession' /\ PayloadsRead'
    BY <1>a, <1>6, <2>3, <2>4, NothingRead DEF ReadPacketId, CryptoTypes, SameSession, Normal
  <2>6. ASSUME NEW v \in Publishers \ {u}, ~inhand'[v].overlaps PROVE Undisturbed(v)'
    <3>1. v \notin others /\ inhand'[v] = inhand[v]
      BY <1>a, <2>3, <2>6, DisturbedOnly
    <3> QED
      BY <1>a, <2>4, <2>6, <3>1 DEF Undisturbed, Protecting
  <2>7. ASSUME ~inhand'[u].overlaps PROVE Undisturbed(u)'
    <3>1. others = {} /\ mc = "ready" /\ skeys = random_str
      BY <1>a, <2>3, <2>7 DEF SameSession
    <3>2. \A v \in Publishers \ {u} : ~Protecting(v)'
      BY <1>a, <2>3, <3>1, DisturbedOnly DEF Protecting
    <3> QED
      BY <2>3, <2>4, <3>1, <3>2 DEF Undisturbed, Protecting
  <2> QED
    BY <2>5, <2>6, <2>7 DEF CryptoIInv
<1>7. ASSUME NEW u \in Publishers, WritePacketId(u) PROVE CryptoIInv'
  <2>1. /\ inhand[u].pc = "write" /\ up_packetid' \in Nat
        /\ inhand' = [inhand EXCEPT ![u].pc = "header"]
    <3>1. inhand[u].next \in Nat
      BY <1>a DEF CryptoTypes, InHand
    <3> QED
      BY <1>7, <3>1, CryptoAssumption DEF WritePacketId
  <2>2. /\ inhand' \in [Publishers -> InHand] /\ inhand'[u].pc = "header"
        /\ inhand'[u].overlaps = inhand[u].overlaps
        /\ \A v \in Publishers \ {u} : inhand'[v] = inhand[v]
    BY <1>a, <2>1 DEF CryptoTypes, InHand
  <2>3. UNCHANGED <<secure_mode, random_str, skeys, mc, cloud>>
    BY <1>7 DEF WritePacketId
  <2>4. CryptoTypes' /\ SameSession' /\ PayloadsRead'
    BY <1>a, <1>7, <2>1, <2>2, <2>3, NothingRead DEF WritePacketId, CryptoTypes, SameSession, Normal
  <2>5. \A v \in Publishers : ~inhand'[v].overlaps => Undisturbed(v)'
    BY <1>a, <2>1, <2>2, <2>3 DEF Undisturbed, Protecting
  <2> QED
    BY <2>4, <2>5 DEF CryptoIInv
<1>8. ASSUME NEW u \in Publishers, WriteHeader(u) PROVE CryptoIInv'
  <2>1. /\ inhand[u].pc = "header"
        /\ inhand' = [inhand EXCEPT ![u].head = up_packetid, ![u].pc = "encrypt"]
    BY <1>8 DEF WriteHeader
  <2>2. /\ inhand' \in [Publishers -> InHand] /\ inhand'[u].pc = "encrypt"
        /\ inhand'[u].overlaps = inhand[u].overlaps /\ inhand'[u].head = up_packetid
        /\ \A v \in Publishers \ {u} : inhand'[v] = inhand[v]
    BY <1>a, <2>1 DEF CryptoTypes, InHand
  <2>3. UNCHANGED <<secure_mode, random_str, skeys, up_packetid, mc, cloud>>
    BY <1>8 DEF WriteHeader
  <2>4. CryptoTypes' /\ SameSession' /\ PayloadsRead'
    BY <1>a, <1>8, <2>2, <2>3, NothingRead DEF WriteHeader, CryptoTypes, SameSession, Normal
  <2>5. \A v \in Publishers : ~inhand'[v].overlaps => Undisturbed(v)'
    BY <1>a, <2>1, <2>2, <2>3 DEF Undisturbed, Protecting
  <2> QED
    BY <2>4, <2>5 DEF CryptoIInv
<1>9. ASSUME NEW u \in Publishers, Encrypt(u) PROVE CryptoIInv'
  <2>1. /\ inhand[u].pc = "encrypt"
        /\ inhand' = [inhand EXCEPT ![u].seq = up_packetid, ![u].key = skeys, ![u].pc = "mic"]
    BY <1>9 DEF Encrypt
  <2>2. /\ inhand' \in [Publishers -> InHand] /\ inhand'[u].pc = "mic"
        /\ inhand'[u].overlaps = inhand[u].overlaps /\ inhand'[u].head = inhand[u].head
        /\ inhand'[u].seq = up_packetid /\ inhand'[u].key = skeys
        /\ \A v \in Publishers \ {u} : inhand'[v] = inhand[v]
    BY <1>a, <2>1 DEF CryptoTypes, InHand
  <2>3. UNCHANGED <<secure_mode, random_str, skeys, up_packetid, mc, cloud>>
    BY <1>9 DEF Encrypt
  <2>4. CryptoTypes' /\ SameSession' /\ PayloadsRead'
    BY <1>a, <1>9, <2>2, <2>3, NothingRead DEF Encrypt, CryptoTypes, SameSession, Normal
  <2>5. \A v \in Publishers : ~inhand'[v].overlaps => Undisturbed(v)'
    BY <1>a, <2>1, <2>2, <2>3 DEF Undisturbed, Protecting
  <2> QED
    BY <2>4, <2>5 DEF CryptoIInv
<1>10. ASSUME NEW u \in Publishers, CalMic(u) PROVE CryptoIInv'
  <2>1. /\ inhand[u].pc = "mic"
        /\ inhand' = [inhand EXCEPT ![u].mic = skeys, ![u].pc = "send"]
    BY <1>10 DEF CalMic
  <2>2. /\ inhand' \in [Publishers -> InHand] /\ inhand'[u].pc = "send"
        /\ inhand'[u].overlaps = inhand[u].overlaps /\ inhand'[u].head = inhand[u].head
        /\ inhand'[u].seq = inhand[u].seq /\ inhand'[u].key = inhand[u].key
        /\ inhand'[u].mic = skeys
        /\ \A v \in Publishers \ {u} : inhand'[v] = inhand[v]
    BY <1>a, <2>1 DEF CryptoTypes, InHand
  <2>3. UNCHANGED <<secure_mode, random_str, skeys, up_packetid, mc, cloud>>
    BY <1>10 DEF CalMic
  <2>4. CryptoTypes' /\ SameSession' /\ PayloadsRead'
    BY <1>a, <1>10, <2>2, <2>3, NothingRead DEF CalMic, CryptoTypes, SameSession, Normal
  <2>5. \A v \in Publishers : ~inhand'[v].overlaps => Undisturbed(v)'
    BY <1>a, <2>1, <2>2, <2>3 DEF Undisturbed, Protecting
  <2> QED
    BY <2>4, <2>5 DEF CryptoIInv
<1>11. ASSUME NEW u \in Publishers, Sends(u) PROVE CryptoIInv'
  <2>1. /\ inhand[u].pc = "send" /\ inhand[u] \in InHand /\ secure_mode \in 1 .. 3
        /\ inhand' = [inhand EXCEPT ![u] = Nothing]
    BY <1>a, <1>11 DEF Sends, CryptoTypes
  <2>2. /\ inhand' \in [Publishers -> InHand] /\ inhand'[u].pc = "idle"
        /\ \A v \in Publishers \ {u} : inhand'[v] = inhand[v]
    BY <1>a, <2>1 DEF CryptoTypes, InHand, Nothing
  <2>3. UNCHANGED <<secure_mode, random_str, skeys, up_packetid, mc, cloud>>
    BY <1>11 DEF Sends
  <2>4. PayloadsRead'
    <3>1. CASE ~Normal
      BY <1>11, <3>1, NothingRead DEF Sends
    <3>2. CASE Normal
      <4>1. got_last' = [n |-> inhand[u].n, read |-> Readable(inhand[u], cloud),
                         no_memory |-> inhand[u].bare, overlaps |-> inhand[u].overlaps]
        BY <1>11, <3>2 DEF Sends
      <4>2. ASSUME inhand[u].n <= IndexRange, ~inhand[u].overlaps,
                   inhand[u].bare => secure_mode = PLAIN
            PROVE  Readable(inhand[u], cloud)
        <5>1. secure_mode # PLAIN =>
                /\ ~inhand[u].bare /\ inhand[u].seq = inhand[u].head
                /\ inhand[u].key = cloud /\ inhand[u].mic = cloud
          BY <1>a, <2>1, <3>2, <4>2 DEF Undisturbed, SameSession
        <5>2. Covered(inhand[u].n) = StreamOf(inhand[u].n)
          BY <2>1, <4>2, WholePayloadCovered DEF InHand
        <5> QED
          BY <5>1, <5>2 DEF Readable
      <4> QED
        BY <2>3, <4>1, <4>2 DEF PayloadsRead, PLAIN
    <3> QED
      BY <3>1, <3>2
  <2>5. CryptoTypes' /\ SameSession'
    BY <1>a, <2>2, <2>3 DEF CryptoTypes, SameSession, Normal
  <2>6. \A v \in Publishers : ~inhand'[v].overlaps => Undisturbed(v)'
    BY <1>a, <2>1, <2>2, <2>3 DEF Undisturbed, Protecting
  <2> QED
    BY <2>4, <2>5, <2>6 DEF CryptoIInv
<1>12. ASSUME NEW n \in PayloadLens, DownProcess(n) PROVE CryptoIInv'
  <2>1. UNCHANGED <<secure_mode, random_str, skeys, up_packetid, mc, cloud, inhand>>
    BY <1>12 DEF DownProcess
  <2>2. PayloadsRead'
    <3>1. PICK no_memory \in BOOLEAN :
            got_last' =
              [n |-> n, no_memory |-> no_memory, overlaps |-> FALSE,
               read |-> \/ secure_mode = PLAIN
                        \/ /\ ~no_memory /\ skeys = cloud
                           /\ secure_mode = FORMENCRYPT => Covered(n) = StreamOf(n)]
      BY <1>12 DEF DownProcess
    <3>2. skeys = cloud
      BY <1>a, <1>12 DEF DownProcess, SameSession, Normal
    <3>3. n <= IndexRange => Covered(n) = StreamOf(n)
      BY CryptoAssumption, WholePayloadCovered
    <3> QED
      BY <2>1, <3>1, <3>2, <3>3 DEF PayloadsRead, PLAIN
  <2>3. CryptoTypes' /\ SameSession'
    BY <1>a, <2>1 DEF CryptoTypes, SameSession, Normal
  <2>4. \A v \in Publishers : ~inhand'[v].overlaps => Undisturbed(v)'
    BY <1>a, <2>1 DEF Undisturbed, Protecting
  <2> QED
    BY <2>2, <2>3, <2>4 DEF CryptoIInv
<1>13. CASE UNCHANGED cryptoVars
  BY <1>a, <1>13
     DEF cryptoVars, CryptoIInv, CryptoTypes, SameSession, Normal, PayloadsRead, Undisturbed, Protecting
<1> QED
  BY <1>1, <1>2, <1>3, <1>4, <1>5, <1>6, <1>7, <1>8, <1>9, <1>10, <1>11, <1>12, <1>13
     DEF CryptoNext

(* The cloud and the handlers read every payload that nothing disturbed,   *)
(* however many publishers there are and however often the keys are made.  *)
THEOREM EveryPayloadRead == CryptoSpec => []PayloadsRead
<1>1. CryptoIInv => PayloadsRead
  BY DEF CryptoIInv
<1> QED
  BY <1>1, CryptoInitial, CryptoStep, PTL DEF CryptoSpec

(* Sessions, ids and messages are counted within their bounds.             *)
CryptoCounts ==
  /\ secure_mode \in SecureModes
  /\ random_str \in 0 .. CryptoSessionsMax /\ skeys \in 0 .. CryptoSessionsMax
  /\ cloud \in 0 .. CryptoSessionsMax /\ up_packetid \in 0 .. PacketIdRange - 1
  /\ mc \in {"none", "authenticated", "connected", "ready", "disconnected"}
  /\ published \in 0 .. CryptoSendsMax

LEMMA CryptoCountsInit == CryptoInit => CryptoCounts
BY CryptoAssumption DEF CryptoInit, CryptoCounts

(* No step counts past a bound: the id is taken modulo its range.          *)
LEMMA CryptoCountsNext == CryptoIInv /\ CryptoCounts /\ [CryptoNext]_cryptoVars => CryptoCounts'
<1> SUFFICES ASSUME CryptoIInv, CryptoCounts, [CryptoNext]_cryptoVars PROVE CryptoCounts'
  OBVIOUS
<1> USE CryptoAssumption DEF CryptoCounts
<1>1. CASE Authenticate
  BY <1>1 DEF Authenticate
<1>2. CASE Connect
  BY <1>2 DEF Connect
<1>3. CASE GenKeys
  BY <1>3 DEF GenKeys
<1>4. CASE ConnectionLost
  BY <1>4 DEF ConnectionLost
<1>5. ASSUME NEW u \in Publishers, NEW n \in PayloadLens, Publishes(u, n) PROVE CryptoCounts'
  BY <1>5 DEF Publishes
<1>6. ASSUME NEW u \in Publishers, ReadPacketId(u) PROVE CryptoCounts'
  BY <1>6 DEF ReadPacketId
<1>7. ASSUME NEW u \in Publishers, WritePacketId(u) PROVE CryptoCounts'
  <2>1. inhand[u].next \in Nat
    BY DEF CryptoIInv, CryptoTypes, InHand
  <2>2. (inhand[u].next + 1) % PacketIdRange \in 0 .. PacketIdRange - 1
    BY <2>1
  <2> QED
    BY <1>7, <2>2 DEF WritePacketId
<1>8. ASSUME NEW u \in Publishers, WriteHeader(u) \/ Encrypt(u) \/ CalMic(u) \/ Sends(u)
      PROVE  CryptoCounts'
  BY <1>8 DEF WriteHeader, Encrypt, CalMic, Sends
<1>9. ASSUME NEW n \in PayloadLens, DownProcess(n) PROVE CryptoCounts'
  BY <1>9 DEF DownProcess
<1>10. CASE UNCHANGED cryptoVars
  BY <1>10 DEF cryptoVars
<1> QED
  BY <1>1, <1>2, <1>3, <1>4, <1>5, <1>6, <1>7, <1>8, <1>9, <1>10 DEF CryptoNext

-----------------------------------------------------------------------------
(* Log: a cache that is full is a heap on the generations; an entry whose  *)
(* generation has become the newest goes down, a turn at a time, until the *)
(* order is repaired.                                                      *)

(* n turns of g from a, and that they exist as a function.                 *)
Iterates(f, S, a, g, n) ==
  f \in [0 .. n -> S] /\ f[0] = a /\ \A k \in 1 .. n : f[k] = g[f[k - 1]]

LEMMA IteratesExist ==
  ASSUME NEW S, NEW a \in S, NEW g \in [S -> S], NEW n \in Nat
  PROVE  \E f : Iterates(f, S, a, g, n)
<1> DEFINE Found(m) ==
             \E f \in [0 .. m -> S] : f[0] = a /\ \A k \in 1 .. m : f[k] = g[f[k - 1]]
           missing == {m \in Nat : ~Found(m)}
<1>1. Found(0)
  <2> DEFINE f == [k \in 0 .. 0 |-> a]
  <2>1. f \in [0 .. 0 -> S] /\ f[0] = a
    OBVIOUS
  <2>2. \A k \in 1 .. 0 : f[k] = g[f[k - 1]]
    OBVIOUS
  <2> HIDE DEF f
  <2> QED
    BY <2>1, <2>2
<1>2. ASSUME NEW m \in Nat, Found(m) PROVE Found(m + 1)
  <2>1. PICK f \in [0 .. m -> S] : f[0] = a /\ \A k \in 1 .. m : f[k] = g[f[k - 1]]
    BY <1>2
  <2> DEFINE more == [k \in 0 .. m + 1 |-> IF k = m + 1 THEN g[f[m]] ELSE f[k]]
  <2>2. more \in [0 .. m + 1 -> S] /\ more[0] = a
    BY <2>1
  <2>3. ASSUME NEW k \in 1 .. m + 1 PROVE more[k] = g[more[k - 1]]
    BY <2>1
  <2> QED
    BY <2>2, <2>3
<1>3. ASSUME missing # {} PROVE FALSE
  <2>1. PICK m \in missing : \A k \in missing : m <= k
    BY <1>3, LeastNumber
  <2> HIDE DEF Found
  <2>2. m # 0 /\ m \in Nat /\ ~Found(m)
    BY <1>1, <2>1
  <2>3. m - 1 \in Nat /\ m - 1 \notin missing /\ (m - 1) + 1 = m
    BY <2>1, <2>2
  <2>4. Found((m - 1) + 1)
    BY <1>2, <2>3
  <2> QED
    BY <2>2, <2>3, <2>4
<1> QED
  BY <1>3 DEF Iterates

(* The entries, a full cache as a function, and the place in it where the  *)
(* entry that goes down has come to.                                       *)
LogEntry == [tag : LogTags, level : LogLevels \cup {0}, generation : Nat]
Full == 1 .. TAG_CACHE_SIZE
Heap == [Full -> LogEntry]
Place == [at : Full, heap : Heap]

(* The child that is older, and one turn of the loop of heap_bubble_down.  *)
Below(c, i) == IF c[2 * i].generation < c[2 * i + 1].generation THEN 2 * i ELSE 2 * i + 1
Turn(s) == IF 2 * s.at + 1 > TAG_CACHE_SIZE THEN s
           ELSE [at |-> Below(s.heap, s.at),
                 heap |-> Swapped(s.heap, s.at, Below(s.heap, s.at))]

(* No two entries have a tag or a generation in common.                    *)
Different(c, places) ==
  \A i, j \in places : c[i].tag = c[j].tag \/ c[i].generation = c[j].generation => i = j

(* Every entry is newer than its parent.                                   *)
Ordered(c, places) ==
  \A i \in places : i > 1 => c[i \div 2].generation < c[i].generation

(* On the way down: the newest entry is at `at`, everything is in order    *)
(* but for what is below it, which is newer than what is above it; after k *)
(* turns the place is the k-th at least, or the last.                      *)
Sinking(cache, s, k) ==
  /\ s \in Place /\ Different(s.heap, Full)
  /\ \A i \in Full : \E j \in Full : s.heap[i] = cache[j]
  /\ \A i \in Full : i # s.at => s.heap[i].generation < s.heap[s.at].generation
  /\ \A i \in Full : i > 1 /\ i \div 2 # s.at =>
        s.heap[i \div 2].generation < s.heap[i].generation
  /\ \A i \in Full : i > 1 /\ i \div 2 = s.at /\ s.at > 1 =>
        s.heap[s.at \div 2].generation < s.heap[i].generation
  /\ s.at >= k + 1 \/ 2 * s.at + 1 > TAG_CACHE_SIZE

(* The parent of a place, and the places whose parent it is.               *)
LEMMA Halves ==
  /\ \A i \in Nat : i > 1 => i \div 2 \in Nat /\ i \div 2 >= 1 /\ i \div 2 < i
  /\ \A at, i \in Nat : i \div 2 = at <=> i = 2 * at \/ i = 2 * at + 1
OBVIOUS

LEMMA TurnKeepsPlace ==
  ASSUME NEW s \in Place
  PROVE  Turn(s) \in Place
<1>1. CASE 2 * s.at + 1 > TAG_CACHE_SIZE
  BY <1>1 DEF Turn
<1>2. CASE ~(2 * s.at + 1 > TAG_CACHE_SIZE)
  <2> DEFINE b == Below(s.heap, s.at)
  <2>1. b \in Full /\ s.at \in Full /\ s.heap \in Heap
    BY <1>2, LogAssumption DEF Below, Place, Full
  <2>2. Turn(s) = [at |-> b, heap |-> Swapped(s.heap, s.at, b)]
    BY <1>2 DEF Turn
  <2> HIDE DEF b
  <2>3. Swapped(s.heap, s.at, b) \in Heap
    BY <2>1 DEF Swapped, Heap
  <2> QED
    BY <2>1, <2>2, <2>3 DEF Place
<1> QED
  BY <1>1, <1>2

LEMMA TurnSinks ==
  ASSUME NEW cache, NEW s, NEW k \in Nat, Sinking(cache, s, k)
  PROVE  Sinking(cache, Turn(s), k + 1)
<1>1. CASE 2 * s.at + 1 > TAG_CACHE_SIZE
  BY <1>1 DEF Turn, Sinking
<1>2. CASE ~(2 * s.at + 1 > TAG_CACHE_SIZE)
  <2> DEFINE b == Below(s.heap, s.at)
             at == s.at
             h == s.heap
             new == Swapped(h, at, b)
  <2>1. /\ at \in Full /\ h \in Heap /\ Different(h, Full)
        /\ \A i \in Full : \E j \in Full : h[i] = cache[j]
        /\ \A i \in Full : i # at => h[i].generation < h[at].generation
        /\ \A i \in Full : i > 1 /\ i \div 2 # at => h[i \div 2].generation < h[i].generation
        /\ \A i \in Full : i > 1 /\ i \div 2 = at /\ at > 1 =>
              h[at \div 2].generation < h[i].generation
        /\ at >= k + 1
    BY <1>2 DEF Sinking, Place
  <2>2. Turn(s) = [at |-> b, heap |-> new]
    BY <1>2 DEF Turn
  <2>3. Turn(s) \in Place
    BY TurnKeepsPlace DEF Sinking
  <2>4. /\ b \in Full /\ b \div 2 = at /\ b # at /\ b >= at + 1 /\ b > 1
        /\ \A i \in Full : i > 1 /\ i \div 2 = at => i = b \/ h[b].generation < h[i].generation
    <3> DEFINE l == 2 * at
               r == 2 * at + 1
    <3>1. b = IF h[l].generation < h[r].generation THEN l ELSE r
      BY DEF Below
    <3>2. at \in Nat /\ at >= 1 /\ TAG_CACHE_SIZE \in Nat /\ ~(2 * at + 1 > TAG_CACHE_SIZE)
      <4>1. at \in Full /\ ~(2 * at + 1 > TAG_CACHE_SIZE)
        BY <1>2, <2>1
      <4> HIDE DEF at
      <4> QED
        BY <4>1, LogAssumption DEF Full
    <3> HIDE DEF b, at, h
    <3>3. l \in Full /\ r \in Full /\ l # r /\ l > at /\ r > at
      BY <3>2 DEF Full
    <3>4. l \div 2 = at /\ r \div 2 = at
          /\ \A i \in Full : i > 1 /\ i \div 2 = at => i = l \/ i = r
      BY <3>2, Halves DEF Full
    <3> HIDE DEF l, r
    <3>5. h[l].generation \in Nat /\ h[r].generation \in Nat
      BY <2>1, <3>3 DEF Heap, LogEntry
    <3>6. h[l].generation # h[r].generation
      BY <2>1, <3>3 DEF Different
    <3>7. b \in {l, r} /\ (b = l => h[b].generation < h[r].generation)
          /\ (b = r => h[b].generation < h[l].generation)
      BY <3>1, <3>3, <3>5, <3>6
    <3>8. b \in Full /\ b \div 2 = at /\ b > at
      BY <3>3, <3>4, <3>7
    <3>9. b # at /\ b >= at + 1 /\ b > 1
      BY <3>2, <3>8 DEF Full
    <3> QED
      BY <3>3, <3>4, <3>7, <3>8, <3>9
  <2> HIDE DEF b, at, h
  <2>5. /\ new \in Heap /\ new[at] = h[b] /\ new[b] = h[at]
        /\ \A i \in Full : i # at /\ i # b => new[i] = h[i]
    BY <2>1, <2>4 DEF Swapped, Heap
  <2> HIDE DEF new
  <2>6. Different(new, Full)
    BY <2>1, <2>4, <2>5 DEF Different
  <2>7. \A i \in Full : \E j \in Full : new[i] = cache[j]
    BY <2>1, <2>4, <2>5
  <2>8. \A i \in Full : i # b => new[i].generation < new[b].generation
    BY <2>1, <2>4, <2>5
  <2>9. ASSUME NEW i \in Full, i > 1, i \div 2 # b
        PROVE  new[i \div 2].generation < new[i].generation
    <3>1. i \div 2 \in Full
      BY <2>9, Halves, LogAssumption DEF Full
    <3>2. CASE i \div 2 = at
      <4>1. CASE i = b
        BY <2>4, <2>8, <3>2, <4>1, <2>1
      <4>2. CASE i # b
        <5>1. h[b].generation < h[i].generation /\ i # at
          <6>1. i \in Nat /\ i \div 2 < i
            BY <2>9, Halves DEF Full
          <6> QED
            BY <2>4, <2>9, <3>2, <4>2, <6>1
        <5> QED
          BY <2>5, <2>9, <3>2, <4>2, <5>1
      <4> QED
        BY <4>1, <4>2
    <3>3. CASE i = at
      <4>1. i \div 2 # at
        BY <3>3, <2>9 DEF Full
      <4>2. h[at \div 2].generation < h[b].generation
        BY <2>1, <2>4, <2>9, <3>3
      <4> QED
        BY <2>5, <2>9, <3>1, <3>3, <4>1, <4>2
    <3>4. CASE i \div 2 # at /\ i # at
      <4>1. i # b
        BY <2>4, <3>4
      <4> QED
        BY <2>1, <2>5, <2>9, <3>1, <3>4, <4>1
    <3> QED
      BY <3>2, <3>3, <3>4
  <2>10. ASSUME NEW i \in Full, i > 1, i \div 2 = b
         PROVE  new[b \div 2].generation < new[i].generation
    <3>1. i # at /\ i # b /\ i \div 2 # at
      <4>1. i \in Nat /\ b \in Nat /\ at \in Nat /\ b > at /\ b < i
        BY <2>1, <2>4, <2>10, Halves DEF Full
      <4> QED
        BY <2>4, <2>10, <4>1
    <3> QED
      BY <2>1, <2>4, <2>5, <2>10, <3>1
  <2>11. b >= k + 1 + 1
    BY <2>1, <2>4 DEF Full
  <2> QED
    BY <2>2, <2>3, <2>6, <2>7, <2>8, <2>9, <2>10, <2>11 DEF Sinking
<1> QED
  BY <1>1, <1>2

(* heap_bubble_down repairs the order, and moves the entries only.         *)
LEMMA BubbledDown ==
  ASSUME NEW cache, NEW index,
         Sinking(cache, [at |-> index, heap |-> cache], 0)
  PROVE  LET c == heap_bubble_down(cache, index)
         IN  /\ c \in Heap /\ Different(c, Full) /\ Ordered(c, Full)
             /\ \A i \in Full : \E j \in Full : c[i] = cache[j]
<1> DEFINE start == [at |-> index, heap |-> cache]
           Steps(f) == f = [k \in 0 .. TAG_CACHE_SIZE |-> IF k = 0 THEN start ELSE Turn(f[k - 1])]
           steps == CHOOSE f : Steps(f)
           g == [s \in Place |-> Turn(s)]
<1>1. heap_bubble_down(cache, index) = steps[TAG_CACHE_SIZE].heap
  BY DEF heap_bubble_down, Turn, Below
<1>2. TAG_CACHE_SIZE \in Nat
  BY LogAssumption
<1>3. start \in Place /\ Sinking(cache, start, 0)
  BY DEF Sinking
<1>4. g \in [Place -> Place]
  BY TurnKeepsPlace
<1> HIDE DEF start
<1>5. \E f : Steps(f)
  <2> HIDE DEF g
  <2>1. PICK f : Iterates(f, Place, start, g, TAG_CACHE_SIZE)
    <3>1. start \in Place
      BY <1>3
    <3> QED
      BY <1>2, <1>4, <3>1, IteratesExist
  <2>a. /\ f \in [0 .. TAG_CACHE_SIZE -> Place] /\ f[0] = start
        /\ \A k \in 1 .. TAG_CACHE_SIZE : f[k] = g[f[k - 1]]
    BY <2>1 DEF Iterates
  <2>2. ASSUME NEW k \in 0 .. TAG_CACHE_SIZE
        PROVE  f[k] = IF k = 0 THEN start ELSE Turn(f[k - 1])
    <3>1. k # 0 => f[k - 1] \in Place /\ k \in 1 .. TAG_CACHE_SIZE
      BY <1>2, <2>a
    <3>2. k # 0 => g[f[k - 1]] = Turn(f[k - 1])
      BY <3>1 DEF g
    <3> QED
      BY <2>a, <3>1, <3>2
  <2>3. Steps(f)
    BY <2>a, <2>2
  <2> QED
    BY <2>3
<1>6. Steps(steps)
  BY <1>5
<1>7. /\ steps[0] = start
      /\ \A k \in Nat : k + 1 <= TAG_CACHE_SIZE => steps[k + 1] = Turn(steps[k])
  <2> HIDE DEF steps
  <2> QED
    BY <1>2, <1>6
<1> HIDE DEF steps
<1>8. ASSUME NEW k \in 0 .. TAG_CACHE_SIZE PROVE Sinking(cache, steps[k], k)
  <2> DEFINE wrong == {m \in 0 .. TAG_CACHE_SIZE : ~Sinking(cache, steps[m], m)}
  <2>1. ASSUME wrong # {} PROVE FALSE
    <3>1. PICK m \in wrong : \A j \in wrong : m <= j
      <4>1. wrong \subseteq Nat
        OBVIOUS
      <4> QED
        BY <2>1, <4>1, LeastNumber
    <3>2. m \in 0 .. TAG_CACHE_SIZE /\ m # 0 /\ ~Sinking(cache, steps[m], m)
      BY <1>3, <1>7, <3>1
    <3>3. m - 1 \in Nat /\ m - 1 \notin wrong /\ (m - 1) + 1 = m /\ m - 1 \in 0 .. TAG_CACHE_SIZE
      BY <1>2, <3>1, <3>2
    <3>4. Sinking(cache, steps[m - 1], m - 1)
      BY <3>3
    <3>5. Sinking(cache, Turn(steps[m - 1]), (m - 1) + 1)
      BY <3>3, <3>4, TurnSinks
    <3>6. steps[(m - 1) + 1] = Turn(steps[m - 1])
      BY <1>2, <1>7, <3>2, <3>3
    <3> QED
      BY <3>2, <3>3, <3>5, <3>6
  <2> QED
    BY <2>1
<1> DEFINE s == steps[TAG_CACHE_SIZE]
<1>9. Sinking(cache, s, TAG_CACHE_SIZE)
  BY <1>2, <1>8
<1> HIDE DEF s
<1>10. s \in Place /\ s.at \in Full /\ 2 * s.at + 1 > TAG_CACHE_SIZE
  BY <1>2, <1>9 DEF Sinking, Place, Full
<1>11. ASSUME NEW i \in Full, i > 1 PROVE i \div 2 # s.at
  BY <1>10, <1>11, LogAssumption DEF Full
<1>12. Ordered(s.heap, Full)
  BY <1>9, <1>11 DEF Sinking, Ordered
<1> QED
  BY <1>1, <1>9, <1>10, <1>12 DEF Sinking, Place, s

(* The level of an entry whose text no other address has is that of the    *)
(* list.                                                                   *)
Current(e) ==
  (\A t \in LogTags : LogText[t] = LogText[e.tag] => t = e.tag) =>
    e.level = get_uncached_log_level(LogText[e.tag])

(* The cache is a heap on the generations, none of which is reached yet,   *)
(* without a tag twice, and its levels are current.                        *)
LogIInv ==
  /\ s_log_default_level \in LogLevels \cup {0}
  /\ s_log_tags \in [Texts -> LogLevels \cup {Unset}]
  /\ s_log_cache \in Seq(LogEntry) /\ Len(s_log_cache) <= TAG_CACHE_SIZE
  /\ s_log_cache_max_generation \in Nat
  /\ \A i \in Entries : s_log_cache[i].generation < s_log_cache_max_generation
  /\ Different(s_log_cache, Entries) /\ Ordered(s_log_cache, Entries)
  /\ \A i \in Entries : Current(s_log_cache[i])

(* A full cache in which an entry of the newest generation takes the place *)
(* i and goes down.                                                        *)
LEMMA PlaceTaken ==
  ASSUME LogIInv, Len(s_log_cache) = TAG_CACHE_SIZE, NEW i \in Full,
         NEW e \in LogEntry, e.generation = s_log_cache_max_generation,
         \A j \in Full : j # i => s_log_cache[j].tag # e.tag
  PROVE  LET c == heap_bubble_down([s_log_cache EXCEPT ![i] = e], i)
         IN  /\ c \in Seq(LogEntry) /\ Len(c) = TAG_CACHE_SIZE
             /\ Different(c, Full) /\ Ordered(c, Full)
             /\ \A k \in Full : c[k] = e \/ \E j \in Full : c[k] = s_log_cache[j]
<1> DEFINE old == s_log_cache
           new == [old EXCEPT ![i] = e]
           s == [at |-> i, heap |-> new]
           c == heap_bubble_down(new, i)
<1>1. TAG_CACHE_SIZE \in Nat /\ Entries = Full
  BY LogAssumption DEF Entries, Full
<1>2. /\ old \in Heap /\ Different(old, Full) /\ Ordered(old, Full)
      /\ \A k \in Full : old[k].generation < s_log_cache_max_generation
  BY <1>1 DEF LogIInv, Heap, Full
<1>3. new \in Heap /\ new[i] = e /\ \A j \in Full : j # i => new[j] = old[j]
  BY <1>2 DEF Heap
<1> HIDE DEF new, old
<1>4. s \in Place /\ s.at = i /\ s.heap = new
  BY <1>3 DEF Place
<1> HIDE DEF s
<1>5. Different(new, Full)
  <2>1. \A k \in Full : old[k].generation # e.generation
    <3>1. ASSUME NEW k \in Full PROVE old[k].generation # e.generation
      <4>1. old[k].generation \in Nat /\ s_log_cache_max_generation \in Nat
        BY <1>2 DEF Heap, LogEntry, LogIInv
      <4> QED
        BY <1>2, <4>1
    <3> QED
      BY <3>1
  <2>2. \A j \in Full : j # i => old[j].tag # e.tag
    BY DEF old
  <2> QED
    BY <1>2, <1>3, <2>1, <2>2 DEF Different
<1>6. \A k \in Full : \E j \in Full : new[k] = new[j]
  OBVIOUS
<1>7. \A k \in Full : k # i => new[k].generation < new[i].generation
  BY <1>2, <1>3
<1>8. ASSUME NEW k \in Full, k > 1, k \div 2 # i
      PROVE  new[k \div 2].generation < new[k].generation
  <2>1. k \div 2 \in Full
    BY <1>1, <1>8, Halves DEF Full
  <2>2. old[k \div 2].generation < old[k].generation
    BY <1>2, <1>8 DEF Ordered
  <2>3. CASE k = i
    BY <1>7, <1>8, <2>1, <2>3
  <2>4. CASE k # i
    BY <1>3, <1>8, <2>1, <2>2, <2>4
  <2> QED
    BY <2>3, <2>4
<1>9. ASSUME NEW k \in Full, k > 1, k \div 2 = i, i > 1
      PROVE  new[i \div 2].generation < new[k].generation
  <2>1. /\ i \div 2 \in Full /\ i \div 2 # i /\ k # i
    <3>1. i \in Nat /\ k \in Nat /\ i \div 2 < i /\ k \div 2 < k /\ i \div 2 >= 1 /\ i \div 2 \in Nat
      BY <1>1, <1>9, Halves DEF Full
    <3> QED
      BY <1>1, <1>9, <3>1 DEF Full
  <2>2. old[i \div 2].generation < old[i].generation /\ old[i].generation < old[k].generation
    BY <1>2, <1>9 DEF Ordered
  <2>3. /\ old[i \div 2].generation \in Nat /\ old[i].generation \in Nat
        /\ old[k].generation \in Nat
    BY <1>2, <2>1 DEF Heap, LogEntry
  <2> QED
    BY <1>3, <2>1, <2>2, <2>3
<1>10. i >= 0 + 1
  BY <1>1 DEF Full
<1>11. Sinking(new, s, 0)
  BY <1>4, <1>5, <1>6, <1>7, <1>8, <1>9, <1>10 DEF Sinking
<1>12. /\ c \in Heap /\ Different(c, Full) /\ Ordered(c, Full)
       /\ \A k \in Full : \E j \in Full : c[k] = new[j]
  <2>1. Sinking(new, [at |-> i, heap |-> new], 0)
    BY <1>11 DEF s
  <2> QED
    BY <2>1, BubbledDown
<1> HIDE DEF c
<1>13. \A k \in Full : c[k] = e \/ \E j \in Full : c[k] = old[j]
  BY <1>3, <1>12
<1>14. c \in Seq(LogEntry) /\ Len(c) = TAG_CACHE_SIZE
  <2>1. c \in [1 .. TAG_CACHE_SIZE -> LogEntry]
    BY <1>12 DEF Heap, Full
  <2> QED
    BY <1>1, <2>1, FunctionIsSeq
<1> QED
  BY <1>12, <1>13, <1>14 DEF c, new, old

(* What replaces the cache when an entry goes down, or comes in.           *)
LEMMA CacheKeeps ==
  ASSUME LogIInv, UNCHANGED <<s_log_default_level, s_log_tags>>,
         s_log_cache_max_generation' = s_log_cache_max_generation + 1,
         s_log_cache' \in Seq(LogEntry), Len(s_log_cache') <= TAG_CACHE_SIZE,
         Different(s_log_cache', Entries'), Ordered(s_log_cache', Entries'),
         NEW e, e.generation = s_log_cache_max_generation, Current(e),
         \A k \in Entries' : s_log_cache'[k] = e \/ \E j \in Entries : s_log_cache'[k] = s_log_cache[j]
  PROVE  LogIInv'
<1>1. \A k \in Entries' : Current(s_log_cache'[k])
  BY DEF LogIInv
<1>2. \A k \in Entries' : Current(s_log_cache[k])'
  BY <1>1 DEF Current, get_uncached_log_level
<1>3. \A j \in Entries : s_log_cache[j] \in LogEntry
  BY DEF LogIInv, Entries
<1>4. ASSUME NEW k \in Entries'
      PROVE  s_log_cache'[k].generation < s_log_cache_max_generation'
  <2>1. s_log_cache_max_generation \in Nat
    BY DEF LogIInv
  <2>2. CASE s_log_cache'[k] = e
    BY <2>1, <2>2
  <2>3. ASSUME NEW j \in Entries, s_log_cache'[k] = s_log_cache[j]
        PROVE  s_log_cache'[k].generation < s_log_cache_max_generation'
    <3>1. s_log_cache[j].generation \in Nat
      BY <1>3 DEF LogEntry
    <3>2. s_log_cache[j].generation < s_log_cache_max_generation
      BY DEF LogIInv
    <3> QED
      BY <2>1, <2>3, <3>1, <3>2
  <2> QED
    BY <2>2, <2>3
<1> QED
  BY <1>2, <1>4 DEF LogIInv, Texts

(* The four operations: a write that finds its tag in the cache, one that  *)
(* does not, a level set for a tag, and one set for all.                   *)
LEMMA HitKeeps ==
  ASSUME LogIInv, NEW tag \in LogTags, LogWriteHit(tag)
  PROVE  LogIInv'
<1>1. CASE Len(s_log_cache) # TAG_CACHE_SIZE
  BY <1>1 DEF LogWriteHit, LogIInv, Texts, Entries, Current, get_uncached_log_level
<1>2. CASE Len(s_log_cache) = TAG_CACHE_SIZE
  <2> DEFINE first(i) == i \in Hit(tag) /\ \A j \in Hit(tag) : i <= j
             i == CHOOSE i \in Hit(tag) : \A j \in Hit(tag) : i <= j
             e == [s_log_cache[i] EXCEPT !.generation = s_log_cache_max_generation]
  <2>1. i \in Hit(tag)
    <3>1. Hit(tag) \subseteq Nat /\ Hit(tag) # {}
      BY DEF LogWriteHit, Hit, Entries
    <3>2. \E k \in Hit(tag) : \A j \in Hit(tag) : k <= j
      BY <3>1, LeastNumber
    <3> QED
      BY <3>2
  <2>2. /\ s_log_cache' = Refreshed(i)
        /\ s_log_cache_max_generation' = s_log_cache_max_generation + 1
        /\ UNCHANGED <<s_log_default_level, s_log_tags>>
    BY <1>2 DEF LogWriteHit
  <2> HIDE DEF i
  <2>3. Entries = Full /\ i \in Full /\ s_log_cache[i].tag = tag /\ s_log_cache[i] \in LogEntry
    BY <1>2, <2>1 DEF Hit, Entries, Full, LogIInv
  <2>4. /\ e \in LogEntry /\ e.generation = s_log_cache_max_generation /\ e.tag = tag
        /\ e.level = s_log_cache[i].level
    BY <2>3 DEF LogEntry, LogIInv
  <2>5. s_log_cache' = heap_bubble_down([s_log_cache EXCEPT ![i] = e], i)
    BY <2>2 DEF Refreshed
  <2> HIDE DEF e
  <2>6. Current(e)
    BY <2>3, <2>4 DEF Current, LogIInv
  <2>7. \A j \in Full : j # i => s_log_cache[j].tag # e.tag
    BY <2>3, <2>4 DEF LogIInv, Different
  <2>8. /\ s_log_cache' \in Seq(LogEntry) /\ Len(s_log_cache') = TAG_CACHE_SIZE
        /\ Different(s_log_cache', Full) /\ Ordered(s_log_cache', Full)
        /\ \A k \in Full : s_log_cache'[k] = e \/ \E j \in Full : s_log_cache'[k] = s_log_cache[j]
    BY <1>2, <2>3, <2>4, <2>5, <2>7, PlaceTaken
  <2>9. Entries' = Full /\ Len(s_log_cache') <= TAG_CACHE_SIZE
    BY <2>8, LogAssumption DEF Entries, Full
  <2> QED
    BY <2>2, <2>3, <2>4, <2>6, <2>8, <2>9, CacheKeeps
<1> QED
  BY <1>1, <1>2

LEMMA MissKeeps ==
  ASSUME LogIInv, NEW tag \in LogTags, LogWriteMiss(tag)
  PROVE  LogIInv'
<1> DEFINE level == get_uncached_log_level(LogText[tag])
           e == [tag |-> tag, level |-> level, generation |-> s_log_cache_max_generation]
<1>1. /\ s_log_cache' = Added(tag, level)
      /\ s_log_cache_max_generation' = s_log_cache_max_generation + 1
      /\ UNCHANGED <<s_log_default_level, s_log_tags>>
      /\ \A i \in Entries : s_log_cache[i].tag # tag
  BY DEF LogWriteMiss, Hit
<1>2. level \in LogLevels \cup {0}
  BY DEF get_uncached_log_level, LogIInv, Texts
<1>3. e \in LogEntry /\ e.tag = tag /\ e.level = level
      /\ e.generation = s_log_cache_max_generation
  BY <1>2 DEF LogEntry, LogIInv
<1>4. Current(e)
  BY <1>3 DEF Current
<1>5. s_log_cache' = IF Len(s_log_cache) < TAG_CACHE_SIZE THEN Append(s_log_cache, e)
                     ELSE heap_bubble_down([s_log_cache EXCEPT ![1] = e], 1)
  BY <1>1 DEF Added
<1> HIDE DEF e, level
<1>6. CASE Len(s_log_cache) < TAG_CACHE_SIZE
  <2> DEFINE n == Len(s_log_cache)
  <2>1. /\ s_log_cache' \in Seq(LogEntry) /\ Len(s_log_cache') = n + 1 /\ n \in Nat
        /\ s_log_cache'[n + 1] = e /\ \A i \in 1 .. n : s_log_cache'[i] = s_log_cache[i]
    BY <1>3, <1>5, <1>6 DEF LogIInv
  <2>2. Entries = 1 .. n /\ Entries' = 1 .. n + 1
    BY <2>1 DEF Entries
  <2> HIDE DEF n
  <2>3. /\ \A i \in 1 .. n : s_log_cache[i].generation < s_log_cache_max_generation
        /\ \A i \in 1 .. n : s_log_cache[i].generation \in Nat
        /\ s_log_cache_max_generation \in Nat
    <3>1. \A i \in 1 .. n : s_log_cache[i] \in LogEntry
      BY DEF LogIInv, n
    <3> QED
      BY <2>2, <3>1 DEF LogIInv, LogEntry
  <2>4. Different(s_log_cache', Entries')
    <3>1. Different(s_log_cache, 1 .. n)
      BY <2>2 DEF LogIInv
    <3>2. \A i \in 1 .. n : /\ s_log_cache'[i] = s_log_cache[i]
                           /\ s_log_cache[i].tag # e.tag
                           /\ s_log_cache[i].generation # e.generation
      BY <1>1, <1>3, <2>1, <2>2, <2>3
    <3>3. s_log_cache'[n + 1] = e /\ \A i \in 1 .. n + 1 : i = n + 1 \/ i \in 1 .. n
      BY <2>1
    <3> QED
      BY <2>2, <3>1, <3>2, <3>3 DEF Different
  <2>5. Ordered(s_log_cache', Entries')
    <3>1. SUFFICES ASSUME NEW i \in 1 .. n + 1, i > 1
                   PROVE  s_log_cache'[i \div 2].generation < s_log_cache'[i].generation
      BY <2>2 DEF Ordered
    <3>2. i \div 2 \in 1 .. n
      <4>1. i \in Nat /\ i \div 2 \in Nat /\ i \div 2 >= 1 /\ i \div 2 < i
        BY <2>1, <3>1, Halves
      <4> QED
        BY <2>1, <3>1, <4>1
    <3>3. CASE i = n + 1
      BY <1>3, <2>1, <2>3, <3>2, <3>3
    <3>4. CASE i # n + 1
      <4>1. i \in 1 .. n
        BY <2>1, <3>4
      <4> QED
        BY <2>1, <2>2, <3>1, <3>2, <4>1 DEF Ordered, LogIInv
    <3> QED
      BY <3>3, <3>4
  <2>6. \A k \in Entries' : s_log_cache'[k] = e \/ \E j \in Entries : s_log_cache'[k] = s_log_cache[j]
    BY <2>1, <2>2
  <2>7. Len(s_log_cache') <= TAG_CACHE_SIZE
    BY <1>6, <2>1, LogAssumption DEF n
  <2> QED
    BY <1>1, <1>3, <1>4, <2>1, <2>4, <2>5, <2>6, <2>7, CacheKeeps
<1>7. CASE ~(Len(s_log_cache) < TAG_CACHE_SIZE)
  <2>1. Len(s_log_cache) = TAG_CACHE_SIZE
    BY <1>7, LogAssumption, LenProperties DEF LogIInv
  <2>2. Entries = Full /\ 1 \in Full
    BY <2>1, LogAssumption DEF Entries, Full
  <2>3. \A j \in Full : j # 1 => s_log_cache[j].tag # e.tag
    BY <1>1, <1>3, <2>2
  <2>4. s_log_cache' = heap_bubble_down([s_log_cache EXCEPT ![1] = e], 1)
    BY <1>5, <1>7
  <2>5. /\ s_log_cache' \in Seq(LogEntry) /\ Len(s_log_cache') = TAG_CACHE_SIZE
        /\ Different(s_log_cache', Full) /\ Ordered(s_log_cache', Full)
        /\ \A k \in Full : s_log_cache'[k] = e \/ \E j \in Full : s_log_cache'[k] = s_log_cache[j]
    BY <1>3, <2>1, <2>2, <2>3, <2>4, PlaceTaken
  <2>6. Entries' = Full /\ Len(s_log_cache') <= TAG_CACHE_SIZE
    BY <2>5, LogAssumption DEF Entries, Full
  <2> QED
    BY <1>1, <1>3, <1>4, <2>2, <2>5, <2>6, CacheKeeps
<1> QED
  BY <1>6, <1>7

LEMMA SetKeeps ==
  ASSUME LogIInv, NEW tag \in LogTags, NEW level \in LogLevels, LevelSet(tag, level)
  PROVE  LogIInv'
<1> DEFINE text == LogText[tag]
           same == {i \in Entries : LogText[s_log_cache[i].tag] = text}
           changed == {i \in same : \A j \in same : i <= j}
<1>1. /\ s_log_tags' = [s_log_tags EXCEPT ![text] = level]
      /\ s_log_cache' = [i \in Entries |->
           IF i \in changed THEN [s_log_cache[i] EXCEPT !.level = level] ELSE s_log_cache[i]]
      /\ UNCHANGED <<s_log_default_level, s_log_cache_max_generation>>
  BY DEF LevelSet
<1>2. \A i \in Entries : s_log_cache[i] \in LogEntry
  BY DEF LogIInv, Entries
<1>3. s_log_cache' \in [Entries -> LogEntry]
  BY <1>1, <1>2 DEF LogEntry
<1>4. s_log_cache' \in Seq(LogEntry) /\ Len(s_log_cache') = Len(s_log_cache) /\ Entries' = Entries
  <2>1. Len(s_log_cache) \in Nat /\ s_log_cache' \in [1 .. Len(s_log_cache) -> LogEntry]
    BY <1>3, LenProperties DEF LogIInv, Entries
  <2> QED
    BY <2>1, FunctionIsSeq DEF Entries
<1>5. ASSUME NEW i \in Entries
      PROVE  /\ s_log_cache'[i].tag = s_log_cache[i].tag
             /\ s_log_cache'[i].generation = s_log_cache[i].generation
             /\ s_log_cache'[i].level = IF i \in changed THEN level ELSE s_log_cache[i].level
  BY <1>1, <1>2 DEF LogEntry
<1>6. s_log_tags' \in [Texts -> LogLevels \cup {Unset}] /\ text \in Texts
  BY <1>1 DEF LogIInv, Texts
<1>7. Different(s_log_cache', Entries')
  BY <1>4, <1>5 DEF Different, LogIInv
<1>8. Ordered(s_log_cache', Entries')
  <2>1. \A i \in Entries : i > 1 => i \div 2 \in Entries
    <3>1. Len(s_log_cache) \in Nat
      BY LenProperties DEF LogIInv
    <3> QED
      BY <3>1, Halves DEF Entries
  <2> QED
    BY <1>4, <1>5, <2>1 DEF Ordered, LogIInv
<1>9. ASSUME NEW i \in Entries',
             \A t \in LogTags : LogText[t] = LogText[s_log_cache'[i].tag] => t = s_log_cache'[i].tag
      PROVE  s_log_cache'[i].level = get_uncached_log_level(LogText[s_log_cache[i].tag])'
  <2> DEFINE its == s_log_cache[i].tag
  <2>1. i \in Entries /\ its \in LogTags /\ s_log_cache'[i].tag = its
    BY <1>2, <1>4, <1>5, <1>9 DEF LogEntry
  <2>2. \A t \in LogTags : LogText[t] = LogText[its] => t = its
    BY <1>9, <2>1
  <2>3. s_log_cache[i].level = get_uncached_log_level(LogText[its])
    BY <2>1, <2>2 DEF LogIInv, Current
  <2>4. CASE LogText[its] = text
    <3>1. same = {i}
      <4>1. \A j \in same : s_log_cache[j].tag \in LogTags /\ s_log_cache[j].tag = its
        BY <1>2, <2>2, <2>4 DEF LogEntry
      <4> QED
        BY <2>1, <2>4, <4>1 DEF LogIInv, Different
    <3>2. i \in changed
      BY <2>1, <3>1 DEF Entries
    <3>3. s_log_cache'[i].level = level
      BY <1>5, <2>1, <3>2
    <3>4. s_log_tags'[text] = level /\ level # Unset
      BY <1>1, <1>6, LogAssumption DEF LogIInv, Unset
    <3> QED
      BY <2>1, <2>4, <3>3, <3>4 DEF get_uncached_log_level
  <2>5. CASE LogText[its] # text
    <3>1. i \notin changed
      BY <2>5
    <3>2. s_log_tags'[LogText[its]] = s_log_tags[LogText[its]]
      BY <1>1, <2>1, <2>5 DEF LogIInv, Texts
    <3> QED
      BY <1>1, <1>5, <2>1, <2>3, <3>1, <3>2 DEF get_uncached_log_level
  <2> QED
    BY <2>4, <2>5
<1>10. \A i \in Entries' : s_log_cache'[i].generation < s_log_cache_max_generation'
  <2>1. \A i \in Entries : s_log_cache'[i].generation = s_log_cache[i].generation
    BY <1>5
  <2>2. \A i \in Entries : s_log_cache[i].generation < s_log_cache_max_generation
    BY DEF LogIInv
  <2> QED
    BY <1>1, <1>4, <2>1, <2>2
<1> QED
  BY <1>1, <1>4, <1>6, <1>7, <1>8, <1>9, <1>10 DEF LogIInv, Current, Texts

LEMMA AllKeeps ==
  ASSUME LogIInv, NEW level \in LogLevels, LevelSetAll(level)
  PROVE  LogIInv'
<1>1. s_log_cache' = <<>> /\ s_log_cache' \in Seq(LogEntry) /\ Entries' = {}
  BY EmptySeq DEF LevelSetAll, Entries
<1>2. s_log_tags' \in [Texts -> LogLevels \cup {Unset}] /\ s_log_default_level' = level
      /\ s_log_cache_max_generation' = 0
  BY DEF LevelSetAll
<1>3. Len(s_log_cache') <= TAG_CACHE_SIZE
  BY <1>1, LogAssumption
<1> QED
  BY <1>1, <1>2, <1>3 DEF LogIInv, Different, Ordered, Texts

LEMMA LogInitial == LogInit => LogIInv
<1> SUFFICES ASSUME LogInit PROVE LogIInv
  OBVIOUS
<1>1. s_log_cache = <<>> /\ s_log_cache \in Seq(LogEntry) /\ Entries = {}
  BY EmptySeq DEF LogInit, Entries
<1>2. s_log_tags \in [Texts -> LogLevels \cup {Unset}] /\ s_log_default_level = 0
      /\ s_log_cache_max_generation = 0
  BY DEF LogInit
<1>3. Len(s_log_cache) <= TAG_CACHE_SIZE
  BY <1>1, LogAssumption
<1> QED
  BY <1>1, <1>2, <1>3 DEF LogIInv, Different, Ordered

LEMMA LogStep == LogIInv /\ [LogNext]_logVars => LogIInv'
<1> SUFFICES ASSUME LogIInv, [LogNext]_logVars PROVE LogIInv'
  OBVIOUS
<1>1. CASE UNCHANGED logVars
  BY <1>1 DEF logVars, LogIInv, Entries, Current, get_uncached_log_level
<1>2. CASE LogNext
  BY <1>2, HitKeeps, MissKeeps, SetKeeps, AllKeeps DEF LogNext
<1> QED
  BY <1>1, <1>2

(* Whatever comes between two messages of a tag, the entry the cache gives *)
(* up is the one looked up the longest time ago, and the level of a tag    *)
(* that is the only one with its text is the one that was set last         *)
(* (get_cached_log_level, add_to_cache, heap_bubble_down,                  *)
(* molmc_log_level_set): for every size of the cache, 31 in the code.      *)
THEOREM CacheInStep == LogSpec => []CacheFollowsLevels
<1>1. LogIInv => CacheFollowsLevels
  BY DEF LogIInv, CacheFollowsLevels, CacheOrdered, LevelsCurrent, Ordered, Different, Current
<1> QED
  BY <1>1, LogInitial, LogStep, PTL DEF LogSpec

(* The generations stay within their bound.                                *)
Generations == s_log_cache_max_generation <= LogGenerationsMax

LEMMA GenerationsInit == LogInit => Generations
BY LogAssumption DEF LogInit, Generations

(* A generation more only below the bound.                                 *)
LEMMA GenerationsNext == LogIInv /\ Generations /\ [LogNext]_logVars => Generations'
<1> SUFFICES ASSUME LogIInv, Generations, [LogNext]_logVars PROVE Generations'
  OBVIOUS
<1> USE LogAssumption DEF Generations
<1>1. s_log_cache_max_generation \in Nat
  BY DEF LogIInv
<1>2. ASSUME NEW tag \in LogTags, LogWriteHit(tag) PROVE Generations'
  BY <1>1, <1>2 DEF LogWriteHit
<1>3. ASSUME NEW tag \in LogTags, LogWriteMiss(tag) PROVE Generations'
  BY <1>1, <1>3 DEF LogWriteMiss
<1>4. ASSUME NEW tag \in LogTags, NEW level \in LogLevels, LevelSet(tag, level) PROVE Generations'
  BY <1>4 DEF LevelSet
<1>5. ASSUME NEW level \in LogLevels, LevelSetAll(level) PROVE Generations'
  BY <1>5 DEF LevelSetAll
<1>6. CASE UNCHANGED logVars
  BY <1>6 DEF logVars
<1> QED
  BY <1>2, <1>3, <1>4, <1>5, <1>6 DEF LogNext

(* The generations in the cache are below the newest.                      *)
LEMMA LogTyped == LogIInv /\ Generations => LogTypeOK
<1> SUFFICES ASSUME LogIInv, Generations PROVE LogTypeOK
  OBVIOUS
<1>1. ASSUME NEW i \in Entries
      PROVE  s_log_cache[i] \in
               [tag : LogTags, level : LogLevels \cup {0}, generation : 0 .. LogGenerationsMax]
  <2>1. s_log_cache[i] \in LogEntry /\ s_log_cache[i].generation < s_log_cache_max_generation
    BY DEF LogIInv, Entries
  <2>2. s_log_cache[i].generation \in 0 .. LogGenerationsMax
    BY <2>1, LogAssumption DEF LogEntry, LogIInv, Generations
  <2> QED
    BY <2>1, <2>2 DEF LogEntry
<1> QED
  BY <1>1 DEF LogIInv, LogTypeOK

-----------------------------------------------------------------------------
(* CoapWire: a node and a handled answer belong to a request that was sent.*)
SentNode == [n : Nat, msgid : Int, token : Seq(Int), observer : BOOLEAN, acked : BOOLEAN]

CoapNodes ==
  /\ udp \in CoapPorts
  /\ socket \in {"none", "open", "-1", "closed", "unconnected", "0"}
  /\ message_id \in 1 .. MaxWord /\ coap_token \in Nat
  /\ \E S : requested \in Seq(S)
  /\ sendlist \in Seq(SentNode)
  /\ \A k \in DOMAIN sendlist : sendlist[k].n \in DOMAIN requested
  /\ \A h \in handled : h.n \in DOMAIN requested

LEMMA CoapNodesInit == CoapWireInit => CoapNodes
<1> SUFFICES ASSUME CoapWireInit PROVE CoapNodes
  OBVIOUS
<1>1. /\ udp \in CoapPorts /\ socket = "none" /\ message_id \in FirstIds
      /\ coap_token = FirstToken(message_id)
  BY DEF CoapWireInit
<1>2. message_id \in 1 .. MaxWord
  <2>1. FirstIds \subseteq 1 .. MaxWord
    BY CoapWireAssumption
  <2> QED
    BY <1>1, <2>1
<1>3. coap_token \in Nat
  <2>1. MaxWord \in Nat
    BY SMTT(30) DEF MaxWord
  <2>2. message_id \in Nat \ {0}
    BY <1>2, <2>1
  <2>3. \A id \in Nat \ {0} : FirstToken(id) \in Nat
    BY SMTT(30) DEF FirstToken
  <2> QED
    BY <1>1, <2>2, <2>3
<1>4. requested \in Seq({}) /\ sendlist \in Seq(SentNode) /\ sendlist = <<>> /\ handled = {}
  BY DEF CoapWireInit
<1> QED
  BY <1>1, <1>2, <1>3, <1>4 DEF CoapNodes

(* A list without one of its nodes.                                        *)
LEMMA NodesWithout ==
  ASSUME CoapNodes, NEW k \in DOMAIN sendlist, sendlist' = Without(sendlist, k),
         requested' = requested
  PROVE  /\ sendlist' \in Seq(SentNode)
         /\ \A j \in DOMAIN sendlist' : sendlist'[j].n \in DOMAIN requested'
<1> DEFINE m == Len(sendlist) - 1
           from(j) == IF j < k THEN j ELSE j + 1
<1>1. /\ sendlist \in Seq(SentNode) /\ DOMAIN sendlist = 1 .. Len(sendlist)
      /\ Len(sendlist) \in Nat /\ k \in 1 .. Len(sendlist) /\ m \in Nat
  BY LenProperties DEF CoapNodes
<1>2. \A j \in 1 .. m : from(j) \in 1 .. Len(sendlist)
  BY <1>1
<1>3. sendlist' = [j \in 1 .. m |-> sendlist[from(j)]]
  BY DEF Without
<1> HIDE DEF m, from
<1>4. sendlist' \in [1 .. m -> SentNode]
  BY <1>1, <1>2, <1>3
<1>5. sendlist' \in Seq(SentNode)
  BY <1>1, <1>4, FunctionIsSeq
<1>6. \A j \in DOMAIN sendlist' : sendlist'[j] = sendlist[from(j)] /\ from(j) \in DOMAIN sendlist
  BY <1>1, <1>2, <1>3
<1> QED
  BY <1>5, <1>6 DEF CoapNodes

(* The oldest of the nodes.                                                *)
LEMMA OldestNode ==
  ASSUME CoapNodes, NEW T, T \subseteq DOMAIN sendlist, T # {}
  PROVE  First(T) \in T
<1>1. T \subseteq Nat
  BY LenProperties DEF CoapNodes
<1>2. \E m \in T : \A k \in T : m <= k
  BY <1>1, LeastNumber
<1> QED
  BY <1>2 DEF First

(* Every request says whether it observes.                                 *)
LEMMA RequestsObserve ==
  ASSUME NEW r \in CoapRequests
  PROVE  r.observe \in BOOLEAN
<1>1. \/ r = send_device_auth
      \/ \E t : r \in {send_mata_info(t), sub_action_topic(t), sub_data_topic(t),
                       connect_heartbeat(t)}
      \/ \E b, d, t : r = iotx_comm_send(b, d, t)
  BY DEF CoapRequests
<1>2. send_device_auth.observe \in BOOLEAN
  BY DEF send_device_auth
<1>3. ASSUME NEW t
      PROVE  /\ send_mata_info(t).observe \in BOOLEAN /\ sub_action_topic(t).observe \in BOOLEAN
             /\ sub_data_topic(t).observe \in BOOLEAN /\ connect_heartbeat(t).observe \in BOOLEAN
  BY DEF send_mata_info, sub_action_topic, sub_data_topic, connect_heartbeat
<1>4. ASSUME NEW b, NEW d, NEW t PROVE iotx_comm_send(b, d, t).observe \in BOOLEAN
  BY DEF iotx_comm_send
<1> QED
  BY <1>1, <1>2, <1>3, <1>4

(* A message sent is recorded with its node, or nothing is.                *)
LEMMA SendsKeepsNodes ==
  ASSUME CoapNodes, NEW r \in CoapRequests, CoapSends(r)
  PROVE  CoapNodes'
<1>1. /\ UNCHANGED <<udp, socket, answered, handled>>
      /\ message_id' = NextMessageId /\ coap_token' = coap_token + 1
  BY DEF CoapSends
<1>2. message_id' \in 1 .. MaxWord /\ coap_token' \in Nat
  <2>1. message_id \in 1 .. MaxWord /\ coap_token \in Nat
    BY DEF CoapNodes
  <2>2. coap_token' \in Nat
    BY <1>1, <2>1
  <2>3. message_id' = IF message_id = MaxWord THEN message_id ELSE message_id + 1
    BY <1>1 DEF NextMessageId
  <2>4. MaxWord \in Nat
    BY SMTT(30) DEF MaxWord
  <2>5. message_id' \in 1 .. MaxWord
    BY <2>1, <2>3, <2>4
  <2> QED
    BY <2>2, <2>5
<1>3. CASE UNCHANGED <<requested, sendlist>>
  BY <1>1, <1>2, <1>3 DEF CoapNodes
<1>4. ASSUME ~UNCHANGED <<requested, sendlist>> PROVE CoapNodes'
  <2> DEFINE it == [request |-> r, msgid |-> CoAPMessageId_gen, token |-> Token(coap_token),
                    bytes |-> CoAPSerialize_Message(Message(r))]
             n == Len(requested) + 1
  <2>1. requested' = Append(requested, it) /\ sendlist' = Append(sendlist, Node(n))
    BY <1>4 DEF CoapSends
  <2>2. it.request = r
    OBVIOUS
  <2> HIDE DEF it
  <2>3. PICK S : requested \in Seq(S)
    BY DEF CoapNodes
  <2>4. requested \in Seq(S \cup {it}) /\ Len(requested) \in Nat
    BY <2>3, LenProperties
  <2>5. /\ requested' \in Seq(S \cup {it}) /\ Len(requested') = n /\ n \in Nat
        /\ requested'[n] = it
    BY <2>1, <2>4
  <2>6. DOMAIN requested = 1 .. Len(requested) /\ DOMAIN requested' = 1 .. n
    BY <2>4, <2>5, LenProperties
  <2>7. DOMAIN requested \subseteq DOMAIN requested' /\ n \in DOMAIN requested'
    BY <2>4, <2>5, <2>6
  <2> HIDE DEF n
  <2>8. Node(n) \in SentNode
    <3>1. requested'[n].request.observe \in BOOLEAN
      BY <2>2, <2>5, RequestsObserve
    <3>2. CoAPMessageId_gen \in Int
      BY DEF CoAPMessageId_gen, CoapNodes
    <3>3. Token(coap_token) \in Seq(Int)
      BY DEF Token, CoapNodes
    <3> QED
      BY <2>5, <3>1, <3>2, <3>3 DEF Node, SentNode
  <2>9. Node(n).n = n
    BY DEF Node
  <2>10. sendlist \in Seq(SentNode)
    BY DEF CoapNodes
  <2> HIDE DEF Node
  <2>11. /\ sendlist' \in Seq(SentNode)
         /\ \A k \in DOMAIN sendlist' :
              \/ k \in DOMAIN sendlist /\ sendlist'[k] = sendlist[k]
              \/ sendlist'[k] = Node(n)
    BY <2>1, <2>8, <2>10
  <2>12. \A k \in DOMAIN sendlist' : sendlist'[k].n \in DOMAIN requested'
    BY <2>7, <2>9, <2>11 DEF CoapNodes
  <2>13. \A h \in handled' : h.n \in DOMAIN requested'
    BY <1>1, <2>7 DEF CoapNodes
  <2> QED
    BY <1>1, <1>2, <2>5, <2>11, <2>12, <2>13 DEF CoapNodes
<1> QED
  BY <1>3, <1>4

(* An answer reaches a node of the list, which it marks, keeps or removes. *)
LEMMA ReceivesKeepsNodes ==
  ASSUME CoapNodes, NEW a \in answered, CoapReceives(a)
  PROVE  CoapNodes'
<1> DEFINE m == CoAPDeserialize_Message(a.bytes)
<1>1. /\ UNCHANGED <<udp, socket, message_id, coap_token, requested>>
      /\ ReceivesAck(m) \/ ReceivesResponse(m)
  BY DEF CoapReceives
<1> HIDE DEF m
<1>2. CASE ReceivesAck(m)
  <2> DEFINE same == {k \in DOMAIN sendlist : sendlist[k].msgid = m.msgid}
  <2>1. handled' = handled
    BY <1>2 DEF ReceivesAck
  <2>2. CASE same = {}
    BY <1>1, <1>2, <2>1, <2>2 DEF ReceivesAck, CoapNodes
  <2>3. CASE same # {}
    <3>1. sendlist' = [sendlist EXCEPT ![First(same)].acked = TRUE]
      BY <1>2, <2>3 DEF ReceivesAck
    <3>2. First(same) \in same
      BY <2>3, OldestNode
    <3>3. First(same) \in DOMAIN sendlist /\ sendlist \in Seq(SentNode)
      BY <3>2 DEF CoapNodes
    <3>4. PICK f : f = First(same)
      OBVIOUS
    <3>5. sendlist' = [sendlist EXCEPT ![f].acked = TRUE] /\ f \in DOMAIN sendlist
      BY <3>1, <3>3, <3>4
    <3>6. /\ [sendlist[f] EXCEPT !.acked = TRUE] \in SentNode
          /\ [sendlist[f] EXCEPT !.acked = TRUE].n = sendlist[f].n
      <4>1. sendlist[f] \in SentNode
        BY <3>3, <3>5
      <4> QED
        BY <4>1 DEF SentNode
    <3>7. sendlist' = [sendlist EXCEPT ![f] = [sendlist[f] EXCEPT !.acked = TRUE]]
      BY <3>5
    <3>8. sendlist' \in Seq(SentNode)
      BY <3>3, <3>5, <3>6, <3>7, ExceptSeq
    <3>9. \A k \in DOMAIN sendlist' : k \in DOMAIN sendlist /\ sendlist'[k].n = sendlist[k].n
      BY <3>5, <3>6, <3>7
    <3> QED
      BY <1>1, <2>1, <3>8, <3>9 DEF CoapNodes
  <2> QED
    BY <2>2, <2>3
<1>3. CASE ReceivesResponse(m)
  <2> DEFINE same == {k \in DOMAIN sendlist : sendlist[k].token = m.token}
  <2>1. CASE same = {}
    BY <1>1, <1>3, <2>1 DEF ReceivesResponse, CoapNodes
  <2>2. CASE same # {}
    <3>1. PICK f : f = First(same)
      OBVIOUS
    <3>2. f \in DOMAIN sendlist
      BY <2>2, <3>1, OldestNode
    <3>3. /\ handled' = handled \cup {[n |-> sendlist[f].n, code |-> m.code, payload |-> m.payload]}
          /\ sendlist' = IF sendlist[f].observer THEN sendlist ELSE Without(sendlist, f)
      BY <1>3, <2>2, <3>1 DEF ReceivesResponse
    <3>4. \A h \in handled' : h.n \in DOMAIN requested'
      BY <1>1, <3>2, <3>3 DEF CoapNodes
    <3>5. /\ sendlist' \in Seq(SentNode)
          /\ \A k \in DOMAIN sendlist' : sendlist'[k].n \in DOMAIN requested'
      BY <1>1, <3>2, <3>3, NodesWithout DEF CoapNodes
    <3> QED
      BY <1>1, <3>4, <3>5 DEF CoapNodes
  <2> QED
    BY <2>1, <2>2
<1> QED
  BY <1>1, <1>2, <1>3

(* Every step keeps the nodes.                                             *)
LEMMA CoapNodesNext == CoapNodes /\ [CoapWireNext]_coapWireVars => CoapNodes'
<1> SUFFICES ASSUME CoapNodes, [CoapWireNext]_coapWireVars PROVE CoapNodes'
  OBVIOUS
<1>1. CASE CoapConnects
  <2>1. socket' \in {"none", "open", "-1", "closed", "unconnected", "0"}
    BY <1>1, CoapWireAssumption DEF CoapConnects, CoapNodes
  <2> QED
    BY <1>1, <2>1 DEF CoapConnects, CoapNodes
<1>2. ASSUME NEW r \in CoapRequests, CoapSends(r) PROVE CoapNodes'
  BY <1>2, SendsKeepsNodes
<1>3. ASSUME NEW k \in 1 .. CoapSendsMax, CoapGivesUp(k) PROVE CoapNodes'
  BY <1>3, NodesWithout DEF CoapGivesUp, CoapNodes
<1>4. ASSUME NEW n \in DOMAIN requested, NEW a \in CoapAnswers, ServerAnswers(n, a)
      PROVE  CoapNodes'
  BY <1>4 DEF ServerAnswers, CoapNodes
<1>5. ASSUME NEW a \in answered, CoapReceives(a) PROVE CoapNodes'
  BY <1>5, ReceivesKeepsNodes
<1>6. CASE UNCHANGED coapWireVars
  BY <1>6 DEF coapWireVars, CoapNodes
<1> QED
  BY <1>1, <1>2, <1>3, <1>4, <1>5, <1>6 DEF CoapWireNext

-----------------------------------------------------------------------------
(* The parts together: each part's steps are its own, and the others stay. *)
PartsIInv ==
  /\ part \in Parts
  /\ OtaTyped /\ NetIInv /\ ClockIInv /\ TimersIInv
  /\ KeysIInv /\ KeyTimes
  /\ WireIInv /\ TopicsIInv /\ CoapNodes
  /\ CryptoIInv /\ CryptoCounts
  /\ LogIInv /\ Generations

LEMMA PartsInitial == PartsInit => PartsIInv
<1> SUFFICES ASSUME PartsInit PROVE PartsIInv
  OBVIOUS
<1>1. /\ part \in Parts
      /\ OtaInit /\ NetInit /\ ClockInit /\ TimersInit /\ KeysInit
      /\ WireInit /\ TopicsInit /\ CoapWireInit /\ CryptoInit /\ LogInit
  BY DEF PartsInit
<1>2. OtaTyped /\ NetIInv /\ ClockIInv /\ TimersIInv /\ KeysIInv /\ KeyTimes
  BY <1>1, TypedInitial, NetInitial, ClockInitial, TimersInitial, KeysInitial, KeyTimesInit
<1>3. /\ WireIInv /\ TopicsIInv /\ CoapNodes /\ CryptoIInv /\ CryptoCounts
      /\ LogIInv /\ Generations
  BY <1>1, WireIInvInit, TopicsInitial, CoapNodesInit, CryptoInitial, CryptoCountsInit,
     LogInitial, GenerationsInit
<1> QED
  BY <1>1, <1>2, <1>3 DEF PartsIInv

(* A step of the one that runs is a step of every part.                    *)
LEMMA PartsSteps ==
  ASSUME [PartsNext]_partsVars
  PROVE  /\ UNCHANGED part
         /\ [OtaNext]_otaVars /\ [NetNext]_netVars /\ [ClockNext]_clockVars
         /\ [TimersNext]_timerVars /\ [KeysNext]_keyVars /\ [WireNext]_wireVars
         /\ [TopicsNext]_topicVars /\ [CoapWireNext]_coapWireVars
         /\ [CryptoNext]_cryptoVars /\ [LogNext]_logVars
<1>1. CASE UNCHANGED partsVars
  BY <1>1 DEF partsVars
<1>2. CASE PartsNext
  BY <1>2 DEF PartsNext, UnchangedBut
<1> QED
  BY <1>1, <1>2

LEMMA PartsStep == PartsIInv /\ [PartsNext]_partsVars => PartsIInv'
<1> SUFFICES ASSUME PartsIInv, [PartsNext]_partsVars PROVE PartsIInv'
  OBVIOUS
<1>1. /\ UNCHANGED part
      /\ [OtaNext]_otaVars /\ [NetNext]_netVars /\ [ClockNext]_clockVars
      /\ [TimersNext]_timerVars /\ [KeysNext]_keyVars /\ [WireNext]_wireVars
      /\ [TopicsNext]_topicVars /\ [CoapWireNext]_coapWireVars
      /\ [CryptoNext]_cryptoVars /\ [LogNext]_logVars
  BY PartsSteps
<1>2. (part \in Parts)'
  BY <1>1 DEF PartsIInv, Parts
<1>3. OtaTyped' /\ NetIInv' /\ ClockIInv' /\ TimersIInv'
  BY <1>1, TypedStep, NetStep, ClockStep, TimersStep DEF PartsIInv
<1>4. KeysIInv' /\ KeyTimes'
  BY <1>1, KeysStep, KeyTimesNext DEF PartsIInv
<1>5. WireIInv' /\ TopicsIInv' /\ CoapNodes'
  BY <1>1, WireIInvNext, TopicsStep, CoapNodesNext DEF PartsIInv
<1>6. CryptoIInv' /\ CryptoCounts'
  BY <1>1, CryptoStep, CryptoCountsNext DEF PartsIInv
<1>7. LogIInv' /\ Generations'
  BY <1>1, LogStep, GenerationsNext DEF PartsIInv
<1> QED
  BY <1>2, <1>3, <1>4, <1>5, <1>6, <1>7 DEF PartsIInv

(* The variables of every part keep their types, whichever part runs: the  *)
(* lengths, ages, ticks and generations stay within their bounds           *)
(* (httpclient_data_t, keyParams, the timers, the log's cache), and every  *)
(* node of the list of messages sent, and every answer a handler got, is   *)
(* of a request that was written (CoAPMessageList_add,                     *)
(* CoAPRespMessage_handle).                                                *)
THEOREM PartsTypeCorrect == PartsSpec => []PartsTypeOK
<1>1. PartsIInv => PartsTypeOK
  <2> SUFFICES ASSUME PartsIInv PROVE PartsTypeOK
    OBVIOUS
  <2>1. OtaTypeOK
    BY DEF PartsIInv, OtaTyped, OtaTypeOK, AnyHttp, OtaStruct
  <2>2. NetTypeOK /\ ClockTypeOK
    BY DEF PartsIInv, NetIInv, ClockIInv
  <2>3. TimersTypeOK /\ KeysTypeOK /\ LogTypeOK
    BY TimersTyped, KeysTyped, LogTyped DEF PartsIInv
  <2>4. WireTypeOK /\ TopicsTypeOK
    BY WireIInvReads DEF PartsIInv, TopicsIInv
  <2>5. CoapWireTypeOK /\ CryptoTypeOK
    BY DEF PartsIInv, CoapNodes, CoapWireTypeOK, CryptoCounts, CryptoTypeOK
  <2> QED
    BY <2>1, <2>2, <2>3, <2>4, <2>5 DEF PartsTypeOK, PartsIInv
<1> QED
  BY <1>1, PartsInitial, PartsStep, PTL DEF PartsSpec

=============================================================================
