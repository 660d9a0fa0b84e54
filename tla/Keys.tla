-------------------------------- MODULE Keys --------------------------------
(***************************************************************************)
(* The keys (iotx_key_api.c): one state machine, one start time and one    *)
(* recorded key number serve all keys.  Times are the milliseconds since   *)
(* the recorded ones, up to a bound above every limit they are compared    *)
(* with.                                                                   *)
(***************************************************************************)
EXTENDS Integers, Sequences

CONSTANTS KeyWants,      \* the callbacks the application registers, by key
          DebounceTime, ClickTime, PressTime,
          KeyMaxAge,     \* bound: times are counted up to here
          KeySteps       \* milliseconds between two loops

ASSUME KeyAssumption ==
  /\ KeyMaxAge \in Nat /\ {DebounceTime, ClickTime, PressTime} \subseteq 0 .. KeyMaxAge - 1
  /\ KeySteps \subseteq Nat
  /\ \A num \in DOMAIN KeyWants :
       KeyWants[num] \subseteq {"click", "double", "start", "stop", "during"}

VARIABLES keys,          \* the list: key numbers in the order of registration
          cbs,           \* their callbacks, by kind
          state,         \* keyParams._state
          keyNumRecord,
          start_age,     \* now - keyParams._startTime
          stop_age,      \* now - keyParams._stopTime
          held,          \* history: keys told of a press start and not of its stop
          mixed          \* history: the gesture is not one key's alone

keyVars == <<keys, cbs, state, keyNumRecord, start_age, stop_age, held, mixed>>

KeyNums == DOMAIN KeyWants
Registered == {keys[i] : i \in 1 .. Len(keys)}
Aged(age, ms) == IF age + ms < KeyMaxAge THEN age + ms ELSE KeyMaxAge

-----------------------------------------------------------------------------
(* A number that is there is ignored.                                      *)
IOT_KEY_Register(num) ==
  /\ num \notin Registered
  /\ keys' = Append(keys, num)
  /\ UNCHANGED <<cbs, state, keyNumRecord, start_age, stop_age, held, mixed>>

(* IOT_KEY_ClickCb and the four others.                                    *)
KeyListRegisterCbFunc(cbType, num) ==
  /\ num \in Registered /\ cbType \in KeyWants[num] \ cbs[num]
  /\ cbs' = [cbs EXCEPT ![num] = @ \cup {cbType}]
  /\ UNCHANGED <<keys, state, keyNumRecord, start_age, stop_age, held, mixed>>

(* The machine starts anew, also in the middle of a press, and with times  *)
(* of its own, which are the same here.                                    *)
IOT_KEY_SetParams ==
  /\ keys # <<>>
  /\ state' = 0
  /\ start_age' = KeyMaxAge /\ stop_age' = KeyMaxAge
  /\ mixed' = (mixed \/ state # 0)
  /\ UNCHANGED <<keys, cbs, keyNumRecord, held>>

-----------------------------------------------------------------------------
(* KeyListExeCbFunc: what runs when a kind is called for a key.  There is  *)
(* no break after the double click.                                        *)
Runs(cbType, num) ==
  cbs[num] \cap (IF cbType = "double" THEN {"double", "start"} ELSE {cbType})

(* The keys told of a press that goes on, after the call of `types`; only  *)
(* a key that has a stop callback by then can expect one.                  *)
Told(types, num) ==
  LET run == UNION {Runs(t, num) : t \in types}
  IN  IF "start" \in run /\ "stop" \in cbs[num] THEN held \cup {num}
      ELSE IF "stop" \in run THEN held \ {num} ELSE held

(* Mutant: with no key pressed the first of the list is taken.             *)
RecordedFirst(pressed) ==
  keys[IF pressed = {} THEN 1
       ELSE CHOOSE i \in 1 .. Len(keys) :
              keys[i] \in pressed /\ \A j \in 1 .. i - 1 : keys[j] \notin pressed]

(* KeyListGetValue: the first pressed key of the list is recorded.         *)
Recorded(pressed) ==
  IF pressed = {} THEN keyNumRecord
  ELSE keys[CHOOSE i \in 1 .. Len(keys) :
              keys[i] \in pressed /\ \A j \in 1 .. i - 1 : keys[j] \notin pressed]

(* One branch of the machine: its state, its start and stop times, and the *)
(* callbacks it runs for the recorded key.                                 *)
Step(next, started, stopped, types, num, ms) ==
  /\ state' = next
  /\ start_age' = IF started THEN 0 ELSE Aged(start_age, ms)
  /\ stop_age' = IF stopped THEN 0 ELSE Aged(stop_age, ms)
  /\ held' = Told(types, num)

(* IOT_KEY_Loop, `ms` after the last one, with the keys in `pressed` down. *)
IOT_KEY_Loop(pressed, ms) ==
  LET num == Recorded(pressed)
      down == pressed # {}
      age == Aged(start_age, ms)
      since_stop == Aged(stop_age, ms)
      Stay == Step(state, FALSE, FALSE, {}, num, ms)
  IN  /\ keys # <<>> /\ pressed \subseteq Registered
      /\ keyNumRecord' = num
      /\ mixed' = (mixed \/ (down /\ pressed # {num})
                   \/ (down /\ state # 0 /\ num # keyNumRecord))
      /\ CASE state = 0 ->
                IF down THEN Step(1, TRUE, FALSE, {}, num, ms) ELSE Stay
           [] state = 1 ->
                IF ~down /\ age < DebounceTime THEN Step(0, FALSE, FALSE, {}, num, ms)
                ELSE IF ~down THEN Step(2, FALSE, TRUE, {}, num, ms)
                ELSE IF age > PressTime
                  THEN Step(6, FALSE, FALSE, {"start", "during"}, num, ms)
                ELSE Stay
           [] state = 2 ->
                IF "double" \notin cbs[num] \/ age > ClickTime
                  THEN Step(0, FALSE, FALSE, {"click"}, num, ms)
                ELSE IF down /\ since_stop > DebounceTime
                  THEN Step(3, TRUE, FALSE, {}, num, ms)
                ELSE Stay
           [] state = 3 ->
                IF ~down /\ age > DebounceTime
                  THEN Step(0, FALSE, FALSE, {"double"}, num, ms) ELSE Stay
           [] state = 6 ->
                IF ~down THEN Step(0, FALSE, FALSE, {"stop"}, num, ms)
                ELSE Step(6, FALSE, FALSE, {"during"}, num, ms)
      /\ UNCHANGED <<keys, cbs>>

KeysInit ==
  /\ keys = <<>> /\ cbs = [k \in KeyNums |-> {}]
  /\ state = 0 /\ keyNumRecord = 0
  /\ start_age = KeyMaxAge /\ stop_age = KeyMaxAge
  /\ held = {} /\ mixed = FALSE

KeysNext ==
  \/ \E num \in KeyNums :
       \/ IOT_KEY_Register(num)
       \/ \E t \in KeyWants[num] : KeyListRegisterCbFunc(t, num)
  \/ IOT_KEY_SetParams
  \/ \E pressed \in SUBSET KeyNums, ms \in KeySteps : IOT_KEY_Loop(pressed, ms)

KeysSpec == KeysInit /\ [][KeysNext]_keyVars

-----------------------------------------------------------------------------
KeysTypeOK ==
  /\ Registered \subseteq KeyNums
  /\ cbs \in [KeyNums -> SUBSET {"click", "double", "start", "stop", "during"}]
  /\ state \in {0, 1, 2, 3, 6}
  /\ keyNumRecord \in KeyNums \cup {0}
  /\ start_age \in 0 .. KeyMaxAge /\ stop_age \in 0 .. KeyMaxAge
  /\ held \subseteq KeyNums /\ mixed \in BOOLEAN

(* A key that has a stop callback and is told that a press starts is told  *)
(* that it stops before the machine waits for the next press, as long as   *)
(* no two keys' presses overlap and the key has no double click (which     *)
(* runs the start callback too).                                           *)
LongPressEnds ==
  state = 0 /\ ~mixed =>
    \A num \in held : "double" \in cbs[num]

=============================================================================
