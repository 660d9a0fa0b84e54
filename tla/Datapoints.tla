----------------------------- MODULE Datapoints -----------------------------
(***************************************************************************)
(* The datapoints of a device (sdk/cloud/datapoint): the table of          *)
(* properties, what the application and the platform write to it, and      *)
(* the ways its values are sent to the platform.                           *)
(*                                                                         *)
(* A message carries what intoyunFormDataPointBinary forms of each value;  *)
(* on its way it may be lost, delayed, repeated and overtaken, as it may   *)
(* be over CoAP.  The platform keeps what it last got for each point.      *)
(*                                                                         *)
(* Values are counted in half units of a double's resolution, so that      *)
(* rounding shows; the other kinds just have these values.                 *)
(***************************************************************************)
EXTENDS Integers, FiniteSets

CONSTANTS
    Points,         \* dpIDs the application may define
    Nothing,        \* no value: never sent, never received
    GetAll,         \* DPID_DEFAULT_BOOL_GETALLDATAPOINT, a default point
    Uploaded,       \* points neither DOWN_ONLY nor with a dpID above 0x3F00
    Inputs,         \* values the application writes
    RawInputs,      \* values in the platform's messages
    MinValue,       \* numberProperty.minValue, of every number
    MaxValue,       \* numberProperty.maxValue
    EnumWidth,      \* 256: an enum is sent in one byte
    Lapse,          \* datapoint_transmit_lapse, in ticks
    MaxTransit      \* bound: messages on their way

ASSUME PointsAssumption == GetAll \notin Points /\ Uploaded \subseteq Points
ASSUME ValuesAssumption ==
    /\ Inputs \subseteq Int /\ RawInputs \subseteq Int
    /\ MinValue \in Int /\ MaxValue \in Int /\ MinValue <= MaxValue
    /\ EnumWidth \in Nat \ {0}
ASSUME BoundsAssumption == Lapse \in Nat /\ MaxTransit \in Nat

VARIABLES
    dataType,       \* the program: the kind of each point it defines
    properties,     \* the table, a function from the defined dpIDs
    mode,           \* g_datapoint_control.datapoint_transmit_mode
    elapsed,        \* ticks since g_datapoint_control.runtime, up to Lapse
    transit,        \* messages on their way to the platform
    cloud,          \* what the platform got last, per point
    sent,           \* history: the last formed value that was handed over
    failed,         \* history: points whose value a failed SendAll carried
    unmarked        \* history: points defined without the flag, or written by the
                    \* application with the value they had

control == <<mode, elapsed>>
network == <<transit, cloud>>
history == <<sent, failed, unmarked>>
vars == <<dataType, properties, control, network, history>>

Kinds == {"plain", "int", "double", "enum"}   \* bool, string, binary are plain

-----------------------------------------------------------------------------
(* Values.                                                                 *)

Clamp(v) == IF v < MinValue THEN MinValue ELSE IF v > MaxValue THEN MaxValue ELSE v

\* The conversion from double to int32_t.
Truncate(v) == IF v >= 0 THEN v \div 2 ELSE -((-v) \div 2)

\* What a write compares with the value in the table ...
Compared(kind, v) == IF kind = "double" THEN Clamp(v) ELSE v

\* ... and what it stores when they differ.
Stored(kind, v) ==
    CASE kind = "int" -> Clamp(v)
      [] kind = "double" -> 2 * Truncate(Clamp(v))
      [] OTHER -> v

\* intoyunFormDataPointBinary; only a double is sent relative to its minimum.
Formed(kind, v) ==
    CASE kind = "double" -> Truncate(v - MinValue)
      [] kind = "enum" -> v % EnumWidth
      [] OTHER -> v

\* IOT_DataPoint_ParseReceiveDatapoints; both numbers are relative to it.
Parsed(kind, raw) ==
    CASE kind = "int" -> raw + MinValue
      [] kind = "double" -> 2 * raw + MinValue
      [] OTHER -> raw

-----------------------------------------------------------------------------
(* The table.                                                              *)

Defined == DOMAIN properties

\* setDatapointValueInit leaves the change flag as malloc found it.
New(v, c) == [value |-> v, change |-> c, readFlag |-> "OLD"]

Kind(dp) == IF dp = GetAll THEN "plain" ELSE dataType[dp]

\* The number definitions compute a value within the limits, and do not use it.
Default(kind, v) == IF kind = "enum" /\ v < 0 THEN 0 ELSE v

Define(table, dp, p) ==
    [q \in DOMAIN table \cup {dp} |-> IF q = dp THEN p ELSE table[q]]

\* The writeDatapoint functions.
Written(p, kind, v, type) ==
    LET differs == p.value # Compared(kind, v)
    IN  [p EXCEPT !.value = IF differs THEN Stored(kind, v) ELSE @,
                  !.change = differs \/ type = "platform",
                  !.readFlag = IF type = "user" THEN "OLD" ELSE "NEW"]

\* The table after the writes of vs, a function from some defined points.
WriteAll(vs, type) ==
    [dp \in Defined |-> IF dp \in DOMAIN vs THEN Written(properties[dp], Kind(dp), vs[dp], type)
                        ELSE properties[dp]]

\* The points written with a new value have it neither sent nor marked yet.
Noted(table, dps, type) ==
    LET kept == {dp \in dps : table[dp].value = properties[dp].value}
    IN  /\ failed' = failed \ (dps \ kept)
        /\ unmarked' = (unmarked \ dps) \cup IF type = "user" THEN kept ELSE {}

-----------------------------------------------------------------------------
(* Messages.                                                               *)

Message(table, dps) == [dp \in dps |-> Formed(Kind(dp), table[dp].value)]

\* IOT_Comm_SendData fails, or hands the message to the network.
Transmit(m, handed) ==
    /\ handed => Cardinality(transit \cup {m}) <= MaxTransit
    /\ transit' = IF handed THEN transit \cup {m} ELSE transit
    /\ sent' = [dp \in Points |-> IF handed /\ dp \in DOMAIN m THEN m[dp] ELSE sent[dp]]
    /\ UNCHANGED cloud

isPropertyChanged == \E dp \in Defined : properties[dp].change

\* Mutant of FormAll: type 0, only the changed points are formed.
FormAllChanged(table) ==
    Message(table, {dp \in DOMAIN table \cap Uploaded : table[dp].change})

\* intoyunFormAllDatapoint with type 1.
FormAll(table) == Message(table, DOMAIN table \cap Uploaded)

clearPropertyChangeFlag(table) ==
    [dp \in DOMAIN table |-> [table[dp] EXCEPT !.change = FALSE]]

\* IOT_DataPoint_SendAll: the flags are cleared whether it is sent or not.
SendAll(table, handed) ==
    /\ properties' = clearPropertyChangeFlag(table)
    /\ LET m == FormAll(table)
       IN  /\ Transmit(m, handed)
           /\ failed' = IF handed THEN failed \ DOMAIN m ELSE failed \cup DOMAIN m
           /\ unmarked' = IF handed THEN unmarked \ DOMAIN m ELSE unmarked

-----------------------------------------------------------------------------
\* IOT_Comm_Init defines the default points.
Booted(c) == [dp \in {GetAll} |-> New(0, c)]

Init ==
    /\ dataType \in [Points -> Kinds]
    /\ \E c \in BOOLEAN : properties = Booted(c)
    /\ mode = "AUTOMATIC"
    /\ elapsed = 0
    /\ transit = {}
    /\ cloud = [dp \in Points |-> Nothing]
    /\ sent = [dp \in Points |-> Nothing]
    /\ failed = {}
    /\ unmarked = {}

(* The application.                                                        *)

IOT_DataPoint_Define ==
    /\ \E dp \in Points \ Defined, v \in Inputs, c \in BOOLEAN :
          /\ properties' = Define(properties, dp, New(Default(Kind(dp), v), c))
          /\ unmarked' = IF c THEN unmarked ELSE unmarked \cup {dp}
    /\ UNCHANGED <<dataType, control, network, sent, failed>>

IOT_DataPoint_Control ==
    /\ mode' \in {"MANUAL", "AUTOMATIC"}
    /\ UNCHANGED <<dataType, properties, elapsed, network, history>>

IOT_DataPoint_Read ==
    /\ \E dp \in Points \cap Defined : properties' = [properties EXCEPT ![dp].readFlag = "OLD"]
    /\ UNCHANGED <<dataType, control, network, history>>

IOT_DataPoint_Write ==
    /\ \E dp \in Points \cap Defined, v \in Inputs :
          LET table == WriteAll([q \in {dp} |-> v], "user")
          IN  properties' = table /\ Noted(table, {dp}, "user")
    /\ UNCHANGED <<dataType, control, network, sent>>

\* The IOT_DataPoint_Send functions in manual mode; otherwise they only write.
\* The change flag stays: the point has been sent and is still marked.
IOT_DataPoint_Send ==
    /\ mode = "MANUAL"
    /\ \E dp \in Defined \cap Uploaded, v \in Inputs, handed \in BOOLEAN :
          LET table == WriteAll([q \in {dp} |-> v], "user")
          IN  /\ properties' = table
              /\ Transmit(Message(table, {dp}), handed)
              /\ IF handed
                 THEN failed' = failed \ {dp} /\ unmarked' = unmarked \ {dp}
                 ELSE Noted(table, {dp}, "user")
    /\ UNCHANGED <<dataType, control>>

IOT_DataPoint_SendAllDatapointManual ==
    /\ mode = "MANUAL"
    /\ \E handed \in BOOLEAN : SendAll(clearPropertyChangeFlag(properties), handed)
    /\ UNCHANGED <<dataType, control>>

-----------------------------------------------------------------------------
(* The loop, when the interface is connected.                              *)

\* Mutant of Due: only a change makes the points due.
DueWhenChanged == isPropertyChanged

Due == isPropertyChanged \/ elapsed = Lapse

SendDatapointAutomatic(handed) ==
    /\ mode = "AUTOMATIC"
    /\ Due
    /\ elapsed' = 0
    /\ SendAll(clearPropertyChangeFlag(properties), handed)
    /\ UNCHANGED <<dataType, mode>>

IOT_DataPoint_SendDatapointAutomatic ==
    \E handed \in BOOLEAN : SendDatapointAutomatic(handed)

\* The raw values of one message, of the points that are defined; the others it
\* names are skipped, but see UndefinedNumberRead.
RawMessages == UNION {[dps -> RawInputs] : dps \in SUBSET Defined}

Received(raw) ==
    WriteAll([dp \in DOMAIN raw |-> Parsed(Kind(dp), raw[dp])], "platform")

\* A message that asks for all points is answered at once.
IOT_DataPoint_ParseReceiveDatapoints ==
    /\ \E raw \in RawMessages :
          LET table == Received(raw)
          IN  IF GetAll \in DOMAIN raw
              THEN \E handed \in BOOLEAN :
                      SendAll([table EXCEPT ![GetAll].readFlag = "OLD"], handed)
              ELSE /\ properties' = table
                   /\ Noted(table, DOMAIN raw, "platform")
                   /\ UNCHANGED <<network, sent>>
    /\ UNCHANGED <<dataType, control>>

\* A message that resets the device, HAL_SystemReboot: the platform keeps what
\* it got.
Reset ==
    /\ \E c \in BOOLEAN : properties' = Booted(c)
    /\ mode' = "AUTOMATIC"
    /\ elapsed' = 0
    /\ sent' = [dp \in Points |-> Nothing]
    /\ failed' = {} /\ unmarked' = {}
    /\ UNCHANGED <<dataType, network>>

\* A message with a number that is not defined: properties[(uint8_t)-1] is read
\* before the index is checked.  Where the read is survived nothing is written
\* and the point is skipped; where it is not, the device starts again.
UndefinedNumberRead ==
    /\ \E dp \in Points \ Defined : Kind(dp) \in {"int", "double"}
    /\ Reset

-----------------------------------------------------------------------------
(* The network and the clock.                                              *)

CloudGets(m) == cloud' = [dp \in Points |-> IF dp \in DOMAIN m THEN m[dp] ELSE cloud[dp]]

Deliver(m) ==
    /\ m \in transit
    /\ transit' = transit \ {m}
    /\ CloudGets(m)
    /\ UNCHANGED <<dataType, properties, control, history>>

\* It is delivered and sent again.
Repeat ==
    /\ \E m \in transit : CloudGets(m)
    /\ UNCHANGED <<dataType, properties, control, transit, history>>

Lose ==
    /\ \E m \in transit : transit' = transit \ {m}
    /\ UNCHANGED <<dataType, properties, control, cloud, history>>

Tick ==
    /\ elapsed < Lapse
    /\ elapsed' = elapsed + 1
    /\ UNCHANGED <<dataType, properties, mode, network, history>>

Application ==
    \/ IOT_DataPoint_Define \/ IOT_DataPoint_Control \/ IOT_DataPoint_Read
    \/ IOT_DataPoint_Write \/ IOT_DataPoint_Send
    \/ IOT_DataPoint_SendAllDatapointManual

Next ==
    \/ Application
    \/ IOT_DataPoint_SendDatapointAutomatic
    \/ IOT_DataPoint_ParseReceiveDatapoints \/ Reset \/ UndefinedNumberRead
    \/ (\E m \in transit : Deliver(m)) \/ Repeat \/ Lose
    \/ Tick

Spec == Init /\ [][Next]_vars

\* The values there can be in the table, and in messages.
StoredValues ==
    Inputs \cup {Stored(kind, v) : kind \in Kinds, v \in Inputs}
           \cup {Stored(kind, Parsed(kind, raw)) : kind \in Kinds, raw \in RawInputs}
FormedValues == {Formed(kind, v) : kind \in Kinds, v \in StoredValues}
Messages == UNION {[dps -> FormedValues] : dps \in SUBSET Uploaded}

\* The application calls the loop; of the transmissions repeated for ever some
\* are handed over, and some of what is handed over for ever is delivered.
Fairness ==
    /\ SF_vars(SendDatapointAutomatic(TRUE))
    /\ WF_vars(Tick)
    /\ \A m \in Messages : SF_vars(Deliver(m))

FairSpec == Spec /\ Fairness

-----------------------------------------------------------------------------
\* The values a number can have: as it was defined, or within its limits; a
\* double is a multiple of its resolution.
Numbers(kind) ==
    Inputs \cup {v \in MinValue .. MaxValue : kind = "double" => v % 2 = 0}

\* The types of all variables, with the limits and the resolution of numbers.
TypeOK ==
    /\ dataType \in [Points -> Kinds]
    /\ Defined \subseteq Points \cup {GetAll} /\ GetAll \in Defined
    /\ \A dp \in Defined :
          /\ IF Kind(dp) \in {"int", "double"}
             THEN properties[dp].value \in Numbers(Kind(dp))
             ELSE properties[dp].value \in StoredValues \cup {0}
          /\ properties[dp].change \in BOOLEAN
          /\ properties[dp].readFlag \in {"OLD", "NEW"}
    /\ mode \in {"MANUAL", "AUTOMATIC"}
    /\ elapsed \in 0 .. Lapse
    /\ transit \subseteq Messages /\ Cardinality(transit) <= MaxTransit
    /\ cloud \in [Points -> FormedValues \cup {Nothing}]
    /\ sent \in [Points -> FormedValues \cup {Nothing}]
    /\ failed \subseteq Points /\ unmarked \subseteq Points

\* The change flag is what makes the loop send before the lapse.  A point whose
\* value is not the one last handed to the network is flagged, whatever modes,
\* reads, writes and requests for all points come in between.  The code's three
\* exceptions are a value that a SendAll carried whose transmission then failed
\* (it has cleared the flags before), a point defined without the flag, and a
\* value the application wrote a second time, until the point gets a new value
\* or is handed over (IOT_DataPoint_SendAll, the writeDatapoint functions).
ChangeIsFlagged ==
    \A dp \in Defined \cap Uploaded :
        Formed(Kind(dp), properties[dp].value) # sent[dp] =>
            properties[dp].change \/ dp \in failed \/ dp \in unmarked

\* In automatic mode the platform ends up with the value of a point that is no
\* longer written, for good: although a failed transmission has cleared its
\* flag, and older messages may be delivered after newer ones.
CloudCatchesUp ==
    \A dp \in Uploaded, v \in StoredValues :
        <>[](mode = "AUTOMATIC" /\ dp \in Defined /\ properties[dp].value = v)
            => <>[](cloud[dp] = Formed(Kind(dp), v))

=============================================================================
