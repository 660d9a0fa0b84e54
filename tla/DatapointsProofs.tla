--------------------------- MODULE DatapointsProofs ---------------------------
(***************************************************************************)
(* When a changed datapoint is flagged, and when the code loses the flag:   *)
(* ChangeIsFlagged for any points, values, limits and lapse, and however   *)
(* much the network loses, delays or repeats.  The proof needs the shape   *)
(* of the table only, which TableType states; nothing of the values but    *)
(* that they are integers.                                                 *)
(***************************************************************************)
EXTENDS Datapoints, TLAPS

Property == [value : Int, change : BOOLEAN, readFlag : {"OLD", "NEW"}]

\* The table is a function from some points and the default point.
TableType ==
    /\ properties \in [Defined -> Property]
    /\ Defined \subseteq Points \cup {GetAll}
    /\ GetAll \in Defined

\* The flag of one point, as a relation between its entry and the history.
Flagged(dp) ==
    Formed(Kind(dp), properties[dp].value) # sent[dp] =>
        properties[dp].change \/ dp \in failed \/ dp \in unmarked

-----------------------------------------------------------------------------
(* The operators of the table.                                             *)

\* A write stores an integer when it is given one.
LEMMA StoredInt ==
    ASSUME NEW kind, NEW v \in Int
    PROVE  Stored(kind, v) \in Int
<1>1. Clamp(v) \in Int
  BY ValuesAssumption DEF Clamp
<1>2. \A w \in Int : Truncate(w) \in Int
  BY DEF Truncate
<1>. QED
  BY <1>1, <1>2 DEF Stored

\* What the platform sends is read as an integer.
LEMMA ParsedInt ==
    ASSUME NEW kind, NEW raw \in RawInputs
    PROVE  Parsed(kind, raw) \in Int
BY ValuesAssumption DEF Parsed

\* A write makes a property of a property.
LEMMA WrittenType ==
    ASSUME NEW p \in Property, NEW kind, NEW v \in Int, NEW type
    PROVE  Written(p, kind, v, type) \in Property
BY StoredInt DEF Written, Property

\* The flag is set when the value changes, and by the platform always.
LEMMA WrittenFlag ==
    ASSUME NEW p \in Property, NEW kind, NEW v \in Int, NEW type \in {"user", "platform"}
    PROVE  \/ Written(p, kind, v, type).change
           \/ type = "user" /\ Written(p, kind, v, type).value = p.value
BY DEF Written, Property

\* The table after writes has the shape it had, and what it does not write it
\* keeps.
LEMMA WriteAllType ==
    ASSUME TableType, NEW vs, \A dp \in DOMAIN vs : vs[dp] \in Int, NEW type
    PROVE  /\ WriteAll(vs, type) \in [Defined -> Property]
           /\ \A dp \in Defined \ DOMAIN vs : WriteAll(vs, type)[dp] = properties[dp]
BY WrittenType DEF WriteAll, TableType

\* Clearing the flags keeps the shape and the values.
LEMMA ClearType ==
    ASSUME NEW D, NEW table \in [D -> Property]
    PROVE  /\ clearPropertyChangeFlag(table) \in [D -> Property]
           /\ \A dp \in D : clearPropertyChangeFlag(table)[dp].value = table[dp].value
BY DEF clearPropertyChangeFlag, Property

-----------------------------------------------------------------------------
(* The steps.                                                              *)

\* A step that leaves the values and the flags of the table as they are.
LEMMA Unwritten ==
    ASSUME ChangeIsFlagged, NEW table, DOMAIN table = Defined,
           \A dp \in Defined : /\ table[dp].value = properties[dp].value
                               /\ table[dp].change = properties[dp].change,
           properties' = table, UNCHANGED <<dataType, history>>
    PROVE  ChangeIsFlagged'
BY DEF ChangeIsFlagged, Defined, Kind, history

\* A step that writes some points and notes which of them got no new value.
LEMMA WrittenAndNoted ==
    ASSUME TableType, ChangeIsFlagged,
           NEW vs, DOMAIN vs \subseteq Defined, \A dp \in DOMAIN vs : vs[dp] \in Int,
           NEW type \in {"user", "platform"},
           properties' = WriteAll(vs, type), Noted(WriteAll(vs, type), DOMAIN vs, type),
           UNCHANGED dataType, \A q \in Points : sent'[q] = sent[q]
    PROVE  ChangeIsFlagged'
<1>1. /\ WriteAll(vs, type) \in [Defined -> Property]
      /\ \A dp \in Defined \ DOMAIN vs : WriteAll(vs, type)[dp] = properties[dp]
  BY WriteAllType
<1>2. Defined' = Defined
  BY <1>1 DEF Defined
<1>3. ASSUME NEW dp \in Defined \cap Uploaded PROVE Flagged(dp)'
  <2>1. CASE dp \in DOMAIN vs
    <3>1. properties'[dp] = Written(properties[dp], Kind(dp), vs[dp], type)
      BY <2>1 DEF WriteAll
    <3>2. \/ properties'[dp].change
          \/ type = "user" /\ properties'[dp].value = properties[dp].value
      BY <2>1, <3>1, WrittenFlag DEF TableType
    <3>3. type = "user" /\ properties'[dp].value = properties[dp].value => dp \in unmarked'
      BY <2>1 DEF Noted
    <3>. QED
      BY <3>2, <3>3 DEF Flagged
  <2>2. CASE dp \notin DOMAIN vs
    <3>1. properties'[dp] = properties[dp]
      BY <1>1, <2>2
    <3>2. (dp \in failed => dp \in failed') /\ (dp \in unmarked => dp \in unmarked')
      BY <2>2 DEF Noted
    <3>3. sent'[dp] = sent[dp]
      BY PointsAssumption
    <3>. QED
      BY <3>1, <3>2, <3>3 DEF ChangeIsFlagged, Flagged, Kind
  <2>. QED
    BY <2>1, <2>2
<1>. QED
  BY <1>2, <1>3 DEF ChangeIsFlagged, Flagged

\* A step that sends all points: the value of each was handed over, or its
\* transmission failed.
LEMMA AllSent ==
    ASSUME NEW D, D \subseteq Points \cup {GetAll}, NEW table \in [D -> Property],
           NEW handed \in BOOLEAN, SendAll(table, handed), UNCHANGED dataType
    PROVE  ChangeIsFlagged' /\ properties' \in [D -> Property]
<1>1. properties' \in [D -> Property] /\ \A dp \in D : properties'[dp].value = table[dp].value
  BY ClearType DEF SendAll
<1>2. ASSUME NEW dp \in D \cap Uploaded
      PROVE  sent'[dp] = Formed(Kind(dp), table[dp].value) \/ dp \in failed'
  <2>1. dp \in Points /\ dp \in DOMAIN FormAll(table)
    BY PointsAssumption DEF FormAll, Message
  <2>2. CASE handed
    <3>1. sent'[dp] = FormAll(table)[dp]
      BY <2>1, <2>2 DEF SendAll, Transmit
    <3>. QED
      BY <3>1 DEF FormAll, Message
  <2>3. CASE ~handed
    BY <2>1, <2>3 DEF SendAll
  <2>. QED
    BY <2>2, <2>3
<1>. QED
  BY <1>1, <1>2 DEF ChangeIsFlagged, Defined, Kind

\* A step that writes one point and hands it over, in manual mode.
LEMMA OneSent ==
    ASSUME TableType, ChangeIsFlagged,
           NEW dp \in Defined \cap Uploaded, NEW v \in Int,
           properties' = WriteAll([q \in {dp} |-> v], "user"),
           Transmit(Message(WriteAll([q \in {dp} |-> v], "user"), {dp}), TRUE),
           failed' = failed \ {dp}, unmarked' = unmarked \ {dp}, UNCHANGED dataType
    PROVE  ChangeIsFlagged'
<1>. DEFINE table == WriteAll([q \in {dp} |-> v], "user")
<1>1. /\ table \in [Defined -> Property]
      /\ \A q \in Defined \ {dp} : table[q] = properties[q]
  BY WriteAllType
<1>2. Defined' = Defined
  BY <1>1 DEF Defined
<1>3. DOMAIN Message(table, {dp}) = {dp}
  BY DEF Message
<1>4. Flagged(dp)'
  <2>1. dp \in Points
    BY PointsAssumption
  <2>2. sent'[dp] = Formed(Kind(dp), table[dp].value)
    BY <2>1, <1>3 DEF Transmit, Message
  <2>. QED
    BY <2>2 DEF Flagged, Kind
<1>5. ASSUME NEW q \in Defined \cap Uploaded, q # dp PROVE Flagged(q)'
  <2>1. q \in Points
    BY PointsAssumption
  <2>2. sent'[q] = sent[q]
    BY <2>1, <1>3, <1>5 DEF Transmit
  <2>3. properties'[q] = properties[q]
    BY <1>1, <1>5
  <2>. QED
    BY <2>2, <2>3, <1>5 DEF ChangeIsFlagged, Flagged, Kind
<1>. QED
  BY <1>2, <1>4, <1>5 DEF ChangeIsFlagged, Flagged

-----------------------------------------------------------------------------
(* The invariant.                                                          *)

\* The table keeps its shape: a function from dpIDs to properties, with the
\* default point that IOT_Comm_Init defines.
THEOREM TableTypeInit == Init => TableType
BY DEF Init, Booted, New, TableType, Defined, Property

\* Every step keeps the shape of the table.
THEOREM TableTypeStep == TableType /\ [Next]_vars => TableType'
<1>. SUFFICES ASSUME TableType, [Next]_vars PROVE TableType'
  OBVIOUS
<1>. USE DEF TableType
<1>1. CASE IOT_DataPoint_Define
  BY <1>1, ValuesAssumption
     DEF IOT_DataPoint_Define, Define, New, Default, Defined, Property
<1>2. CASE IOT_DataPoint_Control
  BY <1>2 DEF IOT_DataPoint_Control, Defined
<1>3. CASE IOT_DataPoint_Read
  BY <1>3 DEF IOT_DataPoint_Read, Defined, Property
<1>4. CASE IOT_DataPoint_Write
  <2>1. PICK dp \in Points \cap Defined, v \in Inputs :
           properties' = WriteAll([q \in {dp} |-> v], "user")
    BY <1>4 DEF IOT_DataPoint_Write
  <2>2. properties' \in [Defined -> Property]
    BY <2>1, WriteAllType, ValuesAssumption
  <2>. QED
    BY <2>2 DEF Defined
<1>5. CASE IOT_DataPoint_Send
  <2>1. PICK dp \in Defined \cap Uploaded, v \in Inputs :
           properties' = WriteAll([q \in {dp} |-> v], "user")
    BY <1>5 DEF IOT_DataPoint_Send
  <2>2. properties' \in [Defined -> Property]
    BY <2>1, WriteAllType, ValuesAssumption
  <2>. QED
    BY <2>2 DEF Defined
<1>6. CASE IOT_DataPoint_SendAllDatapointManual \/ IOT_DataPoint_SendDatapointAutomatic
  <2>1. PICK handed \in BOOLEAN : SendAll(clearPropertyChangeFlag(properties), handed)
    BY <1>6 DEF IOT_DataPoint_SendAllDatapointManual,
                IOT_DataPoint_SendDatapointAutomatic, SendDatapointAutomatic
  <2>2. properties' \in [Defined -> Property]
    BY <2>1, ClearType DEF SendAll
  <2>. QED
    BY <2>2 DEF Defined
<1>7. CASE IOT_DataPoint_ParseReceiveDatapoints
  <2>1. PICK raw \in RawMessages :
           \/ properties' = Received(raw)
           \/ properties' = clearPropertyChangeFlag([Received(raw) EXCEPT ![GetAll].readFlag = "OLD"])
    BY <1>7 DEF IOT_DataPoint_ParseReceiveDatapoints, SendAll
  <2>2. \A dp \in DOMAIN raw : raw[dp] \in RawInputs
    BY DEF RawMessages
  <2>3. Received(raw) \in [Defined -> Property]
    BY <2>2, WriteAllType, ParsedInt DEF Received
  <2>4. [Received(raw) EXCEPT ![GetAll].readFlag = "OLD"] \in [Defined -> Property]
    BY <2>3 DEF Property
  <2>5. clearPropertyChangeFlag([Received(raw) EXCEPT ![GetAll].readFlag = "OLD"])
           \in [Defined -> Property]
    BY <2>4, ClearType
  <2>6. properties' \in [Defined -> Property]
    BY <2>1, <2>3, <2>5
  <2>. QED
    BY <2>6 DEF Defined
<1>8. CASE Reset \/ UndefinedNumberRead
  BY <1>8 DEF UndefinedNumberRead, Reset, Booted, New, Defined, Property
<1>9. CASE UNCHANGED properties
  BY <1>9 DEF Defined
<1>10. CASE (\E m \in transit : Deliver(m)) \/ Repeat \/ Lose \/ Tick \/ UNCHANGED vars
  BY <1>9, <1>10 DEF Deliver, Repeat, Lose, Tick, vars
<1>. QED
  BY <1>1, <1>2, <1>3, <1>4, <1>5, <1>6, <1>7, <1>8, <1>10 DEF Next, Application

\* Nothing is defined that is uploaded when the device starts.
THEOREM FlaggedInit == Init => ChangeIsFlagged
BY PointsAssumption DEF Init, Booted, ChangeIsFlagged, Defined

\* Every step leaves a changed point flagged.
THEOREM FlaggedStep == TableType /\ ChangeIsFlagged /\ [Next]_vars => ChangeIsFlagged'
<1>. SUFFICES ASSUME TableType, ChangeIsFlagged, [Next]_vars PROVE ChangeIsFlagged'
  OBVIOUS
<1>1. CASE IOT_DataPoint_Define
  <2>1. PICK dp \in Points \ Defined, v \in Inputs, c \in BOOLEAN :
           /\ properties' = Define(properties, dp, New(Default(Kind(dp), v), c))
           /\ unmarked' = IF c THEN unmarked ELSE unmarked \cup {dp}
    BY <1>1 DEF IOT_DataPoint_Define
  <2>2. Defined' = Defined \cup {dp} /\ properties'[dp].change = c
    BY <2>1 DEF Define, Defined, New
  <2>3. \A q \in Defined : properties'[q] = properties[q]
    BY <2>1 DEF Define, Defined
  <2>4. Flagged(dp)'
    BY <2>1, <2>2 DEF Flagged
  <2>5. ASSUME NEW q \in Defined \cap Uploaded PROVE Flagged(q)'
    BY <1>1, <2>1, <2>3 DEF Flagged, ChangeIsFlagged, Kind, IOT_DataPoint_Define
  <2>. QED
    BY <2>2, <2>4, <2>5 DEF ChangeIsFlagged, Flagged
<1>2. CASE IOT_DataPoint_Read
  <2>1. PICK dp \in Points \cap Defined :
           properties' = [properties EXCEPT ![dp].readFlag = "OLD"]
    BY <1>2 DEF IOT_DataPoint_Read
  <2>2. /\ DOMAIN properties' = Defined
        /\ \A q \in Defined : /\ properties'[q].value = properties[q].value
                              /\ properties'[q].change = properties[q].change
    BY <2>1 DEF TableType, Property, Defined
  <2>. QED
    BY <1>2, <2>2, Unwritten DEF IOT_DataPoint_Read, history
<1>3. CASE IOT_DataPoint_Write
  <2>1. PICK dp \in Points \cap Defined, v \in Inputs :
           /\ properties' = WriteAll([q \in {dp} |-> v], "user")
           /\ Noted(WriteAll([q \in {dp} |-> v], "user"), {dp}, "user")
    BY <1>3 DEF IOT_DataPoint_Write
  <2>2. DOMAIN [q \in {dp} |-> v] = {dp}
    OBVIOUS
  <2>3. UNCHANGED <<dataType, sent>>
    BY <1>3 DEF IOT_DataPoint_Write
  <2>. QED
    BY <2>1, <2>2, <2>3, WrittenAndNoted, ValuesAssumption
<1>4. CASE IOT_DataPoint_Send
  <2>1. PICK dp \in Defined \cap Uploaded, v \in Inputs, handed \in BOOLEAN :
           /\ properties' = WriteAll([q \in {dp} |-> v], "user")
           /\ Transmit(Message(WriteAll([q \in {dp} |-> v], "user"), {dp}), handed)
           /\ IF handed
              THEN failed' = failed \ {dp} /\ unmarked' = unmarked \ {dp}
              ELSE Noted(WriteAll([q \in {dp} |-> v], "user"), {dp}, "user")
    BY <1>4 DEF IOT_DataPoint_Send
  <2>2. UNCHANGED dataType
    BY <1>4 DEF IOT_DataPoint_Send
  <2>3. CASE handed
    BY <2>1, <2>2, <2>3, OneSent, ValuesAssumption
  <2>4. CASE ~handed
    <3>1. \A q \in Points : sent'[q] = sent[q]
      BY <2>1, <2>4 DEF Transmit
    <3>2. DOMAIN [q \in {dp} |-> v] = {dp} /\ v \in Int
      BY ValuesAssumption
    <3>. QED
      BY <2>1, <2>2, <2>4, <3>1, <3>2, WrittenAndNoted
  <2>. QED
    BY <2>3, <2>4
<1>5. CASE IOT_DataPoint_SendAllDatapointManual \/ IOT_DataPoint_SendDatapointAutomatic
  <2>1. PICK handed \in BOOLEAN : SendAll(clearPropertyChangeFlag(properties), handed)
    BY <1>5 DEF IOT_DataPoint_SendAllDatapointManual,
                IOT_DataPoint_SendDatapointAutomatic, SendDatapointAutomatic
  <2>2. UNCHANGED dataType
    BY <1>5 DEF IOT_DataPoint_SendAllDatapointManual,
                IOT_DataPoint_SendDatapointAutomatic, SendDatapointAutomatic
  <2>3. clearPropertyChangeFlag(properties) \in [Defined -> Property]
    BY ClearType DEF TableType
  <2>. QED
    BY <2>1, <2>2, <2>3, AllSent DEF TableType
<1>6. CASE IOT_DataPoint_ParseReceiveDatapoints
  <2>1. PICK raw \in RawMessages :
           IF GetAll \in DOMAIN raw
           THEN \E handed \in BOOLEAN :
                   SendAll([Received(raw) EXCEPT ![GetAll].readFlag = "OLD"], handed)
           ELSE /\ properties' = Received(raw)
                /\ Noted(Received(raw), DOMAIN raw, "platform")
                /\ UNCHANGED <<network, sent>>
    BY <1>6 DEF IOT_DataPoint_ParseReceiveDatapoints
  <2>2. UNCHANGED dataType
    BY <1>6 DEF IOT_DataPoint_ParseReceiveDatapoints
  <2>. DEFINE vs == [dp \in DOMAIN raw |-> Parsed(Kind(dp), raw[dp])]
  <2>3. /\ DOMAIN vs = DOMAIN raw /\ DOMAIN raw \subseteq Defined
        /\ \A dp \in DOMAIN vs : vs[dp] \in Int
    BY ParsedInt DEF RawMessages
  <2>4. Received(raw) = WriteAll(vs, "platform")
    BY DEF Received
  <2>5. CASE GetAll \in DOMAIN raw
    <3>1. Received(raw) \in [Defined -> Property]
      BY <2>3, <2>4, WriteAllType
    <3>2. [Received(raw) EXCEPT ![GetAll].readFlag = "OLD"] \in [Defined -> Property]
      BY <3>1 DEF TableType, Property
    <3>. QED
      BY <2>1, <2>2, <2>5, <3>2, AllSent DEF TableType
  <2>6. CASE GetAll \notin DOMAIN raw
    <3>. HIDE DEF vs
    <3>. QED
      BY <2>1, <2>2, <2>3, <2>4, <2>6, WrittenAndNoted
  <2>. QED
    BY <2>5, <2>6
<1>7. CASE Reset \/ UndefinedNumberRead
  BY <1>7, PointsAssumption DEF UndefinedNumberRead, Reset, Booted, ChangeIsFlagged, Defined
<1>8. CASE UNCHANGED <<dataType, properties, history>>
  BY <1>8 DEF ChangeIsFlagged, Defined, Kind, history
<1>9. CASE \/ IOT_DataPoint_Control \/ (\E m \in transit : Deliver(m))
           \/ Repeat \/ Lose \/ Tick \/ UNCHANGED vars
  BY <1>8, <1>9 DEF IOT_DataPoint_Control, Deliver, Repeat, Lose, Tick, vars, history
<1>. QED
  BY <1>1, <1>2, <1>3, <1>4, <1>5, <1>6, <1>7, <1>9 DEF Next, Application

\* In every reachable state a point whose value was not handed to the network
\* last is flagged, but for a value a failed IOT_DataPoint_SendAll carried, a point
\* defined without the flag and a value written twice.
THEOREM ChangesFlagged == Spec => [](TableType /\ ChangeIsFlagged)
<1>1. Init => TableType /\ ChangeIsFlagged
  BY TableTypeInit, FlaggedInit
<1>2. (TableType /\ ChangeIsFlagged) /\ [Next]_vars => (TableType /\ ChangeIsFlagged)'
  BY TableTypeStep, FlaggedStep
<1>. QED
  BY <1>1, <1>2, PTL DEF Spec

=============================================================================
