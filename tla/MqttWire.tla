------------------------------ MODULE MqttWire ------------------------------
(***************************************************************************)
(* The MQTT packets as bytes (directory MQTTPacket) and how the client puts*)
(* them on a connection and takes them off it (iotx_mc_send_packet,        *)
(* iotx_mc_read_packet): one connection, from the CONNECT on.  A topic, a  *)
(* payload and a string are sequences of bytes.                            *)
(***************************************************************************)
EXTENDS Integers, Sequences

CONSTANTS Requests,       \* packets the client sends once it is connected
          ConnectPacket,
          Arrivals,       \* packets the broker sends once it has accepted
          SendBufLen, ReadBufLen,
          CutAt,          \* bound: numbers of bytes after which a read or write may end
          StrayIds,       \* packet ids that memory behind the read buffer may hold
          WireMaxPackets  \* bound: packets both send, acknowledgements apart

VARIABLES waits,   \* external: a write of the port ends short only when its time is over
          up,      \* bytes the client has put on the connection
          down,    \* bytes of the broker the client has not read
          link,    \* client_state, and that CONNECT has been sent
          sent,    \* history: the packets whose sending succeeded
          ack_cut, \* history: an acknowledgement was put on it in part
          pushed,  \* history: the packets the broker has sent
          seen     \* history: the packets the client has handled

wireVars == <<waits, up, down, link, sent, ack_cut, pushed, seen>>

CONNECT == 1
CONNACK == 2
PUBLISH == 3
PUBACK == 4
PUBREC == 5
SUBSCRIBE == 8
SUBACK == 9
UNSUBSCRIBE == 10
UNSUBACK == 11
PINGREQ == 12
PINGRESP == 13
DISCONNECT == 14

(* The packets: a string has 16 bits for its length, a remaining length    *)
(* four digits of seven; without QoS a packet has no id (0).               *)
MaxUint16 == 65535
MaxRemaining == 268435455
MqttString == {s \in Seq(0 .. 255) : Len(s) <= MaxUint16}

ConnectPackets ==
  [type : {CONNECT}, clientID : MqttString, username : MqttString, password : MqttString,
   cleansession : {0, 1}, keepAliveInterval : 0 .. MaxUint16]
PublishPackets ==
  {p \in [type : {PUBLISH}, qos : 0 .. 2, retain : {0, 1}, topic : MqttString,
          packetid : 0 .. MaxUint16, payload : Seq(0 .. 255)] :
     p.qos = 0 => p.packetid = 0}
SubscribePackets ==
  [type : {SUBSCRIBE}, packetid : 0 .. MaxUint16, topic : MqttString, qos : 0 .. 2]
UnsubscribePackets == [type : {UNSUBSCRIBE}, packetid : 0 .. MaxUint16, topic : MqttString]
AckPackets(types) == [type : types, packetid : 0 .. MaxUint16]
SubackPackets == [type : {SUBACK}, packetid : 0 .. MaxUint16, code : 0 .. 255]
ConnackPackets == [type : {CONNACK}, code : 0 .. 255]
BarePackets(types) == [type : types]

ASSUME WireAssumption ==
  /\ {SendBufLen, ReadBufLen, WireMaxPackets} \subseteq Nat /\ SendBufLen <= MaxRemaining
  /\ CutAt \subseteq Nat /\ StrayIds \subseteq 0 .. MaxUint16
  /\ ConnectPacket \in ConnectPackets
  /\ Requests \subseteq PublishPackets \cup SubscribePackets \cup UnsubscribePackets
                         \cup BarePackets({PINGREQ})
  /\ Arrivals \subseteq PublishPackets \cup ConnackPackets \cup SubackPackets
                         \cup AckPackets({PUBACK, UNSUBACK}) \cup BarePackets({PINGRESP})
  /\ \A p \in Arrivals \cap PublishPackets :
       Len(p.topic) + Len(p.payload) + 4 <= MaxRemaining

-----------------------------------------------------------------------------
(* MQTTPacket.c: lengths, integers and strings.                            *)
(* A length has four digits at most (MaxRemaining); all but the last one   *)
(* have the top bit set.                                                   *)
Weight == <<1, 128, 16384, 2097152>>
MQTTPacket_encode(length) ==
  LET size == CHOOSE k \in 1 .. 4 : /\ k > 1 => length >= Weight[k]
                                    /\ k < 4 => length < Weight[k + 1]
  IN  [k \in 1 .. size |-> ((length \div Weight[k]) % 128) + (IF k < size THEN 128 ELSE 0)]

(* The number of bytes a packet of this remaining length needs at most.    *)
MQTTPacket_len(rem_len) ==
  rem_len + 1 + (IF rem_len + 1 < 128 THEN 1
                 ELSE IF rem_len + 1 < 16384 THEN 2
                 ELSE IF rem_len + 1 < 2097151 THEN 3 ELSE 4)

writeInt(n) == <<(n \div 256) % 256, n % 256>>
readInt(b, at) == 256 * b[at] + b[at + 1]
writeMQTTString(s) == writeInt(Len(s)) \o s
readMQTTLenString(b, at) == SubSeq(b, at + 2, at + 1 + readInt(b, at))

(* MQTTPacket_decode, of the bytes after the first one of a packet.        *)
LengthBytes(b) == CHOOSE k \in 1 .. 4 : b[1 + k] < 128 /\ \A j \in 1 .. k - 1 : b[1 + j] >= 128
RemainingLength(b) ==
  LET value[k \in 0 .. LengthBytes(b)] ==
        IF k = 0 THEN 0 ELSE value[k - 1] + (b[1 + k] % 128) * Weight[k]
  IN  value[LengthBytes(b)]
HeaderLen(b) == 1 + LengthBytes(b)
PacketLen(b) == HeaderLen(b) + RemainingLength(b)

-----------------------------------------------------------------------------
(* The serializers: the length they reserve, and what they write.          *)
SerializedLength(p) ==
  CASE p.type = CONNECT ->
         10 + Len(p.clientID) + 2 + Len(p.username) + 2 + Len(p.password) + 2
    [] p.type = PUBLISH ->
         2 + Len(p.topic) + Len(p.payload) + (IF p.qos > 0 THEN 2 ELSE 0)
    [] p.type = SUBSCRIBE -> 2 + 2 + Len(p.topic) + 1
    [] p.type = UNSUBSCRIBE -> 2 + 2 + Len(p.topic)
    [] p.type \in {PUBACK, PUBREC} -> 2
    [] p.type \in {PINGREQ, DISCONNECT} -> 0

(* "MQTT", the version, the flags: user name, password, clean session; no  *)
(* will is ever set by iotx_mc_init.                                       *)
MQTTSerialize_connect(p) ==
  writeMQTTString(<<77, 81, 84, 84>>) \o <<4, 128 + 64 + 2 * p.cleansession>>
    \o writeInt(p.keepAliveInterval) \o writeMQTTString(p.clientID)
    \o writeMQTTString(p.username) \o writeMQTTString(p.password)

MQTTSerialize_publish(p) ==
  writeMQTTString(p.topic) \o (IF p.qos > 0 THEN writeInt(p.packetid) ELSE <<>>)
    \o p.payload

MQTTSerialize_subscribe(p) ==
  writeInt(p.packetid) \o writeMQTTString(p.topic) \o <<p.qos>>

MQTTSerialize_unsubscribe(p) == writeInt(p.packetid) \o writeMQTTString(p.topic)

Body(p) ==
  CASE p.type = CONNECT -> MQTTSerialize_connect(p)
    [] p.type = PUBLISH -> MQTTSerialize_publish(p)
    [] p.type = SUBSCRIBE -> MQTTSerialize_subscribe(p)
    [] p.type = UNSUBSCRIBE -> MQTTSerialize_unsubscribe(p)
    [] p.type \in {PUBACK, PUBREC} -> writeInt(p.packetid)
    [] p.type \in {PINGREQ, DISCONNECT} -> <<>>

FirstByte(p) ==
  16 * p.type + (CASE p.type = PUBLISH -> 2 * p.qos + p.retain
                   [] p.type \in {SUBSCRIBE, UNSUBSCRIBE} -> 2
                   [] OTHER -> 0)

Serialize(p) ==
  <<FirstByte(p)>> \o MQTTPacket_encode(SerializedLength(p)) \o Body(p)

TooShort(p) == MQTTPacket_len(SerializedLength(p)) > SendBufLen

-----------------------------------------------------------------------------
(* External: the broker's packets, and how it reads the client's.          *)
BrokerPublish(p) ==
  LET body == writeMQTTString(p.topic)
                \o (IF p.qos > 0 THEN writeInt(p.packetid) ELSE <<>>) \o p.payload
  IN  <<48 + 2 * p.qos + p.retain>> \o MQTTPacket_encode(Len(body)) \o body

BrokerBytes(p) ==
  CASE p.type = CONNACK -> <<32, 2, 0, p.code>>
    [] p.type \in {PUBACK, UNSUBACK} -> <<16 * p.type, 2>> \o writeInt(p.packetid)
    [] p.type = SUBACK -> <<144, 3>> \o writeInt(p.packetid) \o <<p.code>>
    [] p.type = PINGRESP -> <<208, 0>>
    [] p.type = PUBLISH -> BrokerPublish(p)

BrokerReadsPublish(b, at) ==
  LET qos == (b[1] % 8) \div 2
      id == at + 2 + readInt(b, at)
  IN  [type |-> PUBLISH, qos |-> qos, retain |-> b[1] % 2,
       topic |-> readMQTTLenString(b, at),
       packetid |-> IF qos > 0 THEN readInt(b, id) ELSE 0,
       payload |-> SubSeq(b, IF qos > 0 THEN id + 2 ELSE id, Len(b))]

BrokerReads(b) ==
  LET type == b[1] \div 16
      at == HeaderLen(b) + 1
      user == at + 10 + 2 + readInt(b, at + 10)
  IN  CASE type = CONNECT ->
             [type |-> type, cleansession |-> (b[at + 7] % 4) \div 2,
              keepAliveInterval |-> readInt(b, at + 8),
              clientID |-> readMQTTLenString(b, at + 10),
              username |-> readMQTTLenString(b, user),
              password |-> readMQTTLenString(b, user + 2 + readInt(b, user))]
        [] type = PUBLISH -> BrokerReadsPublish(b, at)
        [] type = SUBSCRIBE ->
             [type |-> type, packetid |-> readInt(b, at),
              topic |-> readMQTTLenString(b, at + 2), qos |-> b[Len(b)]]
        [] type = UNSUBSCRIBE ->
             [type |-> type, packetid |-> readInt(b, at),
              topic |-> readMQTTLenString(b, at + 2)]
        [] type \in {PUBACK, PUBREC} -> [type |-> type, packetid |-> readInt(b, at)]
        [] OTHER -> [type |-> type]

-----------------------------------------------------------------------------
(* The client's deserializers, of one packet in the read buffer.           *)
MQTTDeserialize_publish(b) ==
  LET qos == (b[1] % 8) \div 2
      topic == readMQTTLenString(b, HeaderLen(b) + 1)
      at == HeaderLen(b) + 3 + Len(topic)
  IN  [type |-> PUBLISH, qos |-> qos, retain |-> b[1] % 2, topic |-> topic,
       packetid |-> IF qos > 0 THEN readInt(b, at) ELSE 0,
       payload |-> SubSeq(b, IF qos > 0 THEN at + 2 ELSE at, PacketLen(b))]

MQTTDeserialize_connack(b) == [type |-> CONNACK, code |-> b[HeaderLen(b) + 2]]

MQTTDeserialize_suback(b) ==
  [type |-> SUBACK, packetid |-> readInt(b, HeaderLen(b) + 1), code |-> b[PacketLen(b)]]

MQTTDeserialize_ack(b) ==
  [type |-> b[1] \div 16, packetid |-> readInt(b, HeaderLen(b) + 1)]

Deserialize(b) ==
  LET type == b[1] \div 16
  IN  CASE type = PUBLISH -> MQTTDeserialize_publish(b)
        [] type = CONNACK -> MQTTDeserialize_connack(b)
        [] type = SUBACK -> MQTTDeserialize_suback(b)
        [] type \in {PUBACK, UNSUBACK} -> MQTTDeserialize_ack(b)
        [] type = PINGRESP -> [type |-> type]

-----------------------------------------------------------------------------
(* iotx_mc_send_packet of b: what comes onto the connection, and whether   *)
(* it succeeds.  A write that ends short with time left is repeated with   *)
(* the whole length, past the end of the packet (255: what is there).      *)
Cuts(n) == {k \in CutAt : k < n}
Prefix(b, k) == SubSeq(b, 1, k)

Writes(b) ==
  {[out |-> b, ok |-> TRUE]}
    \cup {[out |-> Prefix(b, k), ok |-> FALSE] : k \in Cuts(Len(b))}
    \cup IF waits THEN {}
         ELSE {[out |-> Prefix(b \o [i \in 1 .. Len(b) |-> 255], k + j),
                ok |-> k + j = Len(b)] :
                 k \in Cuts(Len(b)) \ {0}, j \in (Cuts(Len(b)) \ {0}) \cup {Len(b)}}

Exchanged == Len(sent) + Len(pushed)

(* MQTTConnect.                                                            *)
ClientConnects ==
  /\ link = "closed" /\ ~TooShort(ConnectPacket)
  /\ \E w \in Writes(Serialize(ConnectPacket)) :
       /\ up' = w.out
       /\ IF w.ok THEN link' = "waiting" /\ sent' = <<ConnectPacket>>
                  ELSE link' = "disconnected" /\ UNCHANGED sent
  /\ UNCHANGED <<waits, down, ack_cut, pushed, seen>>

(* MQTTPublish, MQTTSubscribe, MQTTUnsubscribe and MQTTKeepalive with      *)
(* their callers: an error of the network ends the connection.  A packet   *)
(* that is too long is not sent.                                           *)
ClientSends(p) ==
  /\ link = "connected" /\ Exchanged < WireMaxPackets /\ ~TooShort(p)
  /\ \E w \in Writes(Serialize(p)) :
       /\ up' = up \o w.out
       /\ IF w.ok THEN sent' = Append(sent, p) /\ UNCHANGED link
                  ELSE link' = "disconnected" /\ UNCHANGED sent
  /\ UNCHANGED <<waits, down, ack_cut, pushed, seen>>

(* IOT_MQTT_Destroy: MQTTDisconnect's result is ignored.                   *)
ClientDisconnects ==
  /\ link = "connected"
  /\ \E w \in Writes(Serialize([type |-> DISCONNECT])) :
       /\ up' = up \o w.out
       /\ sent' = IF w.ok THEN Append(sent, [type |-> DISCONNECT]) ELSE sent
  /\ link' = "disconnected"
  /\ UNCHANGED <<waits, down, ack_cut, pushed, seen>>

(* MQTTPuback, from iotx_mc_handle_recv_PUBLISH: its result goes no        *)
(* further than the turn of IOT_MQTT_Yield, the client stays connected.    *)
Acknowledge(m) ==
  IF m.type = PUBLISH /\ m.qos > 0
    THEN LET ack == [type |-> IF m.qos = 1 THEN PUBACK ELSE PUBREC,
                     packetid |-> m.packetid]
         IN  \E w \in Writes(Serialize(ack)) :
               /\ up' = up \o w.out
               /\ sent' = IF w.ok THEN Append(sent, ack) ELSE sent
               /\ ack_cut' = (ack_cut \/ ~w.ok)
    ELSE UNCHANGED <<up, sent, ack_cut>>

-----------------------------------------------------------------------------
(* External: the broker answers CONNECT first, then sends what it likes.   *)
BrokerSends(p) ==
  /\ Exchanged < WireMaxPackets
  /\ IF pushed = <<>> THEN link = "waiting" /\ p.type = CONNACK
                      ELSE pushed[1].code = 0 /\ p.type # CONNACK
  /\ down' = down \o BrokerBytes(p)
  /\ pushed' = Append(pushed, p)
  /\ UNCHANGED <<waits, up, link, sent, ack_cut, seen>>

Reads == link \in {"waiting", "connected"} /\ down # <<>>
Unread(k) == SubSeq(down, k + 1, Len(down))
TooLong == PacketLen(down) > ReadBufLen

(* iotx_mc_read_packet runs out of time after the first byte and before    *)
(* the last one of the packet or, of a packet that is too long for the     *)
(* buffer, of what is dropped.                                             *)
ReadCutShort ==
  /\ Reads
  /\ \E k \in Cuts(PacketLen(down)) \ {0} : down' = Unread(k)
  /\ link' = "disconnected"
  /\ UNCHANGED <<waits, up, sent, ack_cut, pushed, seen>>

(* A whole packet is read and handled: iotx_mc_wait_CONNACK and            *)
(* iotx_mc_cycle.                                                          *)
ReadPacketWhole ==
  /\ Reads /\ ~TooLong
  /\ LET m == Deserialize(Prefix(down, PacketLen(down)))
     IN  /\ seen' = Append(seen, m)
         /\ link' = IF link = "waiting"
                      THEN IF m.type # CONNACK THEN link
                           ELSE IF m.code = 0 THEN "connected" ELSE "disconnected"
                      ELSE link
         /\ IF link = "connected" THEN Acknowledge(m) ELSE UNCHANGED <<up, sent, ack_cut>>
  /\ down' = Unread(PacketLen(down))
  /\ UNCHANGED <<waits, pushed>>

(* Mutant: of a packet that is too long one buffer is dropped.             *)
DropOneBuffer ==
  /\ Reads /\ TooLong
  /\ seen' = Append(seen, [type |-> 0])
  /\ down' = Unread(ReadBufLen)
  /\ UNCHANGED <<waits, up, link, sent, ack_cut, pushed>>

(* What iotx_mc_handle_recv_PUBLISH makes of the front of a PUBLISH that   *)
(* does not fit the buffer: the packet id is read where it would be, from  *)
(* memory behind the buffer if the buffer ends before.                     *)
Truncated ==
  LET m == Deserialize(Prefix(down, PacketLen(down)))
      ids == IF HeaderLen(down) + 4 + Len(m.topic) <= ReadBufLen
               THEN {m.packetid} ELSE StrayIds
  IN  IF m.type = PUBLISH THEN {[type |-> PUBLISH, qos |-> m.qos, packetid |-> id] : id \in ids}
                          ELSE {}

(* The packet does not fit the buffer: it is read to its end, the          *)
(* application is told, and the packet type is left as it was: in          *)
(* iotx_mc_wait_CONNACK none that ends the wait, in iotx_mc_cycle any, for *)
(* there it is not initialized.  Of the handlers the turn may then run on  *)
(* the buffer, PUBLISH and SUBACK look at the type in it, PUBACK and       *)
(* UNSUBACK act on the lists of MqttPublish and MqttSubscribe.             *)
ReadPacketTooLong ==
  /\ Reads /\ TooLong
  /\ seen' = Append(seen, [type |-> 0])
  /\ down' = Unread(PacketLen(down))
  /\ \/ UNCHANGED <<up, sent, ack_cut>>
     \/ link = "connected" /\ \E m \in Truncated : Acknowledge(m)
  /\ UNCHANGED <<waits, link, pushed>>

-----------------------------------------------------------------------------
WireInit ==
  /\ waits \in BOOLEAN
  /\ up = <<>> /\ down = <<>> /\ link = "closed"
  /\ sent = <<>> /\ ack_cut = FALSE /\ pushed = <<>> /\ seen = <<>>

WireNext ==
  \/ ClientConnects \/ ClientDisconnects
  \/ \E p \in Requests : ClientSends(p)
  \/ \E p \in Arrivals : BrokerSends(p)
  \/ ReadCutShort \/ ReadPacketWhole \/ ReadPacketTooLong

WireSpec == WireInit /\ [][WireNext]_wireVars

-----------------------------------------------------------------------------
WireTypeOK ==
  /\ waits \in BOOLEAN /\ ack_cut \in BOOLEAN
  /\ up \in Seq(0 .. 255) /\ down \in Seq(0 .. 255)
  /\ link \in {"closed", "waiting", "connected", "disconnected"}

(* The packets at the front of a stream, as the broker reads them, and     *)
(* what is left of it.                                                     *)
BrokerParses(b, n) ==
  LET from[i \in 0 .. n] ==
        IF i = 0 THEN 1 ELSE from[i - 1] + PacketLen(SubSeq(b, from[i - 1], Len(b)))
  IN  [read |-> [i \in 1 .. n |-> BrokerReads(SubSeq(b, from[i - 1], from[i] - 1))],
       left |-> Len(b) + 1 - from[n]]

(* What the broker reads off the connection is the packets the client sent *)
(* with success, in that order, with nothing between them, and nothing     *)
(* after them while the client takes itself for connected: provided that   *)
(* a write that ends short has used up its time, and that no               *)
(* acknowledgement was cut short.  No packet is longer than the buffer.    *)
BrokerReadsWhatWasSent ==
  /\ waits /\ ~ack_cut =>
       LET got == BrokerParses(up, Len(sent))
       IN  /\ got.read = sent
           /\ link \in {"waiting", "connected"} => got.left = 0
  /\ \A p \in Requests \cup {ConnectPacket} :
       ~TooShort(p) => Len(Serialize(p)) <= SendBufLen

(* The client handles each packet of the broker once, in order, with the   *)
(* fields the broker gave it, unless it is too long for the buffer; and    *)
(* while it is connected the next byte it reads begins the next packet.    *)
BrokerBytesOf(s) ==
  LET all[i \in 0 .. Len(s)] == IF i = 0 THEN <<>> ELSE all[i - 1] \o BrokerBytes(s[i])
  IN  all[Len(s)]

ClientStaysInStep ==
  /\ Len(seen) <= Len(pushed)
  /\ \A i \in 1 .. Len(seen) :
       seen[i] = IF Len(BrokerBytes(pushed[i])) > ReadBufLen THEN [type |-> 0]
                 ELSE pushed[i]
  /\ link \in {"waiting", "connected"} =>
       down = BrokerBytesOf(SubSeq(pushed, Len(seen) + 1, Len(pushed)))

(* Each side of the connection reads what the other one has written.       *)
ConnectionInStep == BrokerReadsWhatWasSent /\ ClientStaysInStep

=============================================================================
