------------------------------ MODULE MCParts -------------------------------
(***************************************************************************)
(* Small instances for TLC of the parts that share no state with another:  *)
(* a behaviour runs one of them and leaves the others where they start.    *)
(***************************************************************************)
EXTENDS Ota, Net, Clock, Timers, Keys, MqttWire, MqttTopics, CoapWire,
        Crypto, Log

VARIABLE part  \* the part that runs

Parts == {"ota", "net", "clock", "timers", "keys", "mqtt", "topics", "coap",
          "crypto", "log"}

partsVars == <<part, otaVars, netVars, clockVars, timerVars, keyVars,
               wireVars, topicVars, coapWireVars, cryptoVars, logVars>>

-----------------------------------------------------------------------------
Server(mode, n, good) == [mode |-> mode, n |-> n, good |-> good]
MCServers ==
  {Server("length", n, TRUE) : n \in {3, 4, 5, 8}}
    \cup {Server("length", 4, FALSE), Server("chunked", 5, TRUE),
          Server("neither", 2, TRUE), Server("endless", 0, TRUE)}
MCSizes == {4, 5}

MCPorts == {Linux, Osx, Esp32, Esp8266, Windows}
MCUdpPorts == {UdpLinux, UdpOsx, UdpEsp32, UdpEsp8266, UdpWindows}

\* Two keys: one with clicks, one with long presses.
MCKeyWants == [k \in {1, 2} |-> IF k = 1 THEN {"click", "double"} ELSE {"start", "stop"}]

-----------------------------------------------------------------------------
\* MQTT packets on both sides of the lengths at which a remaining length
\* takes a byte more (127) and at which the buffer is full.  Two arrivals
\* do not fit the read buffer; it ends before the packet id of one of them.
Bytes(n) == [i \in 1 .. n |-> i % 7]
Publish(qos, id, payload) ==
  [type |-> PUBLISH, qos |-> qos, retain |-> 0, topic |-> <<97>>,
   packetid |-> id, payload |-> payload]
MCConnect ==
  [type |-> CONNECT, clientID |-> <<99>>, username |-> <<117, 118>>,
   password |-> <<119>>, cleansession |-> 1, keepAliveInterval |-> 300]
MCRequests ==
  {Publish(0, 0, <<>>), Publish(1, 258, <<7>>), Publish(1, 2, Bytes(122)),
   Publish(1, 3, Bytes(123)), Publish(1, 4, Bytes(140)),
   [type |-> SUBSCRIBE, packetid |-> 65535, topic |-> <<97, 47, 43>>, qos |-> 1],
   [type |-> UNSUBSCRIBE, packetid |-> 256, topic |-> <<97>>],
   [type |-> PINGREQ]}
MCArrivals ==
  {[type |-> CONNACK, code |-> 0], [type |-> CONNACK, code |-> 5],
   [type |-> PUBACK, packetid |-> 258],
   [type |-> SUBACK, packetid |-> 65535, code |-> 128],
   [type |-> UNSUBACK, packetid |-> 256], [type |-> PINGRESP],
   [Publish(0, 0, <<1>>) EXCEPT !.retain = 1], Publish(1, 513, Bytes(5)),
   Publish(2, 7, <<>>), Publish(1, 9, Bytes(130)),
   [Publish(1, 10, <<>>) EXCEPT !.topic = Bytes(14)]}

-----------------------------------------------------------------------------
\* A device id and a token on both sides of the 13 bytes from which an
\* option's length takes a byte more, data with a byte that looks like the
\* payload mark, and data that are too long; answers with options and
\* without, one of them a delayed response.
MCDeviceId == [i \in 1 .. 13 |-> 100]
MCPassword == <<112, 58, 49>>
MCAuthTokens == {[i \in 1 .. 9 |-> 113]}
MCDeviceInfo == <<123, 125>>
MCCloudData == {<<1, 255>>, Bytes(40)}
Answer(type, code, options, payload) ==
  [type |-> type, code |-> code, msgid |-> 500, options |-> options, payload |-> payload]
Opt(num, val) == [num |-> num, val |-> val]
MCCoapAnswers ==
  {Answer(2, 0, <<>>, <<>>), Answer(2, 69, <<>>, <<7>>),
   Answer(0, 69, <<Opt(6, <<5>>), Opt(6, <<50>>)>>, <<8, 255>>),
   Answer(1, 128, <<Opt(0, [i \in 1 .. 14 |-> 255])>>, <<>>),
   Answer(3, 0, <<>>, <<>>)}

-----------------------------------------------------------------------------
\* Two strings of the log's tags say the same.
MCLogText == [t \in {"a", "b", "c", "d"} |-> IF t = "d" THEN "c" ELSE t]

-----------------------------------------------------------------------------
\* The inputs of a part that does not run are fixed.
PartsInit ==
  /\ part \in Parts
  /\ OtaInit /\ NetInit /\ ClockInit /\ TimersInit /\ KeysInit
  /\ WireInit /\ TopicsInit /\ CoapWireInit /\ CryptoInit /\ LogInit
  /\ part # "net" => port = Linux
  /\ part # "mqtt" => waits
  /\ part # "coap" => udp = UdpLinux /\ message_id = 1
  /\ part # "crypto" => secure_mode = PLAIN

UnchangedBut(p) ==
  /\ UNCHANGED part
  /\ IF p = "ota" THEN TRUE ELSE UNCHANGED otaVars
  /\ IF p = "net" THEN TRUE ELSE UNCHANGED netVars
  /\ IF p = "clock" THEN TRUE ELSE UNCHANGED clockVars
  /\ IF p = "timers" THEN TRUE ELSE UNCHANGED timerVars
  /\ IF p = "keys" THEN TRUE ELSE UNCHANGED keyVars
  /\ IF p = "mqtt" THEN TRUE ELSE UNCHANGED wireVars
  /\ IF p = "topics" THEN TRUE ELSE UNCHANGED topicVars
  /\ IF p = "coap" THEN TRUE ELSE UNCHANGED coapWireVars
  /\ IF p = "crypto" THEN TRUE ELSE UNCHANGED cryptoVars
  /\ IF p = "log" THEN TRUE ELSE UNCHANGED logVars

PartsNext ==
  \/ part = "ota" /\ OtaNext /\ UnchangedBut("ota")
  \/ part = "net" /\ NetNext /\ UnchangedBut("net")
  \/ part = "clock" /\ ClockNext /\ UnchangedBut("clock")
  \/ part = "timers" /\ TimersNext /\ UnchangedBut("timers")
  \/ part = "keys" /\ KeysNext /\ UnchangedBut("keys")
  \/ part = "mqtt" /\ WireNext /\ UnchangedBut("mqtt")
  \/ part = "topics" /\ TopicsNext /\ UnchangedBut("topics")
  \/ part = "coap" /\ CoapWireNext /\ UnchangedBut("coap")
  \/ part = "crypto" /\ CryptoNext /\ UnchangedBut("crypto")
  \/ part = "log" /\ LogNext /\ UnchangedBut("log")

\* OtaFairness and TimersFairness, for the part that runs.
PartsFairness ==
  /\ WF_otaVars(part = "ota" /\ OtaNext)
  /\ SF_otaVars(part = "ota" /\ OtaFirst /\ call'.pc = "head")
  /\ WF_timerVars(part = "timers" /\ IOT_TIMER_Loop)
  /\ WF_timerVars(part = "timers" /\ TimerTurn)
  /\ WF_timerVars(part = "timers" /\ CallbackReturns)

PartsSpec == PartsInit /\ [][PartsNext]_partsVars /\ PartsFairness

\* The type invariants of all the parts.
PartsTypeOK ==
  /\ part \in Parts
  /\ OtaTypeOK /\ NetTypeOK /\ ClockTypeOK /\ TimersTypeOK /\ KeysTypeOK
  /\ WireTypeOK /\ TopicsTypeOK /\ CoapWireTypeOK /\ CryptoTypeOK /\ LogTypeOK

=============================================================================
