------------------------------ MODULE CoapWire ------------------------------
(***************************************************************************)
(* The CoAP messages as bytes (the directory CoAPPacket), the requests the *)
(* client makes of a URI, a query and a payload (iotx_coap_client.c,       *)
(* iotx_comm_if_coap.c), the UDP socket under them (CoAPNetwork.c and the  *)
(* ports' hal_udp_interface.c), and how an answer finds its request.  When *)
(* messages are sent again and given up is module Coap's.                  *)
(***************************************************************************)
EXTENDS Integers, Sequences, FiniteSets

CONSTANTS CoapPorts,    \* the ports a build may have
          DeviceId, Password, AuthTokens, DeviceInfo, \* bytes of their texts
          CloudData,    \* what is given to iotx_comm_send
          CoapAnswers,  \* what the server answers
          FirstIds,     \* message ids the context may have come to
          MaxPdu,       \* COAP_MSG_MAX_PDU_LEN
          CoapSendsMax, CoapAnswersMax \* bounds

MaxWord == 65535
Byte == 0 .. 255
Word == 0 .. MaxWord

(* An option with its number or, in a message, its distance from the       *)
(* number before.                                                          *)
OptionType == [num : Word, val : Seq(Byte)]

ASSUME CoapWireAssumption ==
  /\ \A p \in CoapPorts : p.fails \subseteq {"-1", "0", "closed", "unconnected"}
  /\ FirstIds \subseteq 1 .. MaxWord
  /\ MaxPdu \in 9 .. MaxWord
  /\ {CoapSendsMax, CoapAnswersMax} \subseteq Nat
  /\ {DeviceId, Password, DeviceInfo} \cup AuthTokens \cup CloudData \subseteq Seq(Byte)
  /\ \A a \in CoapAnswers :
       /\ a.type \in 0 .. 3 /\ a.code \in Byte /\ a.msgid \in Word
       /\ a.payload \in Seq(Byte) /\ a.options \in Seq(OptionType)
       /\ \A k \in DOMAIN a.options : Len(a.options[k].val) <= MaxPdu

VARIABLES udp,        \* the port
          socket,     \* what HAL_UDP_create returned: "none" before, "-1" an error
          message_id, \* of the context
          coap_token, \* of the client
          sendlist,   \* the nodes of the list, oldest first
          requested,  \* history: what was written, with its id, token and bytes
          answered,   \* the server's answers, and the request each is for
          handled     \* history: what the handlers got, and of which request

coapWireVars ==
  <<udp, socket, message_id, coap_token, sendlist, requested, answered, handled>>

(* What HAL_UDP_create returns when it does not get a connected socket.    *)
UdpLinux == [fails |-> {"-1", "closed", "unconnected"}]
UdpOsx == [fails |-> {"-1", "closed", "unconnected"}]
UdpEsp32 == [fails |-> {"-1"}]
UdpEsp8266 == [fails |-> {"-1", "0"}]
UdpWindows == [fails |-> {"unconnected"}]

CON == 0
NON == 1
ACK == 2

OBSERVE == 6
URI_PATH == 11
CONTENT_FORMAT == 12
URI_QUERY == 15
ACCEPT == 17

(* Mutant: the low byte first, as in a token.                              *)
TwoBytesLow(n) == <<n % 256, (n \div 256) % 256>>

TwoBytes(n) == <<(n \div 256) % 256, n % 256>>

-----------------------------------------------------------------------------
(* The requests of the communication interface (iotx_comm_if_coap.c); the  *)
(* texts are cut to their buffers.  A token is there once the server has   *)
(* authenticated the device.                                               *)
GET == 1
POST == 2
Printed(s) == IF Len(s) > 127 THEN SubSeq(s, 1, 127) ELSE s
DeviceUri(tail) ==  \* "/v2/device/<device_id>/<tail>"
  Printed(<<47, 118, 50, 47, 100, 101, 118, 105, 99, 101, 47>> \o DeviceId \o <<47>> \o tail)
Query(name, value) == Printed(<<38>> \o name \o <<61>> \o value)
ByToken(token) == Query(<<115, 114, 116>>, token)  \* "&srt=<token>"

send_device_auth ==
  [observe |-> FALSE, code |-> GET, uri |-> DeviceUri(<<97, 117, 116, 104>>),
   query |-> Query(<<112>>, Password), payload |-> <<>>]
send_mata_info(token) ==
  [observe |-> FALSE, code |-> POST, uri |-> DeviceUri(<<105, 110, 102, 111>>),
   query |-> ByToken(token), payload |-> DeviceInfo]
sub_action_topic(token) ==
  [observe |-> TRUE, code |-> GET, uri |-> DeviceUri(<<97, 99, 116, 105, 111, 110>>),
   query |-> ByToken(token), payload |-> <<>>]
sub_data_topic(token) ==
  [observe |-> TRUE, code |-> GET, uri |-> DeviceUri(<<116, 120>>),
   query |-> ByToken(token), payload |-> <<>>]
connect_heartbeat(token) ==
  [observe |-> FALSE, code |-> GET, uri |-> DeviceUri(<<112, 105, 110, 103>>),
   query |-> ByToken(token), payload |-> <<>>]
iotx_comm_send(reply, data, token) ==
  [observe |-> FALSE, code |-> POST,
   uri |-> DeviceUri(IF reply THEN <<114, 101, 112, 108, 121>> ELSE <<114, 120>>),
   query |-> ByToken(token), payload |-> data]

CoapRequests ==
  {send_device_auth}
    \cup (UNION {{send_mata_info(t), sub_action_topic(t), sub_data_topic(t),
                  connect_heartbeat(t)} : t \in AuthTokens})
    \cup {iotx_comm_send(r, d, t) : r \in BOOLEAN, d \in CloudData, t \in AuthTokens}

-----------------------------------------------------------------------------
(* The options of a request: iotx_path_2_option, iotx_querystr_2_option.   *)

(* The parts of s that are not empty, between the separators.              *)
Closed(walked) ==
  IF walked.part = <<>> THEN walked.parts ELSE Append(walked.parts, walked.part)

Pieces(s, separator) ==
  LET walk[n \in 0 .. Len(s)] ==
        IF n = 0 THEN [parts |-> <<>>, part |-> <<>>]
        ELSE IF s[n] = separator THEN [parts |-> Closed(walk[n - 1]), part |-> <<>>]
        ELSE [walk[n - 1] EXCEPT !.part = Append(@, s[n])]
  IN  Closed(walk[Len(s)])

(* A URI or a query that is too long is left out of the request.           *)
StrOptions(num, s, separator) ==
  LET parts == IF Len(s) > 135 THEN <<>> ELSE Pieces(s, separator)
  IN  [k \in DOMAIN parts |-> [num |-> num, val |-> parts[k]]]

(* CoAPUintOption_add of one of the values the client uses.                *)
UintOption(num, data) == <<[num |-> num, val |-> IF data = 0 THEN <<>> ELSE <<data>>]>>

(* The first sixteen are kept; a number is given by its distance from the  *)
(* one before.                                                             *)
MaxOptions == 16
Options(r) ==
  LET front == (IF r.observe THEN UintOption(OBSERVE, 0) ELSE <<>>)
                 \o StrOptions(URI_PATH, r.uri, 47)
      back == UintOption(CONTENT_FORMAT, 50)
                \o StrOptions(URI_QUERY, r.query, 38) \o UintOption(ACCEPT, 42)
      all == front \o back
      kept == IF Len(all) > MaxOptions THEN SubSeq(all, 1, MaxOptions) ELSE all
  IN  [k \in DOMAIN kept |->
         [num |-> kept[k].num - (IF k = 1 THEN 0 ELSE kept[k - 1].num), val |-> kept[k].val]]

-----------------------------------------------------------------------------
(* CoAPSerialize.c.                                                        *)
Nibble(n) == IF n >= 269 THEN 14 ELSE IF n >= 13 THEN 13 ELSE n
Extended(n) == IF n >= 269 THEN TwoBytes(n - 269) ELSE IF n >= 13 THEN <<n - 13>> ELSE <<>>

CoAPSerialize_Option(o) ==
  <<16 * Nibble(o.num) + Nibble(Len(o.val))>>
    \o Extended(o.num) \o Extended(Len(o.val)) \o o.val

CoAPSerialize_Options(options) ==
  LET bytes[n \in 0 .. Len(options)] ==
        IF n = 0 THEN <<>> ELSE bytes[n - 1] \o CoAPSerialize_Option(options[n])
  IN  bytes[Len(options)]

CoAPSerialize_OptionLen(o) ==
  LET more(n) == IF n >= 269 THEN 2 ELSE IF n >= 13 THEN 1 ELSE 0
  IN  1 + more(o.num) + more(Len(o.val)) + Len(o.val)

CoAPSerialize_OptionsLen(options) ==
  LET count[n \in 0 .. Len(options)] ==
        IF n = 0 THEN 0 ELSE count[n - 1] + CoAPSerialize_OptionLen(options[n])
  IN  count[Len(options)]

(* An unsigned short.                                                      *)
CoAPSerialize_MessageLength(m) ==
  (4 + Len(m.token) + CoAPSerialize_OptionsLen(m.options)
     + IF m.payload = <<>> THEN 0 ELSE Len(m.payload) + 1) % 65536

CoAPSerialize_Header(m) ==
  <<64 + 16 * m.type + Len(m.token), m.code>> \o TwoBytes(m.msgid)

(* Where the payload and its mark have no room, the answer -1 takes the    *)
(* last byte off; the mark needs it without a payload too.                 *)
CoAPSerialize_Message(m) ==
  LET front == CoAPSerialize_Header(m) \o m.token \o CoAPSerialize_Options(m.options)
  IN  IF Len(m.payload) + 1 > MaxPdu - Len(front) THEN SubSeq(front, 1, Len(front) - 1)
      ELSE IF m.payload = <<>> THEN front
      ELSE front \o <<255>> \o m.payload

-----------------------------------------------------------------------------
(* CoAPDeserialize.c, as far as the client uses it: it steps over the      *)
(* options.                                                                *)
(* Mutant: a length is taken from the first byte alone.                    *)
OptionSizeShort(b, at) == 1 + (b[at] % 16)

CoAPDeserialize_OptionSize(b, at) ==
  LET delta == b[at] \div 16
      len == b[at] % 16
      past == at + 1 + (IF delta = 13 THEN 1 ELSE IF delta = 14 THEN 2 ELSE 0)
  IN  IF len = 13 THEN past + 1 + 13 + b[past] - at
      ELSE IF len = 14 THEN past + 2 + 269 + 256 * b[past] + b[past + 1] - at
      ELSE past + len - at

(* Where the options end: at the payload mark, or with the datagram.       *)
CoAPDeserialize_Options(b, from) ==
  LET at[n \in 0 .. Len(b)] ==
        IF n = 0 THEN from
        ELSE LET p == at[n - 1]
             IN  IF p > Len(b) THEN p
                 ELSE IF b[p] = 255 THEN p
                 ELSE p + CoAPDeserialize_OptionSize(b, p)
  IN  at[Len(b)]

CoAPDeserialize_Message(b) ==
  LET tokenlen == b[1] % 16
  IN  [type |-> (b[1] \div 16) % 4, code |-> b[2], msgid |-> 256 * b[3] + b[4],
       token |-> SubSeq(b, 5, 4 + tokenlen),
       payload |-> SubSeq(b, CoAPDeserialize_Options(b, 5 + tokenlen) + 1, Len(b))]

-----------------------------------------------------------------------------
(* External: how the server reads a message, with the options' numbers     *)
(* and values, and writes one, with options in the same format.            *)
NextOption(b, read) ==
  LET value(nibble, at) == IF nibble = 13 THEN 13 + b[at]
                           ELSE IF nibble = 14 THEN 269 + 256 * b[at] + b[at + 1]
                           ELSE nibble
      size(nibble) == IF nibble = 13 THEN 1 ELSE IF nibble = 14 THEN 2 ELSE 0
      d == b[read.at] \div 16
      l == b[read.at] % 16
      num == read.num + value(d, read.at + 1)
      from == read.at + 1 + size(d) + size(l)
      len == value(l, read.at + 1 + size(d))
  IN  [at |-> from + len, num |-> num,
       options |-> Append(read.options, [num |-> num, val |-> SubSeq(b, from, from + len - 1)])]

ServerReads(b) ==
  LET tokenlen == b[1] % 16
      read[n \in 0 .. Len(b)] ==
        IF n = 0 THEN [at |-> 5 + tokenlen, num |-> 0, options |-> <<>>]
        ELSE LET r == read[n - 1]
             IN  IF r.at > Len(b) THEN r
                 ELSE IF b[r.at] = 255 THEN r
                 ELSE NextOption(b, r)
      all == read[Len(b)]
  IN  [type |-> (b[1] \div 16) % 4, code |-> b[2], msgid |-> 256 * b[3] + b[4],
       token |-> SubSeq(b, 5, 4 + tokenlen), options |-> all.options,
       payload |-> SubSeq(b, all.at + 1, Len(b))]

ServerWrites(a) ==
  <<64 + 16 * a.type + Len(a.token), a.code>> \o TwoBytes(a.msgid) \o a.token
    \o CoAPSerialize_Options(a.options) \o (IF a.payload = <<>> THEN <<>> ELSE <<255>> \o a.payload)

-----------------------------------------------------------------------------
(* CoAPUri_parse, CoAPContext_create, CoAPNetwork_init and IOT_CoAP_Init,  *)
(* from iotx_comm_connect: only -1 is taken for a failure, and a client is *)
(* made over anything else.                                                *)
CoapConnects ==
  /\ socket \in {"none", "-1"}
  /\ \E s \in udp.fails \cup {"open"} : socket' = s
  /\ UNCHANGED <<udp, message_id, coap_token, sendlist, requested, answered, handled>>

HasClient == socket \notin {"none", "-1"}

CoAPMessageId_gen == IF message_id = MaxWord THEN 1 ELSE message_id
NextMessageId == IF message_id = MaxWord THEN message_id ELSE message_id + 1

(* IOTX_COAP_INIT_TOKEN and the messages before this id; the low byte of a *)
(* token goes first (iotx_get_coap_token).                                 *)
FirstToken(id) == 16909060 + id - 1
Token(n) == <<n % 256, (n \div 256) % 256, (n \div 65536) % 256, n \div 16777216>>

Message(r) == [type |-> CON, code |-> r.code, msgid |-> CoAPMessageId_gen,
               token |-> Token(coap_token), options |-> Options(r), payload |-> r.payload]

(* Every request's options have room, its length does not wrap, and one    *)
(* without a payload does not fill the buffer, which takes a URI and a     *)
(* query cut as they are.                                                  *)
ASSUME RequestsFit ==
  \A r \in CoapRequests :
    /\ Len(Pieces(r.uri, 47)) + Len(Pieces(r.query, 38)) + 3 <= MaxOptions
    /\ 9 + CoAPSerialize_OptionsLen(Options(r)) + Len(r.payload) <= MaxWord
    /\ r.payload = <<>> => 8 + CoAPSerialize_OptionsLen(Options(r)) < MaxPdu

(* An answer's options have room in a CoAPMessage, and the answer in the   *)
(* buffer it is read into.                                                 *)
ASSUME AnswersFit ==
  \A a \in CoapAnswers :
    /\ Len(a.options) <= MaxOptions
    /\ 9 + CoAPSerialize_OptionsLen(a.options) + Len(a.payload) <= MaxPdu

(* The list without its k-th node.                                         *)
Without(list, k) == [j \in 1 .. Len(list) - 1 |-> list[IF j < k THEN j ELSE j + 1]]

(* CoAPMessageList_add.                                                    *)
Node(n) == [n |-> n, msgid |-> CoAPMessageId_gen, token |-> Token(coap_token),
            observer |-> requested'[n].request.observe, acked |-> FALSE]

(* IOT_CoAP_Client_Send, IOT_CoAP_Client_Observe_Send and CoAPMessage_send:*)
(* the id and the token are used up whatever happens; only what was        *)
(* written goes into the list.                                             *)
CoapSends(r) ==
  /\ HasClient
  /\ \E id \in FirstIds : coap_token \in FirstToken(id) .. FirstToken(id) + CoapSendsMax - 1
  /\ \E written \in IF socket = "open" /\ CoAPSerialize_MessageLength(Message(r)) <= MaxPdu
                      THEN BOOLEAN ELSE {FALSE} :
       IF written
         THEN /\ requested' = Append(requested,
                   [request |-> r, msgid |-> CoAPMessageId_gen, token |-> Token(coap_token),
                    bytes |-> CoAPSerialize_Message(Message(r))])
              /\ sendlist' = Append(sendlist, Node(Len(requested) + 1))
         ELSE UNCHANGED <<requested, sendlist>>
  /\ message_id' = NextMessageId
  /\ coap_token' = coap_token + 1
  /\ UNCHANGED <<udp, socket, answered, handled>>

(* The walk gives up a request nobody has acknowledged (module Coap).      *)
CoapGivesUp(k) ==
  /\ k \in DOMAIN sendlist /\ ~sendlist[k].acked /\ ~sendlist[k].observer
  /\ sendlist' = Without(sendlist, k)
  /\ UNCHANGED <<udp, socket, message_id, coap_token, requested, answered, handled>>

(* External: the server answers a request it has read; what it sends may   *)
(* be lost, repeated and reordered, so it stays on the network.            *)
ServerAnswers(n, a) ==
  /\ Cardinality(answered) < CoapAnswersMax
  /\ LET q == ServerReads(requested[n].bytes)
     IN  answered' = answered \cup
           {[n |-> n, answer |-> a,
             bytes |-> ServerWrites(
               [type |-> a.type, code |-> a.code,
                msgid |-> IF a.type = ACK THEN q.msgid ELSE a.msgid,
                token |-> IF a.code = 0 THEN <<>> ELSE q.token,
                options |-> a.options, payload |-> a.payload])]}
  /\ UNCHANGED <<udp, socket, message_id, coap_token, sendlist, requested, handled>>

-----------------------------------------------------------------------------
(* CoAPMessage_recv of one datagram and CoAPMessage_handle.                *)
First(N) == CHOOSE k \in N : \A j \in N : k <= j

(* CoAPAckMessage_handle: the oldest node with this id.                    *)
ReceivesAck(m) ==
  LET same == {k \in DOMAIN sendlist : sendlist[k].msgid = m.msgid}
  IN  /\ m.code = 0 /\ m.type = ACK
      /\ sendlist' = IF same = {} THEN sendlist
                     ELSE [sendlist EXCEPT ![First(same)].acked = TRUE]
      /\ UNCHANGED handled

(* CoAPRespMessage_handle: a confirmable one is acknowledged, found or not;*)
(* its handler gets it; an observing node stays.                           *)
ReceivesResponse(m) ==
  LET same == {k \in DOMAIN sendlist : sendlist[k].token = m.token}
  IN  /\ m.code \in 64 .. 191
      /\ IF same = {} THEN UNCHANGED <<sendlist, handled>>
         ELSE /\ handled' = handled \cup
                   {[n |-> sendlist[First(same)].n, code |-> m.code, payload |-> m.payload]}
              /\ sendlist' = IF sendlist[First(same)].observer THEN sendlist
                             ELSE Without(sendlist, First(same))

(* Anything else, a reset among them, is dropped.                          *)
CoapReceives(a) ==
  LET m == CoAPDeserialize_Message(a.bytes)
  IN  /\ socket = "open"
      /\ ReceivesAck(m) \/ ReceivesResponse(m)
      /\ UNCHANGED <<udp, socket, message_id, coap_token, requested, answered>>

-----------------------------------------------------------------------------
CoapWireInit ==
  /\ udp \in CoapPorts /\ socket = "none"
  /\ message_id \in FirstIds /\ coap_token = FirstToken(message_id)
  /\ sendlist = <<>> /\ requested = <<>> /\ answered = {} /\ handled = {}

CoapWireNext ==
  \/ CoapConnects
  \/ \E r \in CoapRequests : CoapSends(r)
  \/ \E k \in 1 .. CoapSendsMax : CoapGivesUp(k)
  \/ \E n \in DOMAIN requested, a \in CoapAnswers : ServerAnswers(n, a)
  \/ \E a \in answered : CoapReceives(a)

CoapWireSpec == CoapWireInit /\ [][CoapWireNext]_coapWireVars

-----------------------------------------------------------------------------
(* The types of the variables.                                             *)
CoapWireTypeOK ==
  /\ udp \in CoapPorts
  /\ socket \in {"none", "open", "-1", "closed", "unconnected", "0"}
  /\ message_id \in 1 .. MaxWord /\ coap_token \in Nat
  /\ \A k \in DOMAIN sendlist : sendlist[k].n \in DOMAIN requested
  /\ \A h \in handled : h.n \in DOMAIN requested

(* The server reads of each message what the communication interface asked *)
(* for: the parts of the URI and of the query, the observe option and the  *)
(* payload, in order, in a datagram it can be read from; and it can tell   *)
(* the messages apart, until the ids are used up.                          *)
ServerReadsTheRequest ==
  /\ \A i \in DOMAIN requested :
       LET q == ServerReads(requested[i].bytes)
           r == requested[i].request
           path == Pieces(r.uri, 47)
           query == Pieces(r.query, 38)
       IN  /\ Len(requested[i].bytes) <= MaxPdu
           /\ q.type = CON /\ q.code = r.code /\ q.payload = r.payload
           /\ q.msgid = requested[i].msgid /\ q.token = requested[i].token
           /\ q.options = (IF r.observe THEN <<[num |-> OBSERVE, val |-> <<>>]>> ELSE <<>>)
                            \o [k \in DOMAIN path |-> [num |-> URI_PATH, val |-> path[k]]]
                            \o <<[num |-> CONTENT_FORMAT, val |-> <<50>>]>>
                            \o [k \in DOMAIN query |-> [num |-> URI_QUERY, val |-> query[k]]]
                            \o <<[num |-> ACCEPT, val |-> <<42>>]>>
  /\ \A i, j \in DOMAIN requested :
       i < j => /\ requested[i].token # requested[j].token
                /\ requested[i].msgid # requested[j].msgid \/ requested[j].msgid = 1

(* A handler runs only for an answer to its own request, with the code and *)
(* the payload the server sent, past whatever options stand between; and   *)
(* only what was acknowledged stops being sent again, until the ids are    *)
(* used up.                                                                *)
AnswerFindsItsRequest ==
  /\ \A h \in handled : \E a \in answered :
       a.n = h.n /\ a.answer.code = h.code /\ a.answer.payload = h.payload
  /\ \A k \in DOMAIN sendlist :
       sendlist[k].acked /\ (sendlist[k].msgid # 1 \/ message_id # MaxWord) =>
         \E a \in answered : a.n = sendlist[k].n /\ a.answer.type = ACK /\ a.answer.code = 0

=============================================================================
