# A verification development for the IntoYun IoT kit SDK

TLA+ models, TLC runs and TLAPS proofs for the device SDK in `src/sdk`. The
modules are translated from the code; each definition's source lines are listed
in `PROJECT.json` under `map`, the hazards the properties are aimed at under
`hazards`.

Contents: 1 inventory of the system, 2 the modules, 3 the runs, 4 fairness,
5 the proofs, 6 what is not modelled, 7 observations, 8 what is left.

## 1. Inventory

The SDK runs in one FreeRTOS-like task that calls `IOT_SYSTEM_Loop` again and
again (examples/), but its MQTT client is written for several threads: it has
four mutexes and documents no restriction on who may publish. The parts, the
state each keeps and how they talk to each other:

| Part | Source | State | Talks to | Module |
|---|---|---|---|---|
| MQTT client: publishing | `sdk/comm/mqtt/iotx_mqtt_client.c` | `packet_id`, list of publishes waiting for an ack; `lock_list_pub`, `lock_write_buf`, `lock_generic` | broker, application threads | `MqttPublish` |
| MQTT client: session | the same | `client_state`, ping time and probes, reconnect interval and time | broker through `utils_network`, application events | `MqttSession` |
| MQTT client: subscriptions | the same | list of requests waiting for an ack, `sub_handle` table; `lock_list_sub` | broker, application handlers | `MqttSubscribe` |
| MQTT topics | the same | none | subscriptions, publishing | `MqttTopics` |
| MQTT packets | `sdk/comm/mqtt/MQTTPacket`, `iotx_mc_send_packet`, `iotx_mc_read_packet` | the two buffers | broker | `MqttWire` |
| Communication interface | `sdk/comm-if` | `network_state`, `conn_state`, back-off timer and interval, the client handle | MQTT or CoAP client, guider, cloud modules | `CommIf` |
| CoAP client | `sdk/comm/coap`, `iotx_comm_if_coap.c` | message list with retransmission times, observe list, message id, auth token, heartbeat | server | `Coap` |
| CoAP packets | `sdk/comm/coap/CoAPPacket` | message id, UDP socket | CoAP client | `CoapWire` |
| Guider, payload crypto | `sdk/security` | random string, session keys, `up_packetid` | MQTT client | `Crypto` |
| Datapoints | `sdk/cloud/datapoint` | table of properties (value, change flag, permission, policy), automatic send timer | comm-if, application | `Datapoints` |
| OTA update, HTTP client | `sdk/cloud/otaupdate`, `utils_httpc.c` | FSM, sizes; connection, `retrieve_len`, `is_more` | server | `Ota` |
| Soft timers | `sdk/system/iotx_timer_api.c` | list of timers | application callbacks | `Timers` |
| Keys | `sdk/system/iotx_key_api.c` | one state machine for all keys, recorded key and times | application callbacks | `Keys` |
| System time | `utils_timer.c`, `sdk-impl` | 32-bit millisecond counter | everything | `Clock` |
| Network abstraction, ports | `utils_net.c`, `platform/*/hal_tcp_interface.c`, `hal_udp_interface.c` | handle, socket | MQTT, HTTP, CoAP | `Net`, `CoapWire` |
| Logging | `sdk/log` | levels by tag, cache | everything | `Log` |
| Lists, JSON, digests, ciphers, epoch time, examples | `sdk/utils`, `examples` | none of their own | | not modelled, section 6 |

### Hard behaviour

* Threads. Publishing threads and the yield thread share two lists. The walk over
  the publish list (`MQTTPubInfoProc`) gives up its mutex to retransmit a node
  while it holds an iterator and node pointers; publishers unlink nodes after a
  failed send.
* Delivery. Connections are lost and made again with nodes still in the list;
  acks may be late, lost, or carry a packet id that has been reused.
* Time. Acks time out after twice the request timeout, pings go unanswered,
  reconnections back off; the clock is a wrapping 32-bit counter.
* State that is written by whoever comes last. A publisher that failed on the old
  connection sets `DISCONNECTED` after the yield thread has reconnected.
* Callbacks run under mutexes (subscribe timeouts under `lock_list_sub`,
  UNSUBACK under `lock_generic`).
* Tables with fixed limits: 20 publishes, 30 subscribe requests, 30 handlers,
  50 properties.

### What makes each part correct

* MQTT publishing: no freed node is used or freed twice; an accepted message is
  kept until the broker has it; nothing is resent after its ack; calls return.
* MQTT session: events alternate (connect, disconnect, reconnect); a silent
  connection is given up, a live one is not; reconnection goes on, with its
  interval in bounds.
* MQTT subscriptions: the handler table holds what the application was told is subscribed;
  a request is answered once, and none waits for ever or is dropped unanswered.
* Communication interface: the client handle is used only while the client
  exists; a lost connection is retried with the documented back-off.
* CoAP: a confirmable message is sent a bounded number of times and its caller
  hears of an answer or of the failure; message nodes are not leaked.
* Datapoints: a changed property is sent; a value never leaves its range.
* OTA: the bytes given to the flash and to MD5 are the file's, in order; it ends.
* Timers and keys: a started timer fires again, a one-shot once; a press that starts
  also stops.
* Packets: each side reads what the other one wrote, whatever is cut or too long.
* Payload crypto: what is protected with the keys of a session can be read in it.
* Log: a level set is the level used, cached or not.

## 2. The modules

### MqttPublish (and AtLeastOnce, MqttPublishProofs, MCMqttPublish)

QoS 0 and QoS 1 publishing by any number of application threads, with the one
thread that calls `IOT_MQTT_Yield`.

| Model | Code |
|---|---|
| `client_state`, `packet_id` | the fields of `iotx_mc_client_t` |
| `list_pub`, `msg_id`, `node_state`, `age` | `list_pub_wait_ack` and the fields of `iotx_mc_pub_info_t`; nodes are numbered in push order, so the list is the set of the linked numbers and `prev` is the next smaller one |
| `lock_list_pub`, `lock_write_buf` | the mutexes; the third, `lock_generic`, guards single reads and writes that are one step here |
| `pc`, `req`, `timer`, `iter` | where each thread is, the locals of `iotx_mc_publish`/`MQTTPublish`, the send timers, the locals of `MQTTPubInfoProc` |
| `link`, `c2s`, `s2c`, `received` | the connection, the packets on it, what the broker has; modelled from how the code uses `ipstack` |
| `accepted` | history: the messages whose call returned success |

A step is what happens between two points where another thread can interfere:
taking a mutex, a network call, a state check. `MQTTPubInfoProc`'s loop is one
action per turn (`PubInfoAcked`, `PubInfoSkip`, `PubInfoTimeout`) with the
removal of the node condemned in the previous turn inside it, as in the code.
A failed send is split in two (`SendPublishFail`, `UnlinkPublish`) because the
publisher waits for `lock_list_pub` between them, which is the window the walk's
unlocking opens. Numbers of freed nodes are never used again; this makes every
use after free visible, where reuse of the memory would hide some.

Time: a send returns within its timer, which is started before the wait for the
send buffer, and a thread that must run afterwards runs within `SchedDelay`
ticks. `TimingAssumption` asks `SchedDelay <= RequestTimeout`; it is what keeps
the walk from resending a node that is being unlinked, and the code has no other
protection: with a longer delay `NoDanglingIterator` fails.

Left out: payload encryption (`Crypto`), topic checks (`MqttTopics`), a NULL iterator for lack of memory
(`list_iterator_new`), QoS 2 (refused by the code after it has taken an id).

`AtLeastOnce` is what publishing promises: a message is queued, may be withdrawn
until its caller is told of success, is delivered any number of times and
forgotten only after delivery. `MqttPublish` implements it with the linked nodes
as the queue.

### MqttSession (and MqttSessionProofs, MCMqttSession)

The connection of the MQTT client: construction and release, keepalive and probe
count, read cycle, reconnection with back-off, events.

| Model | Code |
|---|---|
| `client_state`, `keepalive_probes`, `next_ping_time`, `interval`, `next_time` | fields of `iotx_mc_client_t` and its `reconnect_param`; times are ticks left |
| `pc`, `caller` | where the thread that owns the client is; who called `iotx_mc_connect` |
| `PreAuth` .. `PostAuth`, `ConnectFails` | `iotx_mc_connect` with each way of failing |
| `KeepaliveNotDue`, `Ping`, `PingFail`, `KeepaliveReadState`, `DisconnectCallback`, `SetReconnecting`, `StartReconnect`, `ReconnectCallback` | `iotx_mc_keepalive`, `iotx_mc_handle_reconnect` |
| `CycleConnected`, `ReadPacket`, `ReadNothing`, `ReadFail` | `iotx_mc_cycle` |
| `user`, `UserChecksState`, `UserWrites`, `UserDisconnects` | what a publishing or subscribing thread does to the state: checks it, writes, and sets `DISCONNECTED` when the write failed, each at its own time |
| `unanswered`, `silence`, `since_attempt`, `last_event` | history |

`lock_generic` guards single reads and writes of `client_state`, so each of them
is one step; between the read in `iotx_mc_keepalive` and the write that follows
it a user thread may write. `ping_mark` is left out: nothing reads it. The
handlers of the packets that are read are in `MqttPublish` and `MqttSubscribe`, the
packets themselves in `MqttWire`.

### MqttSubscribe (and MqttSubscribeProofs, MCMqttSubscribe)

Subscribe and unsubscribe requests, the list of those that wait for an ack, the
table of topic handlers. The walk over `list_sub_wait_ack` keeps its lock, so it
is one step (`SubInfoProc`) and the list is a set. Packet ids do not wrap, and an id
is the number of its request. `Empty`, the entry without a subscription, is no entry
(`SubscribeAssumption`; the code clears the entry's pointers). A
handler is a callback with its context; an unsubscribe request carries
`NoHandler`, as in `MQTTUnsubscribe`.

An UNSUBACK for a request that has already timed out makes the code compare
handles it has not initialised. The model takes any outcome: no entry, or any one
entry, is removed, and `lost` records which; the outcome "crash" is left out. A broken connection drops what was not yet read. The application's
callbacks do not call back into the client (they would block on mutexes their own
thread holds).

The properties compare the table and the list with what the application was told, kept as
history: the events of each request (`outcome`), the entries it was told are subscribed and
not told are given up since (`subscribed`), the topics it was told are not (`unsubscribed`),
and the requests whose own SUBACK found the table full (`swallowed`). Each exception is of the
one entry or the one request the code treats so, and lasts until the next confirmation:

* `HandlersMatchSubscriptions`: a subscribed entry is in the table, and none is there twice. An
  entry in `lost` is exempt until it is confirmed again; nothing is asked of a topic that was
  unsubscribed, so the property also holds where the code would remove the handler, as
  its comment says it does.
* `RequestsAnsweredOnce`: every request, of either kind, has at most one event, but for the two
  second events the code sends for acks whose request it does not find (TIMEOUT, then NACK for a
  SUBSCRIBE or SUCCESS for an UNSUBSCRIBE); an accepted request without an event waits in the list,
  unless it is in `swallowed`.

### CommIf (and CommIfProofs, MCCommIf)

The communication interface over MQTT and the loop around it. `delay()`, which
the MQTT client calls while it releases a client and after an error in
`IOT_MQTT_Yield`, runs `IOT_SYSTEM_Loop` again, and with it `IOT_Comm_Yield`: the
one SDK task has a `stack` of activations (`loop`, `yield`, `connect`,
`reconnect`, `release`), each with its point of return.

| Model | Code |
|---|---|
| `network_state`, `conn_state`, `reconnect_time_interval`, `reconnect_next_time`, `pclient` | fields of `iotx_conn_info_t` |
| `AppConnect`, `AppDisconnect`, `AppSendFails`, `AppFindsDisconnected`, `AppNetworkDown` | the application's calls between two loops |
| `Loop...` | `IOT_Comm_Yield` and `iotx_conn_handle_reconnect` |
| `Construct...`, `Announced`, `AnnounceFails`, `ConnectFailed` | `iotx_comm_connect` |
| `Release...`, `DelayLoops` | `iotx_mc_release` with its two calls of `delay` |
| `NetworkChanges`, `NetworkLost` | `IOT_Network_SetState`, called from the port's network task; `IOT_Network_IsConnected`, where the interface finds out |
| `asked` | history: whether the application wants the connection ("yes", "no"), or it gave it up and the network was found down since ("network") |
| `heap`, `mc_normal` | which client structures are allocated; `IOT_MQTT_CheckStateNormal` |

`pclient` is not cleared when its client is destroyed. A use of a freed client,
and an address handed out again while a stale pointer to it exists, set
`undefined` and may then have any outcome a live client could have had; a crash is
left out. `MaxNest` bounds the nested activations; a deeper `delay()` does nothing.
The address of a client nothing points to any more (the code loses some) is made
available again. A call of `delay` runs the loop any number of times, one after the
other (`ReleaseDelays`); `ReleaseDisconnects` and `ReleaseFrees` are what comes after the two
calls of a release, `YieldEnds` what comes after the one of a yield.

`NoUnaskedReconnect` names its one exception: a network that is found down after an explicit
disconnection makes the interface reconnect (`asked = "network"`), since
`IOT_Network_IsConnected` writes `DISCONNECTED` over any state. `ConnectedHasLiveClient` speaks of
the time before the first use of a freed client.

### Coap (and CoapProofs, MCCoap)

The list of sent messages with retransmission (`CoAPMessage.c`), and the session
over it: authentication, the two observing requests and the info message it
triggers, data, heartbeat, renewed authentication. Messages are numbered; the
number stands for the token and the message id (ids are not used up), the list is
the set of linked numbers in order. `Walk` is `CoAPMessage_cycle`'s walk, which
ends at the first node it removes. The network is the set of all that was sent:
any of it may be acknowledged or answered at any later time, any number of times.
The code checks its list limit by comparing addresses, so there is none here
either. `iotx_comm_disconnect` of this channel is left out: it passes the client
where its address is expected, and what it then frees is undefined.

### Datapoints (and DatapointsProofs, MCDatapoints)

The table of datapoints, the writes by application and platform, the two transmit
modes and the messages. `Written` is the common text of the six `writeDatapoint`
functions; `Compared` and `Stored` are where they differ (an int is compared before
and stored after the limits, a double compared before and stored after rounding).
`Formed` and `Parsed` are what a value becomes in a message; the bytes around it are
left out. Values are counted in half units of a double's resolution so that
rounding shows. `dataType` is part of the program and fixed in `Init`. A change flag
starts with whatever `malloc` returned. `Reset` is the message that reboots the
device: the table is built again, while messages already sent travel on.

Messages may be lost, repeated and reordered, which covers both channels: QoS 0
publishes of MQTT (in order, may be lost) and confirmable CoAP requests
(retransmitted, so an old one may arrive after a new one).

`ChangeIsFlagged` compares the table with `sent`, the values handed to the network, which a
transmission that fails does not change. Its exceptions are history of their own: `failed`, the
points whose value was in a `SendAll` that failed after it had cleared the flags, and `unmarked`,
those that were written a second time or defined with a clear flag. A point leaves both when it
gets a new value or is handed over. A message with a number that is not defined reads past the
table (`UndefinedNumberRead`): the device may go on or start again.

Two things the model shows that no statement in the repository forbids: a second
write of the same value clears the flag of a change not yet sent, so the platform
learns of it only after the automatic interval (ten minutes at least) and never in
manual mode; the default value of a number may lie outside its limits.

### The parts without shared state (MCParts, PartsProofs, StreamProofs, CoapProofs)

The ten modules that follow share no state with another module. `MCParts` extends all of
them and checks them in one run: the variable `part` says which one a behaviour runs, the
others stay where they start. They have names of their own for that (`NetNext`,
`TimersInit`).

**`Ota`**: the update task (`IOT_OTA_Init`, `IOT_OTA_Update`, `IOT_OTA_Deinit`) over
`httpclient_common`. A byte of the response is a token; a line of its head and the size
line of a chunk are one token each. `OtaRequest` is the connection and the request,
`OtaFirst` and `OtaHead` the first read and the head, `OtaUnknown`, `OtaSize`, `OtaCopy` and
`OtaTrailer` the ways of reading the content, `OtaFetched` what the task does with a result.
Each read gets any part of what has come, nothing, or an error. A chunk whose last byte is
also the last one in the buffer fails, as the code looks for the line's end only behind it in what
it has read. The server may announce
the length, send chunks, do neither, or never end the head; `good` is false when its file
is another than the announced one. MD5 is external: it tells the announced file from every
other.

**`Net`**: `utils_net.c` over the TCP ports. A port is a record of what it returns; `ReadReturns`
is the end of `HAL_TCP_Read`, where data goes before an error. The actions of the peer
come between the `select`s of a read.

**`Clock`**: deadlines (`iotx_time_t`) and timers with a start and a length (`timerGetId`,
`timerIsEnd`, `delay`), one wait at a time on a counter of `ClockRange` values.

**`Timers`**: the list walked by `IOT_TIMER_Loop`, one node a step; while a callback runs
(`in_cb`) every other operation may be called. `asked` is history.

**`Keys`**: the state machine of `IOT_KEY_Loop` for several keys with any of them pressed,
times as ages. `held` (who expects a stop) and `mixed` (two keys' presses overlapped)
are history.

**`MqttWire`**: packets as bytes, in both directions: `MQTTSerialize_...`, `MQTTDeserialize_...`,
`iotx_mc_send_packet` with writes that end short, `iotx_mc_read_packet` with packets cut short
and packets longer than the buffer. `BrokerReads` and `BrokerBytes` are the broker, after the
protocol. `waits` says whether a write that ends short has used up its time; `CutAt` are the
numbers of bytes after which a read or a write may end (any set in the proofs).
`ReadPacketTooLong` also takes the turn that goes on, since the packet type is not initialised,
into the handler of a PUBLISH with the front of the packet, and acknowledges it with the id that
is there or, where the buffer ends before, with one of `StrayIds`.
`WireAssumption` says what the packets are: a string has the 16 bits of its length (topics have
128 characters at most, `IOTX_MC_TOPIC_NAME_MAX_LEN`), what fits the send buffer and what the
broker publishes has a remaining length of four digits. Loops are closed forms or recursive
functions: the digits of a length by their weights (`Weight`), `RemainingLength` by turns.

**`MqttTopics`**: `iotx_mc_check_topic`, `iotx_mc_is_topic_matched` and the choice of the handler,
with a topic as a sequence of characters. `Levels` splits a topic from its end, one character
(`Before`) at a time; the matching is the table of the two cursors' positions (`EndOfLevel`: the
inner loop that passes over a level). `Covers` is the protocol's rule, by levels;
`EmptyUnderWildcard` are the names with an empty level where the filter has a wildcard, which
the code does not match. Empty levels the filter has too are matched, and
`HandlerOfCoveringFilter` asks for it.

**`CoapWire`**: options, header and payload as bytes, the requests `iotx_comm_if_coap.c` makes,
the search for an answer's request by token and of an ack's by message id, and the UDP
sockets of the five ports. `ServerReads` and `ServerWrites` are the server, after the protocol.
The loops of the code (`CoAPSerialize_Options`, `CoAPDeserialize_Options`, the walk over a URI,
the server's reading) are recursive functions of the number of turns. Two assumptions name
what the buffers of the code take: `RequestsFit` (options for sixteen places, a length that
the `unsigned short` of `CoAPSerialize_MessageLength` holds, a request without payload below the
buffer's size) and `AnswersFit`. When messages are sent again is in `Coap`.

**`Crypto`**: the yield thread authenticates and makes the keys for every connection,
publishers protect what they send, and share `iotx_conn_info_t` without a lock: the
increment of `up_packetid`, the header, the encryption and the MIC are separate steps. A key
is the number of its session, a protected byte the block of key stream that lies on it
(`Covered` follows the `uint8_t` offset).

**`Log`**: levels by the text of a tag, with the cache by its address, a heap that
`heap_bubble_down` keeps. `LogText` lets two addresses say the same text. The mutex covers
each operation.

## 3. The runs

| Run | Instance | Shows |
|---|---|---|
| `mqtt_publish_safety` | 2 publishers, 3 calls of QoS 0 or 1, list of 2, ids up to 3, timeout 1, one lost connection; publishers symmetric | `TypeOK` with the list's limit, no dangling iterator, no double free, accepted messages kept, nothing resent after its ack, refinement of `AtLeastOnce` |
| `mqtt_publish_live` | 1 publisher, 2 calls, list of 1, one lost connection, `FairSpec` | every call returns, every accepted message reaches the broker |
| `mqtt_publish_wrap` | 4 calls, ids up to 3, no lost connection | violation: two waiting publishes with the same packet id |
| `mqtt_session` | 2 user threads, keepalive 2, 2 probes, intervals 1 to 3 | a silent connection is given up in time, no socket leaks, events in order, attempts keep their distance, a lost connection is made again |
| `mqtt_session_probes` | 1 user thread, 3 probes as in the code | violation: a connection given up before its own pings went unanswered |
| `mqtt_subscribe` | 3 requests out of 4 kinds, table of 2, list of 2, one lost connection | a failed sender finds its node, the handler table agrees with the events, every request is answered once and none forgotten |
| `mqtt_unsubscribe` | 2 requests | violation: an unsubscribed topic keeps its handler |
| `comm_if` | 2 client addresses, 2 nested loops, intervals 1 to 2, `FairSpec` | `CONNECTED` guards the client handle, events match the state, a connection given up comes back only after a lost network, a lost connection is made again |
| `comm_if_nested` | the same with intervals 1 to 3 | violation: a nested loop starts an attempt during an attempt |
| `coap` | 4 messages, ack timeout 1, span 3, 4 retries, `FairSpec` | a handler runs once, no request is given up early, nothing is sent after its answer, unacknowledged requests end |
| `datapoints` | 1 point of any kind, two inputs, limits 0 to 2, 2 messages on their way, `FairSpec` | a value that was not handed to the network is marked, but for the named ways of losing the mark; the platform ends up with the value |
| `parts` | one part at a time, below | the properties of the ten parts |

What `parts` shows:

| Property | Part | Instance |
|---|---|---|
| `OtaInOrder`, `OtaEnds` | `Ota` | eight servers with files of 2 to 8 bytes, announced sizes 4 and 5, result buffer 5, read buffer 5, chunks of 2, up to 12 unread bytes |
| `NetBytesReported` | `Net` | the five ports, 3 bytes, reads of 1 and 3 |
| `ClockRight` | `Clock` | a counter of 16, waits from 0 to 15, looked at up to 20 ticks later |
| `OneShotOnce`, `TimerFires` | `Timers` | 2 timers, periods 1 and 3, ticks modulo 6 |
| `LongPressEnds` | `Keys` | a key with clicks and one with long presses, steps of 1 and 2 ms, debounce 1, click 4, press 3 |
| `ConnectionInStep` | `MqttWire` | up to 4 packets of 19 kinds, on both sides of the remaining length 127 and of the buffers (132 and 16); reads and writes that end after 0, 1, 3, 6, 11, 16, 64 or 130 bytes |
| `HandlerOfCoveringFilter` | `MqttTopics` | every filter over 5 characters and every name over 3, up to 4 characters, limit 5 |
| `ServerReadsTheRequest`, `AnswerFindsItsRequest` | `CoapWire` | 2 requests, 1 answer of 5 kinds, ids from 1 and from 65534, PDU 97, the five ports |
| `PayloadsRead` | `Crypto` | 2 publishers, 2 sessions, 2 messages, the three modes, blocks of 2, offset modulo 6, lengths 5 and 7, ids modulo 2 |
| `CacheFollowsLevels` | `Log` | 4 tags, two of them with one text, a cache of 3, 5 lookups |

`PartsTypeOK` is the conjunction of the parts' type invariants. It and the type invariants of
`MqttPublish`, `MqttSession`, `MqttSubscribe` and `Coap` are theorems (section 5). Those of
`CommIf` and `Datapoints` belong to no run: the proofs use the weaker `VarTypes` and `TableType`.

Why the bounds are enough.

* Publishing: two publishers are needed for a failing sender to meet another one and
  the walk; three nodes in a list of two make the list full, make a walk with a
  predecessor, and let a node be pushed during a walk; one lost connection makes sends
  and retransmissions fail and lets every message be sent on two connections. A tick
  is a request timeout, so ages 0 to 3 tell apart "in time", "at the limit" and "late"
  for both timeouts used.
* Session: the connections and pings are not bounded at all; two probes and a
  keepalive of two ticks tell "at the limit" from "past it"; two user threads let a
  late `DISCONNECTED` meet another one.
* Subscriptions: three different entries for a table of two make it full, and four
  kinds of request repeat a topic with the same and with another handler.
* Communication interface: with two nested loops an inner attempt may destroy what
  the outer one is working on and be interrupted itself; a second address is needed
  for a client made while another one still exists.
* CoAP: an authentication triggers three requests, so four messages let all of them
  be walked, answered and repeated together; with timeouts 1, 2 and 4 and a span of 3 a
  request is sent again and given up by the span. The other limit, four retries, is
  never reached before the span, here as with the code's 2 and 10.
* Datapoints: two inputs, one outside the limits and odd, show clamping, rounding and
  the width of an enum; two messages on their way are enough for one to overtake.
* OTA: a file of 8 takes three fetches into a buffer that holds 4 bytes and a zero, and the
  reads of up to 4 bytes cut head, chunk lines and content at every place; a response may queue
  behind another one. The responses a server sends ahead are bounded by `OtaMaxWire`: a
  request made while 12 bytes are unread gets no answer of its own.
* Clock: the properties depend on differences modulo the range, so every relation of
  deadline, wait and lateness to the range and to its half occurs with 16 values.
* Timers and keys: two timers make one of them the caller and the other one before or
  after it in the list; two keys are enough for presses to overlap.
* Packets: the lengths around which the encoding of a length, the option header or a
  buffer check changes are all there.
* Crypto: two sessions and two overlapping publishers give every mixture of old and new
  keys and ids; 7 bytes are one more than the offset modulo 6 counts.
* Log: a cache of 3 is a heap with two children; four tags make it full and replace an entry.

The violation runs document divergences, listed in `PROJECT.json` with the lines.
`mqtt_publish_wrap`: `iotx_mqtt_api.h` promises a unique id for each publish, the
counter wraps without looking at the ids in use (65535 publishes have to pass while
one waits, so the instance uses a small `PacketIdMax`). `mqtt_session_probes`: the
count of unanswered pings is not cleared when a connection is made again, so a fresh
one may be given up after its first ping. `mqtt_unsubscribe`: UNSUBACK compares the
callback with NULL and never removes an entry. `comm_if_nested`: releasing a client
runs the loop, which finds the reconnect time still past and starts another attempt
at once, against the minimum interval of the header.

## 4. Fairness

Safety needs none. Liveness assumes:

* `MqttPublish`: `ThreadFairness`, each thread inside the SDK is scheduled and a mutex
  goes to a waiter that finds it free again and again; an application is not obliged to
  publish. `NetworkFairness`: a connection attempt, a CONNACK, a retransmission and a
  delivery that are possible again and again happen; a dead connection is noticed.
  Nothing is assumed about acks, so the property asks for delivery, not for the node
  to leave the list.
* `MqttSession`: the owning thread runs, time passes, a thread whose write failed gets
  to say so (weak); each step of a connection attempt succeeds if it is tried again and
  again (strong), else no client could ever connect.
* `CommIf`: the application keeps calling the loop, as every example does, and the SDK's
  task runs (weak); a yield ends, because its timer does, although errors may prolong
  it, and so does a `delay`, whatever loops it runs (strong); an attempt tried again and again succeeds once (strong). The network
  may come and go: `Recovers` ends when it goes.
* `Coap`: the walk is made again and again (weak). Nothing is assumed about answers.
* `Datapoints`: the loop and the clock run; of the transmissions tried for ever some are
  handed over, and of a message sent for ever some copy is delivered (strong). Without
  the second a network that loses everything would do.
* `Ota`: the update task runs (weak); a first read that is made again and again gets the
  status line once (strong), as the fetch is repeated without a limit when it gets nothing.
* `Timers`: the application calls the loop, the walk goes on, a callback returns (weak).
  `MCParts` states both for the part that runs (`PartsFairness`).

## 5. The proofs

Each proof module extends its component, holds for every value of the constants that
satisfies the component's named assumptions, and proves an inductive invariant from
which the properties follow.

`MqttPublishProofs`:

| Theorem | Statement |
|---|---|
| `TypeCorrect` | `Spec => []TypeOK`, including the list's length limit |
| `InvHolds` | the inductive invariant `IInv` |
| `NoDanglingIteratorHolds`, `NoDoubleFreeHolds`, `AcceptedNotLostHolds` | the safety invariants of the run |
| `NoResendAfterAckHolds` | the action property |
| `ImplementsAtLeastOnceHolds` | the refinement |

All but `TypeCorrect` assume `MaxRequests <= PacketIdMax`: the packet ids have not
wrapped. Without it they are false, as an ack could then mark a node it does not
belong to.

The safety invariants are not inductive: nothing in "the iterator's next is
linked" says that the node a publisher is about to unlink is another one. `IInv`
adds

* `LockInv`, `CallInv`: who must hold which mutex, and what each caller's locals are;
* `InFlightInv`: a node between push and successful send is the newest one, is
  not acknowledged, and its age plus its publisher's timer is at most the request
  timeout (plus `SchedDelay` while it is being unlinked);
* `IterInv`: the iterator's nodes are linked and ordered, the condemned one is
  acknowledged, the one being resent has been accepted;
* `AckInv`, `NetInv`, `IdInv`: an ack on its way or processed means the broker has
  the message, and ids of pushed nodes differ.

The step that matters is `TimeoutKeeps`: a node older than two request timeouts
cannot be in flight, hence its caller has been told of success and will not
unlink it while the walk writes it.

`MqttSessionProofs`:

| Theorem | Statement |
|---|---|
| `TypeCorrect` | `Spec => []TypeOK` |
| `SocketsClosed` | `Spec => []NoSocketLeak` |
| `EventsInTurn` | `Spec => ReconnectFollowsDisconnect` |
| `AttemptsApart` | `Spec => NoReconnectStorm` |
| `SilenceBounded` | `Spec => []SilentLinkGivenUp` |

`IInv` says in which phases an attempt may be under way and who began it (`Phase`), where a
socket is open (`Socket`), which event was the last one at each point (`Events`), and that the
back-off timer and the time since the last attempt make up the minimum interval
(`Backoff`). `Silence` is the argument about time: `silence + next_ping_time` is at most what the
pings not yet counted leave of the limit. A ping moves a keepalive period from one side to
the other; other threads' writes change neither.

`MqttSubscribeProofs`:

| Theorem | Statement |
|---|---|
| `TypeCorrect` | `Spec => []TypeOK` |
| `NodeStillThere` | `Spec => []UnlinkFindsNode` |
| `HandlersInTable` | `Spec => []HandlersMatchSubscriptions` |
| `OneAnswer` | `Spec => []RequestsAnsweredOnce` |

Both of the last two hold of each entry and each request but the ones the properties name.
The invariant follows a packet id: not yet accepted (`Fresh`), in the hands of one thread
(`Owners`), on the connection once at most (`Distinct`), answered (`Answers`). `Times` is the bound
that keeps the walk from timing out a node whose sender still works on it, as in
`MqttPublish`.

`CommIfProofs`:

| Theorem | Statement |
|---|---|
| `ConnectedIsLive` | `Spec => []ConnectedHasLiveClient` |
| `EventsInStep` | `Spec => []EventsMatchState` |
| `OnlyWantedReconnects` | `Spec => NoUnaskedReconnect` |

The invariant is about the stack: only its top frame may hold a client that is not
announced yet or a reconnection that has just succeeded; every reconnection stands on
a loop; a client that is being released is not the one in use. The last holds until a freed
client has been used (`undefined`), as `ConnectedHasLiveClient` says. For `OnlyWantedReconnects` it
also says that whatever makes the loop reconnect, a state or an attempt under way, has a reason
(`Reason`): the application wants the connection, or the network was found down since it gave
it up. The theorem claims nothing of a connection that a lost network brings back.

`CoapProofs`, first of `Coap` for any time-outs that satisfy `RetryAssumption`:

| Theorem | Statement |
|---|---|
| `HandledOnce` | `Spec => [](TypeOK /\ HandlerRunsOnce)` |
| `NothingResent` | `Spec => NothingSentAfterAnswer` |
| `NotDroppedEarly` | `LongEnough => (Spec => NotGivenUpEarly)` |

`HandlerRunsOnce` alone is not inductive: it does not say that a linked request has
not been answered yet. `Unanswered` does, and `NumberedInOrder` says that the number
of a new message was no other message's. That a time-out stays within the span needs
the walk's test *after* the doubling: a node that would leave it is given up. A linked
node has waited at least all its earlier time-outs, which double, so that one dropped for its
retries has waited for the span if `AckTimeout` doubled `MaxRetry` times reaches it (`LongEnough`);
`CodeIsLongEnough` proves that of the time-out 2, the span 10 and the 4 retries of `CoAPMessage.c`.

And of `CoapWire`, for any device id, password, tokens, payloads and options:

| Theorem | Statement |
|---|---|
| `RequestsAreRead` | `CoapWireSpec => []ServerReadsTheRequest` |
| `AnswersFindTheirs` | `CoapWireSpec => []AnswerFindsItsRequest` |

Most of the argument is about the bytes. The loops are recursive functions of the number of
turns; what a turn keeps holds after all of them (`Stays`, from the least number of turns at
which it would fail). `OptionRead`: in whatever place an option's bytes stand, the client's
`CoAPDeserialize_OptionSize` and the server step over exactly them, and the server gets the
number and the value that went in; this is where 13, 14 and 269 have to agree between
`CoAPSerialize_Option` and its readers. `OptionsLaid` puts the options one after the other,
`OptionsSkipped` and `OptionsRead` walk them to the payload mark, which no option's first byte is
equal to, and `DatagramRead` takes a whole message apart. `WantedRises` says that the client
adds its options in the order of their numbers, without which a distance would be
negative. The inductive invariant `WireInv` then follows ids and tokens: every node and every
answer carries those of its request, tokens differ (`TokensDiffer`), and ids differ until
they are used up, when every further message has id 1.

`DatapointsProofs`:

| Theorem | Statement |
|---|---|
| `ChangesFlagged` | `Spec => [](TableType /\ ChangeIsFlagged)` |

`TableType` is the shape of the table, all the argument needs. `sent` changes only in the steps in
which a message is handed over, so that a transmission that fails leaves the point flagged, or in
`failed` if it was a `SendAll`'s. `TypeOK`, with the limits of
the numbers, is not proved: it is false where `MinValue` is not a multiple of the resolution, as
the conversion to `int32_t` then takes the least double below its limit.

`PartsProofs`, each of the specification of its part, and the last one of all the parts together:

| Theorem | Statement |
|---|---|
| `NetBytesKept` | `NetSpec => []NetBytesReported`: needs that no port gives a positive value for an error |
| `ClockNeverWrong` | `ClockSpec => []ClockRight`, for a counter of any even range |
| `OneShotsRunOnce` | `TimersSpec => []OneShotOnce`: a started one-shot was started after its last callback, which needs that no two nodes have one number |
| `LongPressesEnd` | `KeysSpec => []LongPressEnds`: as long as no two presses overlap, a key that waits for its stop is the recorded one in a running press, or has a double click |
| `EveryPayloadRead` | `CryptoSpec => []PayloadsRead`, for any publishers and any widths (`CryptoAssumption`): an undisturbed protection is the only one under way, and its keys are those of the session the cloud knows; a payload up to the offset's range is covered block by block (`WholePayloadCovered`) |
| `CacheInStep` | `LogSpec => []CacheFollowsLevels`, for a cache of any odd size: the heap on the generations holds again when `heap_bubble_down` has moved the refreshed entry down, so that the entry given up is the one looked up the longest time ago; a cached level is the one set last where no other tag has its text |
| `PartsTypeCorrect` | `PartsSpec => []PartsTypeOK`, for any values of all the parts' constants |

`PartsIInv` conjoins the invariants of the ten parts with what their types need beside them: the
ages of the keys and what is recorded (`KeyTimes`), the counters of `Crypto` and `Log`, the lists of
`CoapWire` (`CoapNodes`: every node and every answer handled is of a request that was written). A
step of `PartsNext` is a step or a stutter of every part (`PartsSteps`), so each conjunct is kept by
the lemma of its part.

`StreamProofs`, what one side writes and the other side reads. Of `Ota`, for any file, any sizes
of buffers and chunks and any splitting of the response, of `MqttWire`, for any packets and
any sizes of the two buffers that satisfy `WireAssumption`, and of `MqttTopics`, for any characters
and any lengths of filters and names:

| Theorem | Statement |
|---|---|
| `FirmwareInOrder` | `OtaSpec => []OtaInOrder` |
| `OtaTypeCorrect` | `OtaSpec => []OtaTypeOK` |
| `ConnectionIsRead` | `WireSpec => []ConnectionInStep` |
| `WireTypeCorrect` | `WireSpec => []WireTypeOK` |
| `HandlerFound` | `TopicsSpec => []HandlerOfCoveringFilter` |

The invariant of `Ota` says that what has been read into the buffer, followed by what is still
unread on the connection, goes on with the response at the place that the two lengths kept from
call to call say. It holds through a fetch that fails and one that asks for the file again while
an earlier response is still to be read.

`OtaTypeCorrect` is about every server, also one that sends chunks, announces no length, or never
ends its head: the lengths of `httpclient_data_t` stay natural numbers and the two buffers keep the
byte of their terminating zero. `OtaTyped` needs two facts about the order of the calls: a copy under
way has the length of the content still to come (`readLen`), and a response in chunks has a length as
long as the update goes on (`ChunksCounted`), so that adding a chunk's length to it never starts
from -1.

The argument for `MqttWire` starts with one packet. `FrameRead`: a first byte, a length and a body
are read back as such whatever follows them, which is where `MQTTPacket_encode` and
`MQTTPacket_decode` have to agree on one to four digits (`LengthBytesRead`, `RemainingRead`).
`Writable` says of a packet of the client that the length it reserves is that of its body and
that the broker reads it back, `ReadsBack` of a packet of the broker that the client's
deserializer does; there is a lemma for each type of packet. Then come the streams. On the way
up, the packets sent lie one behind the other (`Carried`), with nothing after the last one as long
as the connection is in use, and `CarriedParsed` reads them off from the front. On the way down, what is unread is the packets
pushed and not yet seen (`DownRight`), so that the next packet read is the first of these
(`NextArrival`); a packet that is too long is taken off to its end and counts as one. The way up
is claimed as long as `waits` holds and no acknowledgement was cut short, as in the property:
both are ways in which the code itself loses step. Where reads and writes end short is any set
(`CutAt`), and an acknowledgement of a PUBLISH that was dropped is one more packet of the client.

For `MqttTopics` the invariant is short (`TopicsIInv`: both topics passed their checks, and the
matching chose the handler), and the argument is about one run of the matching loop against
the levels. Both are followed from the ends of the two topics forwards (`Backwards`): `Down` is the
list of the levels from each position on, `Rows` the table of the matching. A character in front
of two ends changes both lists in a known way, one lemma for each kind: `SlashInFront`,
`CharInFront`, `PlusInFront`, `HashCovers`. Hence whatever is matched is covered (`MatchedCovers`).
The other direction carries along that no level of the name is empty that a wildcard of the filter
meets, and that the name has as many levels as the filter (`Wanted`, `CoveredMatched`): these are
the two exceptions of the property. An empty level the filter has too is one more "/" for both
cursors.
What the argument needs of the filter is that a wildcard stands alone in its level
(`CheckedFilter`, which `iotx_mc_check_topic` gives only when it looks at the whole filter), and of
the name that no "#" is in front of another character (`CheckedName`).

What is only model-checked: liveness, which is out of TLAPS's reach. Every other property of the
passing runs is a theorem.

## 6. What is not modelled

* Lists (`lite-list.h`, `utils_list.c`, `utils_queue.h`): modelled where they are used, as the set or
  the sequence of linked nodes.
* JSON, AES, MD5, SHA, HMAC, base64: functions of their input without state, taken from
  elsewhere; test vectors say more than a small instance. Where a model needs them it has
  what they are for (`Crypto` and `Ota`: what is protected with a key is read with the same
  key, the digest tells two files apart).
* Epoch conversion, device information, hex dumps and log output: no control.
* `utils_httpc.c` beyond what OTA uses (POST, basic authentication, one-shot helpers), TLS (the
  port's functions are not in the repository), mutexes and tasks of the ports (single
  steps of the models that use them), examples.
* `iotx_comm_disconnect` of the CoAP channel, which frees the wrong pointer: nothing is
  defined after it.
* Undefined behaviour is a nondeterministic choice among the outcomes that leave the
  program running; crashes as such are not modelled.

## 7. Observations

Behaviour met while modelling that no statement in the repository contradicts, so that no
run calls it a violation. The properties state what holds beside it.

* A client whose deadlines are not looked at for half the range of the counter (25 days)
  takes them as still to come (`ClockRight`).
* `HAL_TCP_Establish` returns 0 for failures on most ports, and `utils_net.c` takes only a negative
  handle for a failure; `HAL_TCP_Destroy` keeps the socket open when `shutdown` fails (`Net`).
  The UDP ports do the same with other values (`CoapWire`).
* `iotx_mc_send_packet` repeats a write that ended short with the whole length, past the end of
  the packet (`waits`); a PUBACK that is cut short leaves the connection in use (`ack_cut`); the
  packet type is not initialised when a packet is too long for the buffer, so that a handler
may run on the front of the packet and a PUBLISH that was dropped be acknowledged, even with an id
read from behind the buffer (`MqttWire`). The handlers of PUBACK and UNSUBACK do not look at the
type in the buffer: on this path they take an id from it that is not theirs.
* A filter `a/#` does not match the topic `a`, wildcards do not match empty levels, and the
  last character of a topic of the greatest length is not checked (`MqttTopics`).
* After 65534 messages CoAP's message id stays: it is 1 for every further message, and an
  acknowledgement goes to the oldest request with that id. The list limit compares two
  addresses and never applies (`CoapWire`, `Coap`).
* The length of a CoAP message is an `unsigned short`: with nearly 65536 bytes of data it wraps,
  passes the check, and the request goes out without its payload and its last byte.
  `RequestsFit` leaves such data out.
* A double click runs the start callback of its key too and no stop follows; presses of
  several keys share one state machine (`Keys`).
* The offset into a payload is a `uint8_t`, so payloads above 256 bytes have blocks that stay
  plain or are encrypted twice; two publishers that protect at the same time may use one id
  twice; the results of the up and down processes are ignored, and without memory a
  payload goes out unprotected (`Crypto`).
* Two files log as `sdk:httpc`; setting that level changes only the first of their cache entries
  (`Log`).
* A network found down after `IOT_Comm_Disconnect` brings the connection back; loops nested in
  `delay` release a client a second time; the client handle dangles after every failed attempt
  and every disconnection (`CommIf`).
* An ack whose request is not found is reported all the same, so that a refused SUBSCRIBE or an
  UNSUBSCRIBE may get a second event after its timeout; a SUBACK that finds the table full gets
  none (`MqttSubscribe`).
* A `SendAll` that fails has cleared the flags: nothing marks the values it carried, and in manual
  mode nothing sends them again. A message with an undefined number reads past the table
  (`Datapoints`).
* A server that stays silent, or whose file is shorter than announced, is asked again without a
  limit; a chunk that ends with the buffer is taken for a format error (`Ota`).
* A timer started again by its own one-shot callback is stopped after it (`Timers`).

## 8. What is left

* The composition of `CommIf` and `Datapoints` (a connection lost between the clearing of the
  flags and the transmission), which now meet only in `Datapoints`' failed transmissions.
* An abstract session (down, connecting, up, each change reported once) implemented by
  `MqttSession` and by `CommIf`; a register whose copy at the platform converges, implemented by
  `Datapoints`.
