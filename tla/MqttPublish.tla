---------------------------- MODULE MqttPublish ----------------------------
(***************************************************************************)
(* QoS 1 publishing of the MQTT client (sdk/comm/mqtt/iotx_mqtt_client.c):  *)
(* application threads that call IOT_MQTT_Publish and the one thread that   *)
(* calls IOT_MQTT_Yield share the list of publishes that wait for a PUBACK. *)
(*                                                                         *)
(* The list is protected by lock_list_pub, the send buffer and the socket   *)
(* by lock_write_buf.  MQTTPubInfoProc walks the list from its tail with an *)
(* iterator that already holds the pointer to the next node, and gives up   *)
(* lock_list_pub while it retransmits a node, so a publisher whose send     *)
(* fails can unlink (and free) a node while the walk is in progress.        *)
(*                                                                         *)
(* list_rpush is the only insertion, so the nodes are numbered in push      *)
(* order and the list is the SET of the numbers still linked: its tail is   *)
(* the largest, the predecessor of n the largest below n.  A freed node's   *)
(* number is never used again, which makes a use after free visible.        *)
(***************************************************************************)
EXTENDS Integers, FiniteSets

CONSTANTS
    Publishers,      \* application threads that call IOT_MQTT_Publish
    Yielder,         \* the thread that calls IOT_MQTT_Yield
    Nobody,          \* the owner of a free mutex
    QosLevels,       \* the QoS levels the application publishes with
    RepubMax,        \* IOTX_MC_REPUB_NUM_MAX: length limit of list_pub_wait_ack
    PacketIdMax,     \* IOTX_MC_PACKET_ID_MAX: packet ids wrap to 1 after it
    RequestTimeout,  \* request_timeout_ms, in ticks
    SchedDelay,      \* ticks a thread may be kept from running after a failed send
    ReconnectOpen,   \* reconnect_open: IOT_MQTT_Yield reconnects by itself
    MaxRequests,     \* bound: calls of IOT_MQTT_Publish in a behaviour
    MaxBreaks        \* bound: connections lost in a behaviour

Threads == Publishers \cup {Yielder}

ASSUME ThreadsAssumption == /\ Yielder \notin Publishers
                            /\ Nobody \notin Threads
ASSUME QosAssumption == QosLevels \subseteq {0, 1}
ASSUME LimitsAssumption == /\ RepubMax \in Nat \ {0}
                           /\ PacketIdMax \in Nat \ {0}
                           /\ MaxRequests \in Nat
                           /\ MaxBreaks \in Nat
                           /\ ReconnectOpen \in BOOLEAN
\* A write returns within the request timeout (its timeout argument is the
\* time left); a thread that must run afterwards runs within one more.
ASSUME TimingAssumption == /\ RequestTimeout \in Nat \ {0}
                           /\ SchedDelay \in Nat
                           /\ SchedDelay <= RequestTimeout

Null  == 0                        \* the NULL node pointer
Nodes == 1 .. MaxRequests         \* list nodes in the order they are pushed
Ids   == 0 .. PacketIdMax
AgeMax == 2 * RequestTimeout + 1  \* ages above the ack timeout are not told apart

VARIABLES
    client_state,    \* iotx_mc_client_t.client_state
    packet_id,       \* iotx_mc_client_t.packet_id: the last id handed out
    list_pub,        \* the nodes linked in list_pub_wait_ack
    msg_id,          \* per node: iotx_mc_pub_info_t.msg_id
    node_state,      \* per node: iotx_mc_pub_info_t.node_state
    age,             \* per node: ticks since pub_start_time
    pushed,          \* number of nodes pushed so far
    lock_list_pub,   \* owner of the mutex
    lock_write_buf,  \* owner of the mutex
    pc,              \* per thread: where it is in the code
    req,             \* per publisher: the call in progress [qos, id, node]
    timer,           \* per thread: ticks left of its send timer
    iter,            \* MQTTPubInfoProc's locals [next, node, temp]
    link,            \* the connection: "up", "broken", "closed" or "tcp"
    c2s,             \* nodes whose PUBLISH is in flight to the broker
    s2c,             \* packet ids of the PUBACKs in flight to the client
    received,        \* nodes whose PUBLISH the broker has received
    accepted,        \* nodes whose IOT_MQTT_Publish returned success
    requests,        \* number of calls of IOT_MQTT_Publish so far
    breaks           \* number of connections lost so far

client   == <<client_state, packet_id>>
heap     == <<list_pub, msg_id, node_state, age, pushed>>
locks    == <<lock_list_pub, lock_write_buf>>
network  == <<link, c2s, s2c, received>>
counters == <<requests, breaks>>
vars == <<client, heap, locks, pc, req, timer, iter, network, accepted, counters>>

PublisherLocs == {"idle", "lock", "push", "send", "unlink", "fail"}
YielderLocs   == {"keepalive", "connect", "connack", "cycle", "proc", "iter",
                  "relock", "resend", "resent", "lost"}
-----------------------------------------------------------------------------
(* The list and its iterator (sdk/utils/misc/utils_list.c).                  *)

\* The value list_iterator_new(list, LIST_TAIL) starts with.
IsTail(n) == \/ n = Null /\ list_pub = {}
             \/ n \in list_pub /\ \A k \in list_pub : k <= n

\* The prev pointer of the linked node n.
IsPrev(k, n) == \/ k = Null /\ \A j \in list_pub : j >= n
                \/ k \in list_pub /\ k < n
                   /\ \A j \in list_pub : j < n => j <= k

\* Mutants: the doubling forgotten; the timeout never noticed.
TimedOutTooEarly(n) == age[n] > RequestTimeout
NeverTimedOut(n) == FALSE
\* utils_time_spend(&pub_start_time) > request_timeout_ms * 2
AckTimedOut(n) == age[n] > 2 * RequestTimeout

\* Mutant: the node's state is not looked at.
WaitsEvenIfAcked(n) == TRUE
WaitsForAck(n) == node_state[n] = "NORMANL"

\* Mutant: the acknowledged packet id is not compared.
AcksAny(id, n) == TRUE
Acks(id, n) == msg_id[n] = id

\* Mutant: one node too many.
ListFullOffByOne == Cardinality(list_pub) > RepubMax
ListFull == Cardinality(list_pub) >= RepubMax

\* Mutant: the counter is not advanced.
SamePacketId == 1
NextPacketId == IF packet_id = PacketIdMax THEN 1 ELSE packet_id + 1
-----------------------------------------------------------------------------
\* The locals of a publisher that is outside IOT_MQTT_Publish.
NoCall == [qos |-> 0, id |-> 0, node |-> Null]

Init ==
    /\ client_state = "CONNECTED"
    /\ packet_id = 0
    /\ list_pub = {}
    /\ msg_id = [n \in Nodes |-> 0]
    /\ node_state = [n \in Nodes |-> "NORMANL"]
    /\ age = [n \in Nodes |-> 0]
    /\ pushed = 0
    /\ lock_list_pub = Nobody
    /\ lock_write_buf = Nobody
    /\ pc = [t \in Threads |-> IF t = Yielder THEN "keepalive" ELSE "idle"]
    /\ req = [p \in Publishers |-> NoCall]
    /\ timer = [t \in Threads |-> 0]
    /\ iter = [next |-> Null, node |-> Null, temp |-> Null]
    /\ link = "up"
    /\ c2s = {}
    /\ s2c = {}
    /\ received = {}
    /\ accepted = {}
    /\ requests = 0
    /\ breaks = 0

Goto(t, l) == pc' = [pc EXCEPT ![t] = l]

\* IOT_MQTT_Publish returns: its locals are gone.
Return(p) == /\ Goto(p, "idle")
             /\ req' = [req EXCEPT ![p] = NoCall]
             /\ timer' = [timer EXCEPT ![p] = 0]

\* list_remove unlinks node n and frees it (no node when n is NULL).
ListRemove(n) == /\ list_pub' = list_pub \ {n}
                 /\ age' = [m \in Nodes |-> IF m = n THEN 0 ELSE age[m]]
                 /\ UNCHANGED <<msg_id, node_state, pushed>>
-----------------------------------------------------------------------------
(* A publisher: iotx_mc_publish and MQTTPublish.                             *)

\* The state check of iotx_mc_publish passes, a QoS 1 message takes a packet
\* id, and MQTTPublish starts its send timer before it waits for the buffer.
BeginPublish(p, q) ==
    /\ pc[p] = "idle"
    /\ client_state = "CONNECTED"
    /\ requests < MaxRequests
    /\ requests' = requests + 1
    /\ IF q = 1
       THEN /\ packet_id' = NextPacketId
            /\ req' = [req EXCEPT ![p] = [qos |-> 1, id |-> NextPacketId, node |-> Null]]
       ELSE UNCHANGED <<packet_id, req>>
    /\ timer' = [timer EXCEPT ![p] = RequestTimeout]
    /\ Goto(p, "lock")
    /\ UNCHANGED <<client_state, heap, locks, iter, network, accepted, breaks>>

\* HAL_MutexLock(lock_write_buf), then serialisation into buf_send.
LockWriteBuf(p) ==
    /\ pc[p] = "lock"
    /\ lock_write_buf = Nobody
    /\ lock_write_buf' = p
    /\ Goto(p, IF req[p].qos = 1 THEN "push" ELSE "send")
    /\ UNCHANGED <<client, heap, lock_list_pub, req, timer, iter, network, accepted,
                   counters>>

\* MQTTSerialize_publish fails (the packet does not fit): MQTT_PUBLISH_PACKET_ERROR.
SerializeFail(p) ==
    /\ pc[p] = "lock"
    /\ lock_write_buf = Nobody
    /\ Return(p)
    /\ UNCHANGED <<client, heap, locks, iter, network, accepted, counters>>

\* iotx_mc_push_pubInfo_to links a new node at the tail.
PushPubInfo(p) ==
    /\ pc[p] = "push"
    /\ lock_list_pub = Nobody
    /\ ~ListFull
    /\ pushed < MaxRequests
    /\ pushed' = pushed + 1
    /\ list_pub' = list_pub \cup {pushed'}
    /\ msg_id' = [msg_id EXCEPT ![pushed'] = req[p].id]
    /\ node_state' = [node_state EXCEPT ![pushed'] = "NORMANL"]
    /\ age' = [age EXCEPT ![pushed'] = 0]
    /\ req' = [req EXCEPT ![p].node = pushed']
    /\ Goto(p, "send")
    /\ UNCHANGED <<client, locks, timer, iter, network, accepted, counters>>

\* Mutant: the error path forgets to unlock.
PushPubInfoFailLocked(p) ==
    /\ pc[p] = "push"
    /\ lock_list_pub = Nobody
    /\ Return(p)
    /\ UNCHANGED <<client, heap, locks, iter, network, accepted, counters>>

\* iotx_mc_push_pubInfo_to fails: the list is full or HAL_Malloc returns NULL.
\* The call returns MQTT_PUSH_TO_LIST_ERROR and the client stays connected.
PushPubInfoFail(p) ==
    /\ pc[p] = "push"
    /\ lock_list_pub = Nobody
    /\ lock_write_buf' = Nobody
    /\ Return(p)
    /\ UNCHANGED <<client, heap, lock_list_pub, iter, network, accepted, counters>>

\* iotx_mc_send_packet puts node n on the wire.  A broken connection that the
\* TCP stack has not noticed swallows the bytes; a broker that gets a PUBLISH
\* before the CONNECT drops the connection.
Write(n) ==
    \/ /\ link = "up"
       /\ c2s' = c2s \cup ({n} \ {Null})
       /\ UNCHANGED link
    \/ /\ link \in {"broken", "tcp"}
       /\ link' = "broken"
       /\ UNCHANGED c2s

\* iotx_mc_send_packet fails: its timer has run out (a packet cut short makes
\* the rest of the stream useless to the broker) or the write returns an error.
WriteFails(t) ==
    \/ timer[t] = 0 /\ link' = link
    \/ timer[t] = 0 /\ link = "up" /\ link' = "broken"
    \/ link # "up" /\ link' = link

\* What a lost connection takes with it.
DropInFlight == IF link' = "up"
                THEN UNCHANGED <<c2s, s2c>>
                ELSE c2s' = {} /\ s2c' = {}

\* The packet is written and IOT_MQTT_Publish returns success.
SendPublish(p) ==
    /\ pc[p] = "send"
    /\ timer[p] > 0
    /\ Write(req[p].node)
    /\ accepted' = accepted \cup ({req[p].node} \ {Null})
    /\ lock_write_buf' = Nobody
    /\ Return(p)
    /\ UNCHANGED <<client, heap, lock_list_pub, iter, s2c, received, counters>>

\* The send fails; a QoS 1 node is still linked and must be removed.
SendPublishFail(p) ==
    /\ pc[p] = "send"
    /\ WriteFails(p)
    /\ DropInFlight
    /\ IF req[p].node # Null
       THEN /\ Goto(p, "unlink")
            /\ timer' = [timer EXCEPT ![p] = SchedDelay]
            /\ UNCHANGED lock_write_buf
       ELSE /\ Goto(p, "fail")
            /\ lock_write_buf' = Nobody
            /\ UNCHANGED timer
    /\ UNCHANGED <<client, heap, lock_list_pub, req, iter, received, accepted, counters>>

\* "If failed, remove from list": list_remove frees the node.
UnlinkPublish(p) ==
    /\ pc[p] = "unlink"
    /\ lock_list_pub = Nobody
    /\ ListRemove(req[p].node)
    /\ lock_write_buf' = Nobody
    /\ Goto(p, "fail")
    /\ UNCHANGED <<client, lock_list_pub, req, timer, iter, network, accepted, counters>>

\* iotx_mc_publish: MQTT_NETWORK_ERROR sets the state, whatever it is by now.
PublishFail(p) ==
    /\ pc[p] = "fail"
    /\ client_state' = "DISCONNECTED"
    /\ Return(p)
    /\ UNCHANGED <<packet_id, heap, locks, iter, network, accepted, counters>>

PublisherCall(p) ==
    \/ LockWriteBuf(p)
    \/ SerializeFail(p)
    \/ PushPubInfo(p)
    \/ PushPubInfoFail(p)
    \/ SendPublish(p)
    \/ SendPublishFail(p)
    \/ UnlinkPublish(p)
    \/ PublishFail(p)

PublisherStep(p) == PublisherCall(p) \/ \E q \in QosLevels : BeginPublish(p, q)
-----------------------------------------------------------------------------
(* The yield thread: iotx_mc_keepalive.                                      *)

\* Nothing to do, or a ping that is sent.
KeepaliveIdle ==
    /\ pc[Yielder] = "keepalive"
    /\ client_state = "CONNECTED" \/ ~ReconnectOpen
    /\ Goto(Yielder, "cycle")
    /\ UNCHANGED <<client, heap, locks, req, timer, iter, network, accepted, counters>>

\* iotx_mc_keepalive_sub: the ping cannot be written.
PingFail ==
    /\ pc[Yielder] = "keepalive"
    /\ client_state = "CONNECTED"
    /\ lock_write_buf = Nobody
    /\ link # "up"
    /\ client_state' = "DISCONNECTED"
    /\ UNCHANGED <<packet_id, heap, locks, pc, req, timer, iter, network, accepted, counters>>

\* The connection is closed and the first reconnection is scheduled.
KeepaliveDisconnected ==
    /\ pc[Yielder] = "keepalive"
    /\ ReconnectOpen
    /\ client_state = "DISCONNECTED"
    /\ client_state' = "RECONNECTING"
    /\ link' = "closed"
    /\ DropInFlight
    /\ Goto(Yielder, "cycle")
    /\ UNCHANGED <<packet_id, heap, locks, req, timer, iter, received, accepted, counters>>

\* iotx_mc_handle_reconnect: the TCP connection is established ...
ReconnectTcp ==
    /\ pc[Yielder] = "keepalive"
    /\ ReconnectOpen
    /\ client_state = "RECONNECTING"
    /\ link' = "tcp"
    /\ DropInFlight
    /\ Goto(Yielder, "connect")
    /\ UNCHANGED <<client, heap, locks, req, timer, iter, received, accepted, counters>>

\* ... or it is not, and iotx_mc_cycle returns at once.
ReconnectTcpFail ==
    /\ pc[Yielder] = "keepalive"
    /\ ReconnectOpen
    /\ client_state = "RECONNECTING"
    /\ link' = "closed"
    /\ DropInFlight
    /\ Goto(Yielder, "cycle")
    /\ UNCHANGED <<client, heap, locks, req, timer, iter, received, accepted, counters>>

\* MQTTConnect writes the CONNECT packet.
ReconnectSend ==
    /\ pc[Yielder] = "connect"
    /\ lock_write_buf = Nobody
    /\ link = "tcp"
    /\ link' = "up"
    /\ Goto(Yielder, "connack")
    /\ UNCHANGED <<client, heap, locks, req, timer, iter, c2s, s2c, received, accepted,
                   counters>>

\* CONNACK accepted: iotx_mc_connect and iotx_mc_handle_reconnect set CONNECTED.
ReconnectDone ==
    /\ pc[Yielder] = "connack"
    /\ link = "up"
    /\ client_state' = "CONNECTED"
    /\ Goto(Yielder, "cycle")
    /\ UNCHANGED <<packet_id, heap, locks, req, timer, iter, network, accepted, counters>>

\* The CONNECT is not written, or the CONNACK is refused or does not come: the
\* socket is closed.  After a CONNACK failure MQTTDisconnect takes the buffer.
ReconnectFail ==
    /\ \/ pc[Yielder] = "connect" /\ link # "tcp"
       \/ pc[Yielder] = "connack"
    /\ lock_write_buf = Nobody
    /\ link' = "closed"
    /\ DropInFlight
    /\ Goto(Yielder, "cycle")
    /\ UNCHANGED <<client, heap, locks, req, timer, iter, received, accepted, counters>>

Keepalive ==
    \/ KeepaliveIdle
    \/ PingFail
    \/ KeepaliveDisconnected
    \/ ReconnectTcp
    \/ ReconnectTcpFail
    \/ ReconnectSend
    \/ ReconnectDone
    \/ ReconnectFail
-----------------------------------------------------------------------------
(* The yield thread: iotx_mc_cycle.                                          *)

\* MQTT_STATE_ERROR: IOT_MQTT_Yield goes round without the list procedures.
CycleNotConnected ==
    /\ pc[Yielder] = "cycle"
    /\ client_state # "CONNECTED"
    /\ Goto(Yielder, "keepalive")
    /\ UNCHANGED <<client, heap, locks, req, timer, iter, network, accepted, counters>>

\* The read fails.
CycleReadFail ==
    /\ pc[Yielder] = "cycle"
    /\ client_state = "CONNECTED"
    /\ link # "up"
    /\ client_state' = "DISCONNECTED"
    /\ Goto(Yielder, "keepalive")
    /\ UNCHANGED <<packet_id, heap, locks, req, timer, iter, network, accepted, counters>>

\* The read times out: acks may be on their way still, and a broken connection
\* may look like a silent one.
CycleIdle ==
    /\ pc[Yielder] = "cycle"
    /\ client_state = "CONNECTED"
    /\ link \in {"up", "broken"}
    /\ Goto(Yielder, "proc")
    /\ UNCHANGED <<client, heap, locks, req, timer, iter, network, accepted, counters>>

\* iotx_mc_handle_recv_PUBACK: every node with the packet id is marked.
CyclePuback(id) ==
    /\ pc[Yielder] = "cycle"
    /\ client_state = "CONNECTED"
    /\ id \in s2c
    /\ lock_list_pub = Nobody
    /\ s2c' = s2c \ {id}
    /\ node_state' = [n \in Nodes |-> IF n \in list_pub /\ Acks(id, n)
                                      THEN "INVALID" ELSE node_state[n]]
    /\ Goto(Yielder, "proc")
    /\ UNCHANGED <<client, list_pub, msg_id, age, pushed, locks, req, timer, iter,
                   link, c2s, received, accepted, counters>>

Cycle ==
    \/ CycleNotConnected
    \/ CycleReadFail
    \/ CycleIdle
    \/ \E id \in Ids : CyclePuback(id)
-----------------------------------------------------------------------------
(* The yield thread: MQTTPubInfoProc.                                        *)

PubInfoStart ==
    /\ pc[Yielder] = "proc"
    /\ lock_list_pub = Nobody
    /\ IF list_pub = {}
       THEN /\ Goto(Yielder, "keepalive")
            /\ UNCHANGED <<lock_list_pub, iter>>
       ELSE /\ \E k \in list_pub : IsTail(k) /\ iter' = [next |-> k, node |-> Null, temp |-> Null]
            /\ lock_list_pub' = Yielder
            /\ Goto(Yielder, "iter")
    /\ UNCHANGED <<client, heap, lock_write_buf, req, timer, network, accepted, counters>>

\* The head of the loop: list_iterator_next, then list_remove of the node the
\* previous turn condemned; t is the node this turn condemns.
Advance(t) ==
    /\ pc[Yielder] = "iter"
    /\ iter.next # Null
    /\ \E k \in list_pub \cup {Null} :
          /\ IsPrev(k, iter.next)
          /\ iter' = [next |-> k, node |-> iter.next, temp |-> t]
    /\ ListRemove(iter.temp)

\* "remove invalid node": condemned now, unlinked at the head of the next turn.
PubInfoAcked ==
    /\ Advance(iter.next)
    /\ ~WaitsForAck(iter.next)
    /\ UNCHANGED <<client, locks, pc, req, timer, network, accepted, counters>>

\* Not connected, or still waiting for the ack in time.
PubInfoSkip ==
    /\ Advance(Null)
    /\ WaitsForAck(iter.next)
    /\ client_state # "CONNECTED" \/ ~AckTimedOut(iter.next)
    /\ UNCHANGED <<client, locks, pc, req, timer, network, accepted, counters>>

\* "If wait ACK timeout, republish": lock_list_pub is given up.
PubInfoTimeout ==
    /\ Advance(Null)
    /\ WaitsForAck(iter.next)
    /\ client_state = "CONNECTED"
    /\ AckTimedOut(iter.next)
    /\ lock_list_pub' = Nobody
    /\ timer' = [timer EXCEPT ![Yielder] = RequestTimeout]
    /\ Goto(Yielder, "relock")
    /\ UNCHANGED <<client, lock_write_buf, req, network, accepted, counters>>

\* MQTTRePublish waits for the send buffer's lock.
RePublishLock ==
    /\ pc[Yielder] = "relock"
    /\ lock_write_buf = Nobody
    /\ lock_write_buf' = Yielder
    /\ Goto(Yielder, "resend")
    /\ UNCHANGED <<client, heap, lock_list_pub, req, timer, iter, network, accepted,
                   counters>>

RePublish ==
    /\ pc[Yielder] = "resend"
    /\ timer[Yielder] > 0
    /\ Write(iter.node)
    /\ lock_write_buf' = Nobody
    /\ timer' = [timer EXCEPT ![Yielder] = 0]
    /\ Goto(Yielder, "resent")
    /\ UNCHANGED <<client, heap, lock_list_pub, req, iter, s2c, received, accepted,
                   counters>>

RePublishFail ==
    /\ pc[Yielder] = "resend"
    /\ WriteFails(Yielder)
    /\ DropInFlight
    /\ lock_write_buf' = Nobody
    /\ timer' = [timer EXCEPT ![Yielder] = 0]
    /\ Goto(Yielder, "lost")
    /\ UNCHANGED <<client, heap, lock_list_pub, req, iter, received, accepted, counters>>

\* iotx_time_start on the node and lock_list_pub again.  After a network error
\* the walk ends, with no node condemned.
PubInfoResume ==
    /\ pc[Yielder] \in {"resent", "lost"}
    /\ lock_list_pub = Nobody
    /\ age' = [age EXCEPT ![iter.node] = 0]
    /\ IF pc[Yielder] = "lost"
       THEN /\ client_state' = "DISCONNECTED"
            /\ Goto(Yielder, "keepalive")
            /\ UNCHANGED lock_list_pub
       ELSE /\ lock_list_pub' = Yielder
            /\ Goto(Yielder, "iter")
            /\ UNCHANGED client_state
    /\ UNCHANGED <<packet_id, list_pub, msg_id, node_state, pushed, lock_write_buf, req,
                   timer, iter, network, accepted, counters>>

\* End of the list: the last condemned node goes, the lock is released.
PubInfoEnd ==
    /\ pc[Yielder] = "iter"
    /\ iter.next = Null
    /\ ListRemove(iter.temp)
    /\ lock_list_pub' = Nobody
    /\ iter' = [next |-> Null, node |-> Null, temp |-> Null]
    /\ Goto(Yielder, "keepalive")
    /\ UNCHANGED <<client, lock_write_buf, req, timer, network, accepted, counters>>

PubInfoProc ==
    \/ PubInfoStart
    \/ PubInfoAcked
    \/ PubInfoSkip
    \/ PubInfoTimeout
    \/ RePublishLock
    \/ RePublish
    \/ RePublishFail
    \/ PubInfoResume
    \/ PubInfoEnd

YielderStep == Keepalive \/ Cycle \/ PubInfoProc
-----------------------------------------------------------------------------
(* The broker, the connection and time.                                      *)

BrokerReceive ==
    /\ link = "up"
    /\ \E n \in c2s :
          /\ c2s' = c2s \ {n}
          /\ received' = received \cup {n}
          /\ s2c' = s2c \cup {msg_id[n]}
    /\ UNCHANGED <<client, heap, locks, pc, req, timer, iter, link, accepted, counters>>

LinkBreak ==
    /\ breaks < MaxBreaks
    /\ link \in {"up", "tcp"}
    /\ link' = "broken"
    /\ DropInFlight
    /\ breaks' = breaks + 1
    /\ UNCHANGED <<client, heap, locks, pc, req, timer, iter, received, accepted, requests>>

Older(n) == IF n \in list_pub /\ age[n] < AgeMax THEN age[n] + 1 ELSE age[n]

\* A tick cannot pass a write whose timer has run out, nor a publisher that
\* has been kept from unlinking its node for SchedDelay ticks.
Tick ==
    /\ \A t \in Threads : pc[t] \in {"send", "resend", "unlink"} => timer[t] > 0
    /\ \/ \E n \in list_pub : age[n] < AgeMax
       \/ \E t \in Threads : timer[t] > 0
    /\ age' = [n \in Nodes |-> Older(n)]
    /\ timer' = [t \in Threads |-> IF timer[t] > 0 THEN timer[t] - 1 ELSE 0]
    /\ UNCHANGED <<client, list_pub, msg_id, node_state, pushed, locks, pc, req, iter,
                   network, accepted, counters>>

Next ==
    \/ \E p \in Publishers : PublisherStep(p)
    \/ YielderStep
    \/ BrokerReceive
    \/ LinkBreak
    \/ Tick

Spec == Init /\ [][Next]_vars
-----------------------------------------------------------------------------
(* Fairness.  Every thread is scheduled, and a mutex is granted to a waiter  *)
(* that finds it free again and again (strong fairness of the thread).       *)

ThreadFairness ==
    /\ \A p \in Publishers : SF_vars(PublisherCall(p))
    /\ SF_vars(YielderStep)

\* A network that works again and again: a lost connection is noticed, an
\* attempt to connect succeeds if repeated, so does a retransmission, which gets
\* the buffer with time left, and what is written again and again gets through.
NetworkFairness ==
    /\ SF_vars(CycleReadFail)
    /\ SF_vars(ReconnectTcp)
    /\ SF_vars(ReconnectDone)
    /\ SF_vars(RePublishLock /\ timer[Yielder] > 0)
    /\ SF_vars(RePublish)
    /\ SF_vars(BrokerReceive)
    /\ WF_vars(Tick)

FairSpec == Spec /\ ThreadFairness /\ NetworkFairness
-----------------------------------------------------------------------------
TypeOK ==
    /\ client_state \in {"CONNECTED", "DISCONNECTED", "RECONNECTING"}
    /\ packet_id \in Ids
    /\ pushed \in 0 .. MaxRequests
    /\ list_pub \in SUBSET (1 .. pushed)
    /\ Cardinality(list_pub) <= RepubMax
    /\ msg_id \in [Nodes -> Ids]
    /\ node_state \in [Nodes -> {"NORMANL", "INVALID"}]
    /\ age \in [Nodes -> 0 .. AgeMax]
    /\ lock_list_pub \in Threads \cup {Nobody}
    /\ lock_write_buf \in Threads \cup {Nobody}
    /\ pc \in [Threads -> PublisherLocs \cup YielderLocs]
    /\ pc[Yielder] \in YielderLocs
    /\ \A p \in Publishers : pc[p] \in PublisherLocs
    /\ req \in [Publishers -> [qos : {0, 1}, id : Ids, node : Nodes \cup {Null}]]
    /\ timer \in [Threads -> 0 .. RequestTimeout]
    /\ iter \in [next : Nodes \cup {Null}, node : Nodes \cup {Null},
                 temp : Nodes \cup {Null}]
    /\ link \in {"up", "broken", "closed", "tcp"}
    /\ c2s \in SUBSET Nodes
    /\ s2c \in SUBSET Ids
    /\ received \in SUBSET Nodes
    /\ accepted \in SUBSET Nodes
    /\ requests \in 0 .. MaxRequests
    /\ breaks \in 0 .. MaxBreaks

\* Every node pointer MQTTPubInfoProc still uses points to a linked node: the
\* iterator's prefetched next, the node condemned for removal, and the node
\* whose buffer MQTTRePublish writes while lock_list_pub is given up.
NoDanglingIterator ==
    /\ pc[Yielder] \in {"iter", "relock", "resend", "resent"} =>
          /\ iter.next # Null => iter.next \in list_pub
          /\ iter.temp # Null => iter.temp \in list_pub
    /\ pc[Yielder] \in {"relock", "resend", "resent", "lost"} => iter.node \in list_pub

\* list_remove in MQTTPublish is given a node that is still linked: the yield
\* thread has not freed it meanwhile.
NoDoubleFree ==
    \A p \in Publishers : pc[p] \in {"send", "unlink"} /\ req[p].qos = 1
                             => req[p].node \in list_pub

\* At least once: a message whose IOT_MQTT_Publish returned success is never
\* lost; it waits in the list for its ack or the broker has received it.
AcceptedNotLost == accepted \subseteq list_pub \cup received

\* "The value is a unique ID of this request" (iotx_mqtt_api.h): two publishes
\* that wait for their PUBACK do not have the same packet id.
UniqueOutstandingIds ==
    \A m, n \in list_pub : msg_id[m] = msg_id[n] => m = n

\* Once its PUBACK is processed a message is not written to the wire again.
NoResendAfterAck ==
    [][\A n \in c2s' \ c2s : n \in list_pub /\ node_state[n] = "NORMANL"]_vars

\* The client implements the at-least-once queue: a message the broker has not
\* received leaves the list only when its caller is told of the failure.
Service == INSTANCE AtLeastOnce
             WITH Messages <- Nodes, queued <- list_pub,
                  promised <- accepted, delivered <- received
ImplementsAtLeastOnce == Service!Spec

\* Every IOT_MQTT_Publish call returns: no thread waits for ever for a mutex.
PublishReturns == \A p \in Publishers : pc[p] # "idle" ~> pc[p] = "idle"

\* With reconnection on and a network that works again and again, every
\* accepted message reaches the broker: retransmission outlives lost
\* connections.  (Its node need not leave the list: acks may always be late.)
AcceptedIsDelivered ==
    \A n \in Nodes : n \in accepted ~> n \in received
=============================================================================
