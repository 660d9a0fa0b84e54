--------------------------- MODULE MqttSubscribe ---------------------------
(***************************************************************************)
(* Subscriptions of the MQTT client (sdk/comm/mqtt/iotx_mqtt_client.c):     *)
(* threads that call IOT_MQTT_Subscribe and IOT_MQTT_Unsubscribe, the list  *)
(* of requests that wait for their ack, and the table of topic handlers the *)
(* yield thread fills when a SUBACK arrives.                                *)
(*                                                                         *)
(* A request is known by its packet id (ids do not wrap here).  The walk    *)
(* over list_sub_wait_ack keeps lock_list_sub from beginning to end, so it  *)
(* is one step and the order of the list plays no part.  The application's  *)
(* callbacks do not call back into the client.                              *)
(***************************************************************************)
EXTENDS Integers, FiniteSets, Sequences

CONSTANTS
    Users,           \* threads that subscribe and unsubscribe
    Nobody,          \* the owner of a free mutex
    Topics,          \* topic filters
    Handlers,        \* callbacks with their context
    NoHandler,       \* the handler {NULL, NULL} of an unsubscribe request
    Requests,        \* what the threads ask for: type, topic and handler
    Empty,           \* an unused entry of the handler table
    SubMax,          \* IOTX_MC_SUB_NUM_MAX: entries of sub_handle
    SubRequestMax,   \* IOTX_MC_SUB_REQUEST_NUM_MAX: length limit of the list
    RequestTimeout,  \* request_timeout_ms, in ticks
    SchedDelay,      \* ticks a thread may be kept from running after a failed send
    MaxRequests,     \* bound: requests in a behaviour
    MaxBreaks        \* bound: connections lost in a behaviour

ASSUME SubscribeAssumption ==
    /\ Nobody \notin Users /\ NoHandler \notin Handlers
    /\ Empty \notin [topic : Topics, handler : Handlers]
    /\ Requests \subseteq
           [type : {"SUBSCRIBE"}, topic : Topics, handler : Handlers] \cup
           [type : {"UNSUBSCRIBE"}, topic : Topics, handler : {NoHandler}]
    /\ SubMax \in Nat /\ SubRequestMax \in Nat
    /\ RequestTimeout \in Nat \ {0}
    /\ SchedDelay \in Nat /\ SchedDelay <= RequestTimeout
    /\ MaxRequests \in Nat /\ MaxBreaks \in Nat

Ids    == 1 .. MaxRequests
AgeMax == 2 * RequestTimeout + 1     \* ages above the ack timeout are not told apart
Events == {"SUCCESS", "NACK", "TIMEOUT"}
Reports == Seq(Events)

VARIABLES
    client_state,    \* CONNECTED or not, see MqttSession
    packet_id,       \* iotx_mc_client_t.packet_id
    list_sub,        \* ids of the nodes linked in list_sub_wait_ack
    info,            \* per id: type, topic_filter and handle of the request
    node_state,      \* per id: iotx_mc_subsribe_info_t.node_state
    age,             \* per id: ticks since sub_start_time
    sub_handle,      \* the handler table: [topic, handler] or Empty per index
    lock_write_buf,  \* owner of the mutex
    pc,              \* per user: where it is
    req,             \* per user: the id of the request in progress
    timer,           \* per user: ticks left of its send timer
    yielder,         \* the yield thread: before "cycle" or MQTTSubInfoProc
    link,            \* the connection: "up" or "broken"
    c2s,             \* ids of the requests on their way to the broker
    s2c,             \* acks on their way to the client: [id, granted]
    accepted,        \* history: ids of the calls that returned success
    outcome,         \* history: per id the events the application got, in order
    subscribed,      \* history: entries it was told are in place and has not given up
    unsubscribed,    \* history: topics whose last request succeeded as UNSUBSCRIBE
    lost,            \* history: entries an uninitialised handle has been equal to
    swallowed,       \* history: ids whose SUBACK found the table full
    breaks           \* number of connections lost so far

list == <<list_sub, info, node_state, age>>
calls == <<lock_write_buf, pc, req, timer>>
network == <<link, c2s, s2c>>
history == <<accepted, outcome, subscribed, unsubscribed, lost, swallowed>>
vars == <<client_state, packet_id, list, sub_handle, calls, yielder, network,
          history, breaks>>

Entries == [topic : Topics, handler : Handlers]
Indices == 1 .. SubMax

Init ==
    /\ client_state = "CONNECTED"
    /\ packet_id = 0
    /\ list_sub = {}
    /\ info = <<>>
    /\ node_state = [id \in Ids |-> "NORMANL"]
    /\ age = [id \in Ids |-> 0]
    /\ sub_handle = [i \in Indices |-> Empty]
    /\ lock_write_buf = Nobody
    /\ pc = [u \in Users |-> "idle"]
    /\ req = [u \in Users |-> 0]
    /\ timer = [u \in Users |-> 0]
    /\ yielder = "cycle"
    /\ link = "up"
    /\ c2s = <<>>
    /\ s2c = <<>>
    /\ accepted = {}
    /\ outcome = [id \in Ids |-> <<>>]
    /\ subscribed = {}
    /\ unsubscribed = {}
    /\ lost = {}
    /\ swallowed = {}
    /\ breaks = 0
-----------------------------------------------------------------------------
(* IOT_MQTT_Subscribe and IOT_MQTT_Unsubscribe                               *)

Connected == client_state = "CONNECTED"

\* The state is checked and an id taken; the timer starts before the wait for
\* the send buffer.
Begin(u) ==
    /\ pc[u] = "idle"
    /\ Connected
    /\ packet_id < MaxRequests
    /\ packet_id' = packet_id + 1
    /\ \E r \in Requests : info' = Append(info, r)
    /\ req' = [req EXCEPT ![u] = packet_id + 1]
    /\ timer' = [timer EXCEPT ![u] = RequestTimeout]
    /\ pc' = [pc EXCEPT ![u] = "lock"]
    /\ UNCHANGED <<client_state, list_sub, node_state, age, sub_handle,
                   lock_write_buf, yielder, network, history, breaks>>

LockWriteBuf(u) ==
    /\ pc[u] = "lock"
    /\ lock_write_buf = Nobody
    /\ lock_write_buf' = u
    /\ pc' = [pc EXCEPT ![u] = "push"]
    /\ UNCHANGED <<client_state, packet_id, list, sub_handle, req, timer, yielder,
                   network, history, breaks>>

ListFull == Cardinality(list_sub) >= SubRequestMax

\* iotx_mc_push_subInfo_to
PushSubInfo(u) ==
    /\ pc[u] = "push"
    /\ ~ListFull
    /\ list_sub' = list_sub \cup {req[u]}
    /\ pc' = [pc EXCEPT ![u] = "send"]
    /\ UNCHANGED <<client_state, packet_id, info, node_state, age, sub_handle,
                   lock_write_buf, req, timer, yielder, network, history, breaks>>

\* The list is full, there is no memory, or the packet does not fit the buffer.
PushSubInfoFail(u) ==
    /\ pc[u] = "push"
    /\ pc' = [pc EXCEPT ![u] = "idle"]
    /\ lock_write_buf' = Nobody
    /\ UNCHANGED <<client_state, packet_id, list, sub_handle, req, timer, yielder,
                   network, history, breaks>>

\* iotx_mc_send_packet succeeds and the call returns the id.
SendOk(u) ==
    /\ pc[u] = "send"
    /\ link = "up" /\ timer[u] > 0
    /\ c2s' = Append(c2s, req[u])
    /\ accepted' = accepted \cup {req[u]}
    /\ lock_write_buf' = Nobody
    /\ pc' = [pc EXCEPT ![u] = "idle"]
    /\ UNCHANGED <<client_state, packet_id, list, sub_handle, req, timer, yielder,
                   link, s2c, outcome, subscribed, unsubscribed, lost, swallowed, breaks>>

\* It fails: the connection is lost or the timer has run out.
SendFail(u) ==
    /\ pc[u] = "send"
    /\ link = "broken" \/ timer[u] = 0
    /\ pc' = [pc EXCEPT ![u] = "unlink"]
    /\ timer' = [timer EXCEPT ![u] = SchedDelay]
    /\ UNCHANGED <<client_state, packet_id, list, sub_handle, lock_write_buf, req,
                   yielder, network, history, breaks>>

\* list_remove, and client_state is set.
Unlink(u) ==
    /\ pc[u] = "unlink"
    /\ list_sub' = list_sub \ {req[u]}
    /\ lock_write_buf' = Nobody
    /\ client_state' = "DISCONNECTED"
    /\ pc' = [pc EXCEPT ![u] = "idle"]
    /\ UNCHANGED <<packet_id, info, node_state, age, sub_handle, req, timer, yielder,
                   network, history, breaks>>
-----------------------------------------------------------------------------
(* IOT_MQTT_Yield: the cycle                                                 *)

CycleReadFail ==
    /\ yielder = "cycle" /\ Connected
    /\ link = "broken"
    /\ client_state' = "DISCONNECTED"
    /\ UNCHANGED <<packet_id, list, sub_handle, calls, yielder, network, history, breaks>>

CycleIdle ==
    /\ yielder = "cycle" /\ Connected
    /\ link = "up" /\ s2c = <<>>
    /\ yielder' = "proc"
    /\ UNCHANGED <<client_state, packet_id, list, sub_handle, calls, network, history,
                   breaks>>

\* The packet id of the ack that is read, and what follows it.
AckArrives(type) ==
    /\ yielder = "cycle" /\ Connected
    /\ link = "up" /\ s2c # <<>>
    /\ info[Head(s2c).id].type = type
AckRead == s2c' = Tail(s2c) /\ UNCHANGED <<link, c2s>>

\* Mutant: the node stays as it is.
MaskNothing(id) == UNCHANGED node_state
\* iotx_mc_mask_subInfo_from: a node found is marked and gives its handle.
MaskSubInfo(id) ==
    node_state' = IF id \in list_sub THEN [node_state EXCEPT ![id] = "INVALID"]
                                     ELSE node_state

Notify(id, event) == outcome' = [outcome EXCEPT ![id] = Append(@, event)]

EntryOf(id) == [topic |-> info[id].topic, handler |-> info[id].handler]

\* Mutant: the callback is not compared.
SameTopic(e, f) == e.topic = f.topic
\* iotx_mc_check_handle_is_identical
Identical(e, f) == e.topic = f.topic /\ e.handler = f.handler

IsDuplicate(e) == \E i \in Indices : sub_handle[i] # Empty /\ Identical(sub_handle[i], e)

FirstFree(i) == /\ sub_handle[i] = Empty
                /\ \A j \in 1 .. i - 1 : sub_handle[j] # Empty

\* 0x80: the event is given whether the request is still known or not.
RecvSubackRefused ==
    /\ AckArrives("SUBSCRIBE") /\ ~Head(s2c).granted
    /\ LET id == Head(s2c).id IN MaskSubInfo(id) /\ Notify(id, "NACK")
    /\ AckRead
    /\ UNCHANGED <<client_state, packet_id, list_sub, info, age, sub_handle, calls,
                   yielder, accepted, subscribed, unsubscribed, lost, swallowed, breaks>>

\* The request has timed out meanwhile: nobody hears of this ack.
RecvSubackUnknown ==
    /\ AckArrives("SUBSCRIBE") /\ Head(s2c).granted
    /\ Head(s2c).id \notin list_sub
    /\ AckRead
    /\ UNCHANGED <<client_state, packet_id, list, sub_handle, calls, yielder, history,
                   breaks>>

\* No entry of the table is free: the request is over without an event.
RecvSubackFull ==
    /\ AckArrives("SUBSCRIBE") /\ Head(s2c).granted
    /\ LET id == Head(s2c).id IN
       /\ id \in list_sub
       /\ ~IsDuplicate(EntryOf(id)) /\ \A i \in Indices : sub_handle[i] # Empty
       /\ MaskSubInfo(id)
       /\ swallowed' = swallowed \cup {id}
    /\ AckRead
    /\ UNCHANGED <<client_state, packet_id, list_sub, info, age, sub_handle, calls,
                   yielder, accepted, outcome, subscribed, unsubscribed, lost, breaks>>

\* The handler goes to the first free entry unless it is there already.
RecvSuback ==
    /\ AckArrives("SUBSCRIBE") /\ Head(s2c).granted
    /\ LET id == Head(s2c).id
           e == EntryOf(id)
       IN /\ id \in list_sub
          /\ IF IsDuplicate(e) THEN UNCHANGED sub_handle
             ELSE \E i \in Indices : FirstFree(i) /\ sub_handle' = [sub_handle EXCEPT ![i] = e]
          /\ MaskSubInfo(id)
          /\ Notify(id, "SUCCESS")
          /\ subscribed' = subscribed \cup {e}
          /\ unsubscribed' = unsubscribed \ {e.topic}
          /\ lost' = lost \ {e}
    /\ AckRead
    /\ yielder' = "proc"
    /\ UNCHANGED <<client_state, packet_id, list_sub, info, age, calls, accepted,
                   swallowed, breaks>>

\* The entries identical to e are removed from the table.
RemoveIdentical(e) ==
    sub_handle' = [i \in Indices |->
        IF sub_handle[i] # Empty /\ Identical(sub_handle[i], e) THEN Empty
        ELSE sub_handle[i]]

\* The handle removed is the request's own, {topic, {NULL, NULL}}; if the
\* request is no longer known it is whatever the stack holds: equal to an entry
\* or to none.
RecvUnsuback ==
    /\ AckArrives("UNSUBSCRIBE")
    /\ LET id == Head(s2c).id IN
       /\ IF id \in list_sub
          THEN RemoveIdentical(EntryOf(id)) /\ UNCHANGED lost
          ELSE \/ \E e \in Entries : RemoveIdentical(e) /\ lost' = lost \cup {e}
               \/ UNCHANGED <<sub_handle, lost>>
       /\ MaskSubInfo(id)
       /\ Notify(id, "SUCCESS")
       /\ subscribed' = {e \in subscribed : e.topic # info[id].topic}
       /\ unsubscribed' = unsubscribed \cup {info[id].topic}
    /\ AckRead
    /\ yielder' = "proc"
    /\ UNCHANGED <<client_state, packet_id, list_sub, info, age, calls, accepted,
                   swallowed, breaks>>

\* Mutant: the doubling forgotten.
TimedOutTooEarly(id) == age[id] > RequestTimeout
\* utils_time_spend(&sub_start_time) > request_timeout_ms * 2
AckTimedOut(id) == age[id] > 2 * RequestTimeout

\* MQTTSubInfoProc: answered and overdue nodes leave the list.
SubInfoProc ==
    /\ yielder = "proc"
    /\ LET answered == {id \in list_sub : node_state[id] = "INVALID"}
           overdue == {id \in list_sub \ answered : Connected /\ AckTimedOut(id)}
       IN /\ list_sub' = list_sub \ (answered \cup overdue)
          /\ outcome' = [id \in Ids |-> IF id \in overdue
                                        THEN Append(outcome[id], "TIMEOUT")
                                        ELSE outcome[id]]
    /\ yielder' = "cycle"
    /\ UNCHANGED <<client_state, packet_id, info, node_state, age, sub_handle, calls,
                   network, accepted, subscribed, unsubscribed, lost, swallowed, breaks>>

\* The handlers iotx_mc_deliver_message calls for a message; none: the default.
HandlersFor(topic) ==
    {sub_handle[i].handler : i \in {j \in Indices : sub_handle[j] # Empty
                                                   /\ sub_handle[j].topic = topic}}
-----------------------------------------------------------------------------
(* The session, the broker and the clock                                     *)

\* What MqttSession's reconnection means here: a new connection, the list and
\* the table as they were.
Reconnect ==
    /\ yielder = "cycle" /\ ~Connected
    /\ client_state' = "CONNECTED"
    /\ link' = "up" /\ c2s' = <<>> /\ s2c' = <<>>
    /\ UNCHANGED <<packet_id, list, sub_handle, calls, yielder, history, breaks>>

BrokerAnswers ==
    /\ link = "up" /\ c2s # <<>>
    /\ \E granted \in {TRUE} \cup {info[Head(c2s)].type = "UNSUBSCRIBE"} :
            s2c' = Append(s2c, [id |-> Head(c2s), granted |-> granted])
    /\ c2s' = Tail(c2s)
    /\ UNCHANGED <<client_state, packet_id, list, sub_handle, calls, yielder, link,
                   history, breaks>>

LinkBreak ==
    /\ link = "up" /\ breaks < MaxBreaks
    /\ link' = "broken" /\ c2s' = <<>> /\ s2c' = <<>>
    /\ breaks' = breaks + 1
    /\ UNCHANGED <<client_state, packet_id, list, sub_handle, calls, yielder, history>>

\* A send returns when its timer has run out, a thread that has to unlink its
\* node runs within SchedDelay.
Tick ==
    /\ \E id \in list_sub : age[id] < AgeMax
    /\ \A u \in Users : pc[u] \in {"send", "unlink"} => timer[u] > 0
    /\ age' = [id \in Ids |-> IF id \in list_sub /\ age[id] < AgeMax
                              THEN age[id] + 1 ELSE age[id]]
    /\ timer' = [u \in Users |-> IF timer[u] > 0 THEN timer[u] - 1 ELSE 0]
    /\ UNCHANGED <<client_state, packet_id, list_sub, info, node_state, sub_handle,
                   lock_write_buf, pc, req, yielder, network, history, breaks>>
-----------------------------------------------------------------------------
UserStep(u) == \/ LockWriteBuf(u) \/ PushSubInfo(u) \/ PushSubInfoFail(u)
               \/ SendOk(u) \/ SendFail(u) \/ Unlink(u)
YielderStep == \/ CycleReadFail \/ CycleIdle
               \/ RecvSubackRefused \/ RecvSubackUnknown \/ RecvSubackFull
               \/ RecvSuback \/ RecvUnsuback
               \/ SubInfoProc \/ Reconnect

Next == \/ \E u \in Users : Begin(u) \/ UserStep(u)
        \/ YielderStep
        \/ BrokerAnswers \/ LinkBreak \/ Tick

Spec == Init /\ [][Next]_vars
-----------------------------------------------------------------------------
TypeOK ==
    /\ client_state \in {"CONNECTED", "DISCONNECTED"}
    /\ packet_id \in 0 .. MaxRequests
    /\ list_sub \subseteq Ids /\ Cardinality(list_sub) <= SubRequestMax
    /\ info \in Seq(Requests) /\ Len(info) = packet_id
    /\ node_state \in [Ids -> {"NORMANL", "INVALID"}]
    /\ age \in [Ids -> 0 .. AgeMax]
    /\ sub_handle \in [Indices -> Entries \cup {Empty}]
    /\ lock_write_buf \in Users \cup {Nobody}
    /\ pc \in [Users -> {"idle", "lock", "push", "send", "unlink"}]
    /\ req \in [Users -> Ids \cup {0}]
    /\ timer \in [Users -> 0 .. RequestTimeout]
    /\ yielder \in {"cycle", "proc"}
    /\ link \in {"up", "broken"}
    /\ c2s \in Seq(Ids)
    /\ s2c \in Seq([id : Ids, granted : BOOLEAN])
    /\ accepted \subseteq Ids
    /\ outcome \in [Ids -> Reports]
    /\ subscribed \subseteq Entries /\ unsubscribed \subseteq Topics
    /\ lost \subseteq Entries /\ swallowed \subseteq Ids
    /\ breaks \in 0 .. MaxBreaks

\* A thread whose send failed unlinks a node that is still in the list: neither
\* an ack nor the timeout has made the yield thread free it (MQTTSubscribe,
\* MQTTUnsubscribe, MQTTSubInfoProc).
UnlinkFindsNode == \A u \in Users : pc[u] = "unlink" => req[u] \in list_sub

\* A subscription the application was told is in place, and has not been told is
\* given up since, has its handler in the table, so a message for the topic goes
\* there and not to the default handler.  The one exception is an entry that the
\* uninitialised handle of a late UNSUBACK happened to be equal to, until it is
\* confirmed again (iotx_mc_handle_recv_SUBACK, iotx_mc_handle_recv_UNSUBACK).
ConfirmedHasHandler ==
    \A e \in subscribed \ lost : \E i \in Indices : sub_handle[i] = e

\* No handler is called twice for one message: the table never holds the same
\* entry twice, however often it is subscribed (iotx_mc_handle_recv_SUBACK).
NoDuplicateHandler ==
    \A i, j \in Indices :
        i # j /\ sub_handle[i] # Empty => sub_handle[i] # sub_handle[j]

\* What the application may hear of a request.
OnceOrLate(type, report) ==
    \/ Len(report) <= 1
    \/ type = "SUBSCRIBE" /\ report = <<"TIMEOUT", "NACK">>
    \/ type = "UNSUBSCRIBE" /\ report = <<"TIMEOUT", "SUCCESS">>

\* A request, to subscribe or to unsubscribe, gets one event, in whatever order
\* ack, timeout and a lost connection come.  The code's exceptions are the two
\* acks it reports without finding the request: after its timeout a refused
\* SUBSCRIBE gets its NACK and an UNSUBSCRIBE its SUCCESS as well, once
\* (iotx_mc_handle_recv_SUBACK, iotx_mc_handle_recv_UNSUBACK, MQTTSubInfoProc).
AnsweredOnce == \A id \in 1 .. packet_id : OnceOrLate(info[id].type, outcome[id])

\* A request whose call succeeded waits in the list until the application gets an
\* event for it, across lost connections; the one exception is a request whose own
\* SUBACK found the table full (MQTTSubscribe, iotx_mc_mask_subInfo_from,
\* MQTTSubInfoProc).
NoRequestForgotten ==
    \A id \in accepted \ swallowed :
        outcome[id] = <<>> => id \in list_sub /\ node_state[id] = "NORMANL"

\* The handler table holds what the application was told is subscribed, each
\* entry once (iotx_mc_handle_recv_SUBACK, iotx_mc_handle_recv_UNSUBACK).
HandlersMatchSubscriptions == ConfirmedHasHandler /\ NoDuplicateHandler

\* Each accepted request waits until it is answered and is answered once,
\* whichever of ack, timeout and lost connection comes first, but for the cases
\* the two parts name (iotx_mc_handle_recv_SUBACK, iotx_mc_handle_recv_UNSUBACK,
\* MQTTSubInfoProc).
RequestsAnsweredOnce == AnsweredOnce /\ NoRequestForgotten

\* The comment in iotx_mc_handle_recv_UNSUBACK: the handler is removed from the
\* array.  The code compares the request's NULL callback with the entry's, so
\* the entry stays and the handler is called on.
UnsubscribedHasNoHandler ==
    \A topic \in unsubscribed : HandlersFor(topic) = {}
=============================================================================
