---------------------------- MODULE MqttSession ----------------------------
(***************************************************************************)
(* The connection of the MQTT client (sdk/comm/mqtt/iotx_mqtt_client.c):    *)
(* construction and release, the keepalive pings and their probe count, the *)
(* read cycle, reconnection with back-off, and the events the application   *)
(* is told.                                                                 *)
(*                                                                         *)
(* One thread runs IOT_MQTT_Yield.  The other threads matter here for one   *)
(* thing only: a publish or subscribe looks at client_state, writes, and    *)
(* sets DISCONNECTED when its write has failed, at whatever time it comes   *)
(* to that.                                                                 *)
(*                                                                         *)
(* Time passes in ticks of the yield period: the application calls          *)
(* IOT_MQTT_Yield at least once per tick.                                   *)
(***************************************************************************)
EXTENDS Integers

CONSTANTS
    Users,          \* threads that publish and subscribe
    KeepAlive,      \* connect_data.keepAliveInterval, in ticks
    ProbeMax,       \* IOTX_MC_KEEPALIVE_PROBE_MAX
    IntervalMin,    \* IOTX_MC_RECONNECT_INTERVAL_MIN_MS, in ticks
    IntervalMax,    \* IOTX_MC_RECONNECT_INTERVAL_MAX_MS, in ticks
    ReconnectOpen   \* reconnect_open: the client reconnects by itself

ASSUME SessionAssumption == /\ KeepAlive \in Nat \ {0}
                            /\ ProbeMax \in Nat
                            /\ IntervalMin \in Nat \ {0}
                            /\ IntervalMax \in Nat
                            /\ IntervalMin <= IntervalMax
                            /\ ReconnectOpen \in BOOLEAN

VARIABLES
    client_state,      \* iotx_mc_client_t.client_state
    keepalive_probes,  \* iotx_mc_client_t.keepalive_probes
    next_ping_time,    \* ticks left until next_ping_time
    interval,          \* reconnect_param.reconnect_time_interval_ms
    next_time,         \* ticks left until reconnect_param.reconnect_next_time
    pc,                \* where the thread that owns the client is
    caller,            \* who called iotx_mc_connect
    user,              \* per user thread: where it is
    link,              \* the connection: "none", "up", "broken"
    inbox,             \* a packet of the broker waits to be read
    last_event,        \* history: the last event of the handle_event callback
    unanswered,        \* history: pings on this connection since its last packet
    silence,           \* history: ticks since the last packet of this connection
    since_attempt      \* history: ticks since the last connection attempt

client  == <<client_state, keepalive_probes, next_ping_time, interval, next_time>>
network == <<link, inbox>>
history == <<last_event, unanswered, silence, since_attempt>>
vars == <<client, pc, caller, user, network, history>>

States == {"INVALID", "INITIALIZED", "CONNECTED", "DISCONNECTED", "RECONNECTING"}
Locs == {"out", "pre_auth", "tcp", "connect", "connack", "post_auth", "idle",
         "keepalive", "check", "event", "reconnecting", "wait", "reconnect_cb", "cycle",
         "read", "release", "released"}

SilenceMax == (ProbeMax + 1) * KeepAlive + 1   \* longer silences are not told apart
Less(n) == IF n = 0 THEN 0 ELSE n - 1
Upto(n, max) == IF n > max THEN max ELSE n
-----------------------------------------------------------------------------
Init ==
    /\ client_state = "INVALID"
    /\ keepalive_probes = 0
    /\ next_ping_time = 0
    /\ interval = IntervalMin
    /\ next_time = 0
    /\ pc = "out"
    /\ caller = "construct"
    /\ user = [u \in Users |-> "idle"]
    /\ link = "none"
    /\ inbox = FALSE
    /\ last_event = "NONE"
    /\ unanswered = 0
    /\ silence = 0
    /\ since_attempt = IntervalMin

Goto(loc) == pc' = loc

\* IOT_MQTT_Construct: iotx_mc_init, then iotx_mc_connect.
Construct ==
    /\ pc = "out"
    /\ client_state' = "INITIALIZED"
    /\ keepalive_probes' = 0
    /\ next_ping_time' = 0
    /\ interval' = IntervalMin
    /\ next_time' = 0
    /\ caller' = "construct"
    /\ Goto("pre_auth")
    /\ last_event' = "NONE"
    /\ UNCHANGED <<user, network, unanswered, silence, since_attempt>>
-----------------------------------------------------------------------------
(* iotx_mc_connect                                                           *)

\* A failed iotx_mc_connect: the constructor releases the client,
\* iotx_mc_handle_reconnect doubles the interval and waits again.
ConnectFails ==
    IF caller = "construct"
    THEN /\ Goto("release")
         /\ UNCHANGED <<interval, next_time>>
    ELSE /\ interval' = IF IntervalMax > interval THEN 2 * interval
                                                  ELSE IntervalMax
         /\ \E random \in 0 .. interval' - 1 :
                next_time' = Upto(interval' + random, IntervalMax)
         /\ Goto("cycle")

PreAuth ==
    /\ pc = "pre_auth"
    /\ since_attempt' = 0
    /\ \/ Goto("tcp") /\ UNCHANGED client
       \/ /\ ConnectFails
          /\ UNCHANGED <<client_state, keepalive_probes, next_ping_time>>
    /\ UNCHANGED <<caller, user, network, last_event, unanswered, silence>>

\* ipstack->connect
TcpConnect ==
    /\ pc = "tcp"
    /\ inbox' = FALSE
    /\ \/ link' = "up" /\ Goto("connect") /\ UNCHANGED client
       \/ /\ link' = "none"
          /\ ConnectFails
          /\ UNCHANGED <<client_state, keepalive_probes, next_ping_time>>
    /\ unanswered' = 0
    /\ UNCHANGED <<caller, user, last_event, silence, since_attempt>>

\* MQTTConnect: the CONNECT packet.
SendConnect ==
    /\ pc = "connect"
    /\ \/ link = "up" /\ Goto("connack") /\ UNCHANGED <<client, network>>
       \/ /\ link = "broken"
          /\ link' = "none"
          /\ inbox' = FALSE
          /\ ConnectFails
          /\ UNCHANGED <<client_state, keepalive_probes, next_ping_time>>
    /\ UNCHANGED <<caller, user, history>>

\* iotx_mc_wait_CONNACK accepted: the state becomes CONNECTED.  The packet is
\* not read by iotx_mc_cycle, so the probes keep their count.
ConnackAccepted ==
    /\ pc = "connack" /\ link = "up"
    /\ client_state' = "CONNECTED"
    /\ silence' = 0
    /\ Goto("post_auth")
    /\ UNCHANGED <<keepalive_probes, next_ping_time, interval, next_time, caller,
                   user, network, last_event, unanswered, since_attempt>>

\* Mutant: the socket stays open.
ConnackFailKeepsSocket ==
    /\ pc = "connack"
    /\ ConnectFails
    /\ UNCHANGED <<client_state, keepalive_probes, next_ping_time, caller, user,
                   network, history>>

\* No CONNACK in time, a refusal, or a read error.
ConnackFail ==
    /\ pc = "connack"
    /\ link' = "none"
    /\ inbox' = FALSE
    /\ ConnectFails
    /\ UNCHANGED <<client_state, keepalive_probes, next_ping_time, caller, user, history>>

\* mqtt_post_auth_process.  When it fails the client is CONNECTED all the same,
\* with its ping timer as the last connection left it.  When it succeeds
\* iotx_mc_handle_reconnect sets CONNECTED once more.
PostAuth ==
    /\ pc = "post_auth"
    /\ \/ /\ next_ping_time' = KeepAlive
          /\ IF caller = "construct" THEN Goto("idle") /\ UNCHANGED client_state
             ELSE client_state' = "CONNECTED" /\ Goto("reconnect_cb")
          /\ UNCHANGED <<keepalive_probes, interval, next_time>>
       \/ /\ ConnectFails
          /\ UNCHANGED <<client_state, keepalive_probes, next_ping_time>>
    /\ UNCHANGED <<caller, user, network, history>>

\* iotx_mc_reconnect_callback, and the interval starts over.
ReconnectCallback ==
    /\ pc = "reconnect_cb"
    /\ last_event' = "RECONNECT"
    /\ interval' = IntervalMin
    /\ Goto("cycle")
    /\ UNCHANGED <<client_state, keepalive_probes, next_ping_time, next_time, caller,
                   user, network, unanswered, silence, since_attempt>>
-----------------------------------------------------------------------------
(* IOT_MQTT_Yield                                                            *)

Yield ==
    /\ pc = "idle"
    /\ Goto("keepalive")
    /\ UNCHANGED <<client, caller, user, network, history>>

Connected == client_state = "CONNECTED"
PingDue == Connected /\ next_ping_time = 0

\* iotx_mc_keepalive_sub has nothing to do.
KeepaliveNotDue ==
    /\ pc = "keepalive" /\ ~PingDue
    /\ Goto("check")
    /\ UNCHANGED <<client, caller, user, network, history>>

\* MQTTKeepalive has written a PINGREQ.
Ping ==
    /\ pc = "keepalive" /\ PingDue
    /\ link = "up"
    /\ next_ping_time' = KeepAlive
    /\ keepalive_probes' = keepalive_probes + 1
    /\ unanswered' = unanswered + 1
    /\ Goto("check")
    /\ UNCHANGED <<client_state, interval, next_time, caller, user, network,
                   last_event, silence, since_attempt>>

\* MQTTKeepalive could not write.
PingFail ==
    /\ pc = "keepalive" /\ PingDue
    /\ link # "up"
    /\ next_ping_time' = KeepAlive
    /\ client_state' = "DISCONNECTED"
    /\ Goto("check")
    /\ UNCHANGED <<keepalive_probes, interval, next_time, caller, user, network, history>>

\* Mutants: the reconnection is not gone on with; it starts without the event.
NextInKeepaliveForgetsReconnecting ==
    IF ReconnectOpen /\ client_state = "DISCONNECTED" THEN "event" ELSE "cycle"
NextInKeepaliveSkipsEvent ==
    IF ReconnectOpen /\ client_state \in {"DISCONNECTED", "RECONNECTING"}
    THEN "wait" ELSE "cycle"

NextInKeepalive ==
    CASE ReconnectOpen /\ client_state = "RECONNECTING" -> "wait"
      [] ReconnectOpen /\ client_state = "DISCONNECTED" -> "event"
      [] OTHER                                          -> "cycle"

\* iotx_mc_keepalive reads the state after the ping.
KeepaliveReadState ==
    /\ pc = "check"
    /\ Goto(NextInKeepalive)
    /\ UNCHANGED <<client, caller, user, network, history>>

\* Mutant: the back-off timer is not started.
DisconnectCallbackNoTimer ==
    /\ pc = "event"
    /\ last_event' = "DISCONNECT"
    /\ interval' = IntervalMin
    /\ Goto("reconnecting")
    /\ UNCHANGED <<client_state, keepalive_probes, next_ping_time, next_time, caller,
                   user, network, unanswered, silence, since_attempt>>

\* The disconnect event and the start of the back-off.
DisconnectCallback ==
    /\ pc = "event"
    /\ last_event' = "DISCONNECT"
    /\ interval' = IntervalMin
    /\ next_time' = IntervalMin
    /\ Goto("reconnecting")
    /\ UNCHANGED <<client_state, keepalive_probes, next_ping_time, caller, user,
                   network, unanswered, silence, since_attempt>>

\* The socket is closed, then the state set: what a user thread has set since
\* the state was read is overwritten.
SetReconnecting ==
    /\ pc = "reconnecting"
    /\ link' = "none"
    /\ inbox' = FALSE
    /\ client_state' = "RECONNECTING"
    /\ Goto("cycle")
    /\ UNCHANGED <<keepalive_probes, next_ping_time, interval, next_time, caller,
                   user, history>>

\* iotx_mc_handle_reconnect: the yield call waits for the time to come.
StartReconnect ==
    /\ pc = "wait"
    /\ next_time = 0
    /\ caller' = "yield"
    /\ Goto("pre_auth")
    /\ UNCHANGED <<client, user, network, history>>

\* Mutant: the comparison the wrong way round.
ProbesNeverExceeded == keepalive_probes < 0
ProbesExceeded == ProbeMax < keepalive_probes

\* iotx_mc_cycle: the state and the probes are checked before the read.
CycleNotConnected ==
    /\ pc = "cycle" /\ ~Connected
    /\ Goto("idle")
    /\ UNCHANGED <<client, caller, user, network, history>>

CycleConnected ==
    /\ pc = "cycle" /\ Connected
    /\ IF ProbesExceeded
       THEN client_state' = "DISCONNECTED" /\ keepalive_probes' = 0
       ELSE UNCHANGED <<client_state, keepalive_probes>>
    /\ Goto("read")
    /\ UNCHANGED <<next_ping_time, interval, next_time, caller, user, network, history>>

\* iotx_mc_read_packet and the end of the turn.
ReadNothing ==
    /\ pc = "read" /\ link = "up" /\ ~inbox
    /\ Goto("idle")
    /\ UNCHANGED <<client, caller, user, network, history>>

ReadPacket ==
    /\ pc = "read" /\ link = "up" /\ inbox
    /\ inbox' = FALSE
    /\ keepalive_probes' = 0
    /\ unanswered' = 0
    /\ silence' = 0
    /\ Goto("idle")
    /\ UNCHANGED <<client_state, next_ping_time, interval, next_time, caller, user,
                   link, last_event, since_attempt>>

ReadFail ==
    /\ pc = "read" /\ link # "up"
    /\ client_state' = "DISCONNECTED"
    /\ Goto("idle")
    /\ UNCHANGED <<keepalive_probes, next_ping_time, interval, next_time, caller,
                   user, network, history>>
-----------------------------------------------------------------------------
(* IOT_MQTT_Destroy, and the release of a client that could not connect.     *)

Destroy ==
    /\ pc = "idle"
    /\ \A u \in Users : user[u] = "idle"    \* no call may be in progress
    /\ Goto("release")
    /\ UNCHANGED <<client, caller, user, network, history>>

\* iotx_mc_disconnect: the DISCONNECT packet if CONNECTED, the socket, the state.
Release ==
    /\ pc = "release"
    /\ link' = "none"
    /\ inbox' = FALSE
    /\ client_state' = "INITIALIZED"
    /\ Goto("released")
    /\ UNCHANGED <<keepalive_probes, next_ping_time, interval, next_time, caller,
                   user, history>>

Released ==
    /\ pc = "released"
    /\ client_state' = "INVALID"
    /\ Goto("out")
    /\ UNCHANGED <<keepalive_probes, next_ping_time, interval, next_time, caller,
                   user, network, history>>
-----------------------------------------------------------------------------
(* The other threads: IOT_MQTT_Publish, IOT_MQTT_Subscribe, ...              *)

\* The constructor has returned and Destroy has not been called.
HasHandle == /\ pc \notin {"out", "release", "released"}
             /\ caller = "construct" =>
                    pc \notin {"pre_auth", "tcp", "connect", "connack", "post_auth"}

\* iotx_mc_check_state_normal holds.
UserChecksState(u) ==
    /\ user[u] = "idle"
    /\ HasHandle
    /\ Connected
    /\ user' = [user EXCEPT ![u] = "writing"]
    /\ UNCHANGED <<client, pc, caller, network, history>>

UserWrites(u) ==
    /\ user[u] = "writing"
    /\ user' = [user EXCEPT ![u] = IF link = "up" THEN "idle" ELSE "failed"]
    /\ UNCHANGED <<client, pc, caller, network, history>>

\* MQTT_NETWORK_ERROR: the state is set with no look at what it is by now.
UserDisconnects(u) ==
    /\ user[u] = "failed"
    /\ client_state' = "DISCONNECTED"
    /\ user' = [user EXCEPT ![u] = "idle"]
    /\ UNCHANGED <<keepalive_probes, next_ping_time, interval, next_time, pc, caller,
                   network, history>>
-----------------------------------------------------------------------------
(* The broker, the network and the clock.                                    *)

BrokerSends ==
    /\ link = "up" /\ ~inbox
    /\ pc \notin {"connect", "connack"}
    /\ inbox' = TRUE
    /\ UNCHANGED <<client, pc, caller, user, link, history>>

LinkBreak ==
    /\ link = "up"
    /\ link' = "broken"
    /\ inbox' = FALSE
    /\ UNCHANGED <<client, pc, caller, user, history>>

\* Time passes where the thread waits; after a tick between two calls of
\* IOT_MQTT_Yield the next call is made.
Tick ==
    /\ pc \in {"idle", "wait", "pre_auth", "tcp", "connect", "connack"}
    /\ Goto(IF pc = "idle" THEN "keepalive" ELSE pc)
    /\ next_ping_time' = Less(next_ping_time)
    /\ next_time' = Less(next_time)
    /\ silence' = Upto(silence + 1, SilenceMax)
    /\ since_attempt' = Upto(since_attempt + 1, IntervalMin)
    /\ UNCHANGED <<client_state, keepalive_probes, interval, caller, user, network,
                   last_event, unanswered>>
-----------------------------------------------------------------------------
ConnectStep == \/ PreAuth \/ TcpConnect \/ SendConnect
               \/ ConnackAccepted \/ ConnackFail \/ PostAuth
KeepaliveStep == \/ KeepaliveNotDue \/ Ping \/ PingFail \/ KeepaliveReadState
                 \/ DisconnectCallback \/ SetReconnecting
                 \/ StartReconnect \/ ReconnectCallback
CycleStep == \/ CycleNotConnected \/ CycleConnected
             \/ ReadNothing \/ ReadPacket \/ ReadFail
ReleaseStep == Release \/ Released
UserStep(u) == UserChecksState(u) \/ UserWrites(u) \/ UserDisconnects(u)

Next ==
    \/ Construct \/ Yield \/ Destroy
    \/ ConnectStep \/ KeepaliveStep \/ CycleStep \/ ReleaseStep
    \/ \E u \in Users : UserStep(u)
    \/ BrokerSends \/ LinkBreak \/ Tick

Spec == Init /\ [][Next]_vars

\* The thread inside the SDK is scheduled, the clock goes on and with it the
\* calls of IOT_MQTT_Yield, a failed user thread comes to setting the state, and
\* a connection that can be made again and again is made.
Fairness ==
    /\ WF_vars(ConnectStep) /\ WF_vars(KeepaliveStep)
    /\ WF_vars(CycleStep) /\ WF_vars(ReleaseStep)
    /\ WF_vars(Tick)
    /\ \A u \in Users : WF_vars(UserWrites(u) \/ UserDisconnects(u))
    /\ SF_vars(PreAuth /\ pc' = "tcp")
    /\ SF_vars(TcpConnect /\ pc' = "connect")
    /\ SF_vars(SendConnect /\ pc' = "connack")
    /\ SF_vars(ConnackAccepted)

FairSpec == Spec /\ Fairness
-----------------------------------------------------------------------------
TypeOK ==
    /\ client_state \in States
    /\ keepalive_probes \in 0 .. ProbeMax + 1    \* a uint8_t in the code
    /\ next_ping_time \in 0 .. KeepAlive
    /\ interval \in IntervalMin .. 2 * IntervalMax
    /\ next_time \in 0 .. IntervalMax
    /\ pc \in Locs
    /\ caller \in {"construct", "yield"}
    /\ user \in [Users -> {"idle", "writing", "failed"}]
    /\ link \in {"none", "up", "broken"}
    /\ inbox \in BOOLEAN
    /\ last_event \in {"NONE", "DISCONNECT", "RECONNECT"}
    /\ unanswered \in 0 .. ProbeMax + 1
    /\ silence \in 0 .. SilenceMax
    /\ since_attempt \in 0 .. IntervalMin

\* A connection on which nothing arrives is given up after ProbeMax + 1 keepalive
\* periods, whatever the reconnections and failed authentications before it left
\* in the ping timer and the probe count (iotx_mc_keepalive_sub, iotx_mc_cycle).
SilentLinkGivenUp == Connected => silence <= (ProbeMax + 1) * KeepAlive

\* A new socket is opened only when the old one has been closed, however the
\* last attempt or the last connection ended (iotx_mc_connect): none leaks.
NoSocketLeak == pc = "tcp" => link = "none"

\* The application is told of a reconnection only after it has been told of the
\* loss, whatever the user threads have written to client_state meanwhile
\* (iotx_mc_reconnect_callback, iotx_mc_disconnect_callback).
ReconnectFollowsDisconnect == pc = "reconnect_cb" => last_event = "DISCONNECT"

\* Two attempts to connect are at least the minimum interval apart, whatever
\* mixture of failed attempts, lost connections and late writes of client_state
\* lies between them (iotx_mc_handle_reconnect, iotx_mc_keepalive).
NoReconnectStorm ==
    pc = "pre_auth" /\ caller = "yield" => since_attempt = IntervalMin

\* A lost connection is made again, unless the client is destroyed: no way of
\* failing ends the retries (iotx_mc_keepalive).
Recovers ==
    (client_state = "DISCONNECTED" /\ HasHandle) ~> (Connected \/ ~HasHandle)

\* iotx_mqtt_client.h calls IOTX_MC_KEEPALIVE_PROBE_MAX the number of pings that
\* may go unanswered: no connection is given up before that many of its own
\* pings have.  The code keeps the count across reconnections.
ProbesBelongToConnection ==
    pc = "cycle" /\ Connected /\ ProbesExceeded => unanswered >= ProbeMax
=============================================================================
