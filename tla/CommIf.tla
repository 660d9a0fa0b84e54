------------------------------- MODULE CommIf -------------------------------
(***************************************************************************)
(* The communication interface over MQTT (sdk/comm-if), the one task that  *)
(* calls it, and the task that reports the network.                        *)
(*                                                                         *)
(* delay(), which the MQTT client calls while it releases a client and     *)
(* after an error in IOT_MQTT_Yield, runs IOT_SYSTEM_Loop, and so          *)
(* IOT_Comm_Yield, again: the SDK task has a stack of calls, and a call    *)
(* deep in the stack may destroy what one further up is working on.  A     *)
(* frame is one activation; `at` is where it goes on when the frame above  *)
(* it returns.                                                             *)
(*                                                                         *)
(* pconn_info->pclient is not cleared when its client is destroyed.  A use *)
(* of a freed client is recorded in `undefined` and then has any outcome a *)
(* live one could have had; a crash is left out.                           *)
(***************************************************************************)
EXTENDS Naturals, Sequences, SequencesExt, FiniteSets

CONSTANTS Clients,        \* addresses of client structures
          NoClient,       \* the NULL pclient
          MaxNest,        \* bound: IOT_Comm_Yield activations on the stack
          IntervalMin,    \* IOTX_CONN_RECONNECT_INTERVAL_MIN_MS, in ticks
          IntervalMax     \* IOTX_CONN_RECONNECT_INTERVAL_MAX_MS, in ticks

ASSUME ClientsAssumption == NoClient \notin Clients
ASSUME NestAssumption == MaxNest \in Nat \ {0}
ASSUME IntervalAssumption ==
  /\ IntervalMin \in Nat \ {0}
  /\ IntervalMax \in Nat
  /\ IntervalMin <= IntervalMax

VARIABLES network_state, conn_state,
          reconnect_time_interval, reconnect_next_time,  \* ticks to wait
          pclient,      \* pconn_info->pclient
          heap,         \* which client structures are allocated
          mc_normal,    \* IOT_MQTT_CheckStateNormal of each of them
          stack,        \* the SDK task's calls; empty between them
          cloud_event,  \* history: the last cloud status the application got,
                        \* "disconnected" before the first
          asked,        \* history: "yes" since a Connect of the application, "no"
                        \* since its Disconnect and at first, "network" when the
                        \* network was found down after that
          gap,          \* history: ticks since the last reconnect attempt began
          undefined     \* history: a freed client was used

connVars == <<conn_state, cloud_event>>
timeVars == <<reconnect_time_interval, reconnect_next_time, gap>>
heapVars == <<pclient, heap, mc_normal, undefined>>
vars == <<network_state, connVars, timeVars, heapVars, stack, asked>>

ConnStates == {"INVALID", "INITIALIZED", "CONNECTED", "DISCONNECTED",
               "RECONNECTING"}

Frames ==
  [proc : {"loop"}, at : {"start", "check", "success", "failure"},
   client : {NoClient}]
    \cup [proc : {"yield"}, at : {"turn"}, client : Clients]
    \cup [proc : {"connect", "reconnect"}, at : {"construct", "failure"},
          client : {NoClient}]
    \cup [proc : {"connect", "reconnect"}, at : {"announce"}, client : Clients]
    \cup [proc : {"release"}, at : {"delay", "delay again"}, client : Clients]

Frame(p, a, c) == [proc |-> p, at |-> a, client |-> c]

-----------------------------------------------------------------------------
(* The stack of calls.                                                     *)

Top == stack[Len(stack)]
At(proc, at) == stack # <<>> /\ Top.proc \in proc /\ Top.at = at

Goto(at) == [Top EXCEPT !.at = at]
Replace(f) == Append(Front(stack), f)
Call(at, f) == Append(Replace(Goto(at)), f)

Nested == Len(SelectSeq(stack, LAMBDA f : f.proc = "loop"))

(* IOT_SYSTEM_Loop from delay(): below the bound a new activation.  A      *)
(* delay calls it again and again until its time is over.                  *)
DelayLoops(at) ==
  IF Nested < MaxNest THEN Call(at, Frame("loop", "start", NoClient))
  ELSE Replace(Goto(at))

(* A connection attempt returns: IOT_Comm_Connect acts on the result       *)
(* itself, iotx_conn_handle_reconnect's frame is the one below.            *)
ReturnFromConnect(result) ==
  IF Top.proc = "connect" THEN Front(stack)
  ELSE LET below == Front(stack)
       IN  [below EXCEPT ![Len(below)].at = result]

-----------------------------------------------------------------------------
(* Mutant of SetConnState: an explicit disconnection is not reported.      *)
SetConnStateQuiet(s) ==
  /\ conn_state' = s
  /\ cloud_event' =
       CASE conn_state # "CONNECTED" /\ s = "CONNECTED" -> "connected"
         [] conn_state = "CONNECTED" /\ s = "DISCONNECTED" -> "disconnected"
         [] OTHER -> cloud_event

(* iotx_set_conn_state: the notification and the state.                    *)
SetConnState(s) ==
  /\ conn_state' = s
  /\ cloud_event' =
       CASE conn_state # "CONNECTED" /\ s = "CONNECTED" -> "connected"
         [] conn_state = "CONNECTED" /\ s \in {"INITIALIZED", "DISCONNECTED"}
              -> "disconnected"
         [] OTHER -> cloud_event

NetworkUp == network_state = "CONNECTED"

FoundDown == asked' = IF asked = "no" THEN "network" ELSE asked

(* IOT_Network_IsConnected finds the network down and sets DISCONNECTED,   *)
(* whatever the state was.                                                 *)
NetworkLost == SetConnState("DISCONNECTED") /\ FoundDown

Use(c) == undefined' = (undefined \/ heap[c] # "live")
MayBeNormal(c) == heap[c] = "live" => mc_normal[c]
MayBeAbnormal(c) == heap[c] = "live" => ~mc_normal[c]
SetNormal(c, b) ==
  mc_normal' = IF heap[c] = "live" THEN [mc_normal EXCEPT ![c] = b]
               ELSE mc_normal

Holders == {pclient} \cup {stack[i].client : i \in DOMAIN stack}

(* An address malloc may return: a free one, or, as there is more memory   *)
(* than the model has, one whose client nothing can reach any more.        *)
Available(c) == heap[c] # "live" \/ c \notin Holders

(* malloc returns c.  A pointer left to a client that was freed there now  *)
(* points to the new one, which is as undefined as using it.               *)
Allocate(c, normal) ==
  /\ Available(c)
  /\ heap' = [heap EXCEPT ![c] = "live"]
  /\ mc_normal' = [mc_normal EXCEPT ![c] = normal]
  /\ undefined' = (undefined \/ c \in Holders)

Init ==
  /\ network_state = "DISCONNECTED"
  /\ conn_state = "INVALID"
  /\ reconnect_time_interval = 0
  /\ reconnect_next_time = 0
  /\ pclient = NoClient
  /\ heap = [c \in Clients |-> "free"]
  /\ mc_normal = [c \in Clients |-> FALSE]
  /\ stack = <<>>
  /\ cloud_event = "disconnected"
  /\ asked = "no"
  /\ gap = IntervalMin
  /\ undefined = FALSE

-----------------------------------------------------------------------------
(* The application, in the SDK's task between two calls of the loop.       *)

AppLoop ==
  /\ stack = <<>>
  /\ stack' = <<Frame("loop", "start", NoClient)>>
  /\ UNCHANGED <<network_state, connVars, timeVars, heapVars, asked>>

(* Every call of the application checks the network first.                 *)
AppNetworkDown ==
  /\ stack = <<>>
  /\ ~NetworkUp
  /\ NetworkLost
  /\ UNCHANGED <<network_state, timeVars, heapVars, stack>>

(* iotx_comm_connect begins with iotx_comm_disconnect, which releases      *)
(* what pclient points to.                                                 *)
StartConnect(frames, proc) ==
  LET connect == Append(frames, Frame(proc, "construct", NoClient))
  IN  IF pclient = NoClient THEN stack' = connect /\ UNCHANGED undefined
      ELSE /\ stack' = Append(connect, Frame("release", "delay", pclient))
           /\ Use(pclient)

AppConnect ==
  /\ stack = <<>>
  /\ NetworkUp
  /\ conn_state # "CONNECTED"
  /\ StartConnect(stack, "connect")
  /\ asked' = "yes"
  /\ UNCHANGED <<network_state, connVars, timeVars, pclient, heap, mc_normal>>

(* Mutant of AppDisconnect: the state of a lost connection.                *)
AppDisconnectAsLost ==
  /\ stack = <<>>
  /\ SetConnState("DISCONNECTED")
  /\ asked' = "no"
  /\ IF pclient = NoClient THEN UNCHANGED <<stack, undefined>>
     ELSE /\ stack' = <<Frame("release", "delay", pclient)>>
          /\ Use(pclient)
  /\ UNCHANGED <<network_state, timeVars, pclient, heap, mc_normal>>

AppDisconnect ==
  /\ stack = <<>>
  /\ SetConnState("INITIALIZED")
  /\ asked' = "no"
  /\ IF pclient = NoClient THEN UNCHANGED <<stack, undefined>>
     ELSE /\ stack' = <<Frame("release", "delay", pclient)>>
          /\ Use(pclient)
  /\ UNCHANGED <<network_state, timeVars, pclient, heap, mc_normal>>

(* IOT_Comm_SendData and IOT_Comm_SendActionReply: a failed send reports   *)
(* the interface disconnected, whatever the client's own state.            *)
SendFails ==
  /\ conn_state = "CONNECTED"
  /\ SetConnState("DISCONNECTED")
  /\ \E normal \in BOOLEAN :
       /\ normal => MayBeNormal(pclient)
       /\ SetNormal(pclient, normal)
  /\ Use(pclient)
  /\ UNCHANGED <<network_state, timeVars, pclient, heap, asked>>

AppSendFails == stack = <<>> /\ NetworkUp /\ SendFails /\ UNCHANGED stack

(* IOT_Comm_IsConnected called by the application.                         *)
AppFindsDisconnected ==
  /\ stack = <<>>
  /\ NetworkUp
  /\ conn_state = "CONNECTED"
  /\ MayBeAbnormal(pclient)
  /\ SetConnState("DISCONNECTED")
  /\ Use(pclient)
  /\ UNCHANGED <<network_state, timeVars, pclient, heap, mc_normal, stack, asked>>

-----------------------------------------------------------------------------
(* IOT_Comm_Yield.                                                         *)

LoopNetworkDown ==
  /\ At({"loop"}, "start")
  /\ ~NetworkUp
  /\ NetworkLost
  /\ stack' = Front(stack)
  /\ UNCHANGED <<network_state, timeVars, heapVars>>

(* iotx_comm_yield comes before any look at conn_state.                    *)
LoopYield ==
  /\ At({"loop"}, "start")
  /\ NetworkUp
  /\ stack' = IF pclient = NoClient THEN Replace(Goto("check"))
              ELSE Call("check", Frame("yield", "turn", pclient))
  /\ UNCHANGED <<network_state, connVars, timeVars, heapVars, asked>>

(* IOT_Comm_IsConnected holds: the due datapoints are sent.                *)
LoopConnected ==
  /\ At({"loop"}, "check")
  /\ NetworkUp
  /\ conn_state = "CONNECTED"
  /\ MayBeNormal(pclient)
  /\ stack' = Front(stack)
  /\ \/ /\ Use(pclient)
        /\ UNCHANGED <<network_state, connVars, timeVars, pclient, heap,
                       mc_normal, asked>>
     \/ SendFails

(* Mutant of LoopDisconnected: the wait starts again in RECONNECTING.      *)
LoopDisconnectedRearms ==
  /\ At({"loop"}, "check")
  /\ \/ /\ ~NetworkUp
        /\ FoundDown
        /\ UNCHANGED undefined
     \/ /\ NetworkUp
        /\ conn_state = "CONNECTED"
        /\ MayBeAbnormal(pclient)
        /\ Use(pclient)
        /\ UNCHANGED asked
     \/ /\ NetworkUp
        /\ conn_state \in {"DISCONNECTED", "RECONNECTING"}
        /\ UNCHANGED <<asked, undefined>>
  /\ conn_state' = "RECONNECTING"
  /\ cloud_event' = IF conn_state = "CONNECTED" THEN "disconnected"
                    ELSE cloud_event
  /\ reconnect_time_interval' = IntervalMin
  /\ reconnect_next_time' = IntervalMin
  /\ stack' = Front(stack)
  /\ UNCHANGED <<network_state, gap, pclient, heap, mc_normal>>

(* It does not, and the state it leaves is DISCONNECTED: the wait for the  *)
(* first attempt starts.                                                   *)
LoopDisconnected ==
  /\ At({"loop"}, "check")
  /\ \/ /\ ~NetworkUp
        /\ FoundDown
        /\ UNCHANGED undefined
     \/ /\ NetworkUp
        /\ conn_state = "CONNECTED"
        /\ MayBeAbnormal(pclient)
        /\ Use(pclient)
        /\ UNCHANGED asked
     \/ /\ NetworkUp
        /\ conn_state = "DISCONNECTED"
        /\ UNCHANGED <<asked, undefined>>
  /\ conn_state' = "RECONNECTING"
  /\ cloud_event' = IF conn_state = "CONNECTED" THEN "disconnected"
                    ELSE cloud_event
  /\ reconnect_time_interval' = IntervalMin
  /\ reconnect_next_time' = IntervalMin
  /\ stack' = Front(stack)
  /\ UNCHANGED <<network_state, gap, pclient, heap, mc_normal>>

LoopIdle ==
  /\ At({"loop"}, "check")
  /\ NetworkUp
  /\ \/ conn_state \in {"INVALID", "INITIALIZED"}
     \/ conn_state = "RECONNECTING" /\ reconnect_next_time > 0
  /\ stack' = Front(stack)
  /\ UNCHANGED <<network_state, connVars, timeVars, heapVars, asked>>

(* iotx_conn_handle_reconnect, up to the call of iotx_comm_connect.        *)
LoopReconnects ==
  /\ At({"loop"}, "check")
  /\ NetworkUp
  /\ conn_state = "RECONNECTING"
  /\ reconnect_next_time = 0
  /\ StartConnect(stack, "reconnect")
  /\ gap' = 0
  /\ UNCHANGED <<network_state, connVars, reconnect_time_interval,
                 reconnect_next_time, pclient, heap, mc_normal, asked>>

LoopReconnected ==
  /\ At({"loop"}, "success")
  /\ SetConnState("CONNECTED")
  /\ reconnect_time_interval' = IntervalMax
  /\ stack' = Front(stack)
  /\ UNCHANGED <<network_state, reconnect_next_time, gap, heapVars, asked>>

LoopReconnectFailed ==
  /\ At({"loop"}, "failure")
  /\ reconnect_time_interval' =
       IF reconnect_time_interval < IntervalMax THEN 2 * reconnect_time_interval
       ELSE IntervalMin
  /\ \E random \in 0 .. reconnect_time_interval' :
       /\ random < reconnect_time_interval' \/ random = 0
       /\ reconnect_next_time' =
            IF reconnect_time_interval' + random > IntervalMax THEN IntervalMax
            ELSE reconnect_time_interval' + random
  /\ stack' = Front(stack)
  /\ UNCHANGED <<network_state, connVars, gap, heapVars, asked>>

-----------------------------------------------------------------------------
(* IOT_MQTT_Yield as the interface uses it: its client has no reconnection *)
(* of its own.                                                             *)

(* The time is over, after a turn that succeeded or failed.                *)
YieldEnds ==
  /\ At({"yield"}, "turn")
  /\ Use(Top.client)
  /\ UNCHANGED mc_normal \/ SetNormal(Top.client, FALSE)
  /\ stack' = Front(stack)
  /\ UNCHANGED <<network_state, connVars, timeVars, pclient, heap, asked>>

(* A turn of the loop fails, because the read failed or the client was not *)
(* connected in the first place, and delay(20) runs the loop.              *)
YieldFails ==
  /\ At({"yield"}, "turn")
  /\ Use(Top.client)
  /\ SetNormal(Top.client, FALSE)
  /\ stack' = DelayLoops("turn")
  /\ UNCHANGED <<network_state, connVars, timeVars, pclient, heap, asked>>

-----------------------------------------------------------------------------
(* iotx_comm_connect.                                                      *)

(* IOT_MQTT_Construct succeeds.                                            *)
Construct ==
  /\ At({"connect", "reconnect"}, "construct")
  /\ \E c \in Clients :
       /\ Allocate(c, TRUE)
       /\ stack' = Replace(Frame(Top.proc, "announce", c))
  /\ UNCHANGED <<network_state, connVars, timeVars, pclient, asked>>

(* The client is made but its connection is not: Construct releases it.    *)
(* A failed post-authentication leaves it in the state CONNECTED.          *)
ConstructFails ==
  /\ At({"connect", "reconnect"}, "construct")
  /\ \E c \in Clients, normal \in BOOLEAN :
       /\ Allocate(c, normal)
       /\ stack' = Call("failure", Frame("release", "delay", c))
  /\ UNCHANGED <<network_state, connVars, timeVars, pclient, asked>>

ConstructNoMemory ==
  /\ At({"connect", "reconnect"}, "construct")
  /\ stack' = Replace(Goto("failure"))
  /\ UNCHANGED <<network_state, connVars, timeVars, heapVars, asked>>

(* Mutant of Announced: the connection succeeds, pclient is not set.       *)
AnnouncedNotStored ==
  /\ At({"connect", "reconnect"}, "announce")
  /\ Use(Top.client)
  /\ UNCHANGED pclient
  /\ stack' = ReturnFromConnect("success")
  /\ IF Top.proc = "connect" THEN SetConnState("CONNECTED")
     ELSE UNCHANGED connVars
  /\ UNCHANGED <<network_state, timeVars, heap, mc_normal, asked>>

(* The subscriptions and the info message are sent.                        *)
Announced ==
  /\ At({"connect", "reconnect"}, "announce")
  /\ Use(Top.client)
  /\ pclient' = Top.client
  /\ stack' = ReturnFromConnect("success")
  /\ IF Top.proc = "connect" THEN SetConnState("CONNECTED")
     ELSE UNCHANGED connVars
  /\ UNCHANGED <<network_state, timeVars, heap, mc_normal, asked>>

(* One of them fails.  The buffers are freed before the client; if it is   *)
(* still connected, releasing it writes the DISCONNECT packet to the freed *)
(* buffer.                                                                 *)
AnnounceFails ==
  /\ At({"connect", "reconnect"}, "announce")
  /\ \E normal \in BOOLEAN :
       /\ SetNormal(Top.client, normal)
       /\ undefined' = (undefined \/ normal \/ heap[Top.client] # "live")
  /\ stack' = Append(Replace(Frame(Top.proc, "failure", NoClient)),
                     Frame("release", "delay", Top.client))
  /\ UNCHANGED <<network_state, connVars, timeVars, pclient, heap, asked>>

ConnectFailed ==
  /\ At({"connect", "reconnect"}, "failure")
  /\ stack' = ReturnFromConnect("failure")
  /\ IF Top.proc = "connect" THEN SetConnState("DISCONNECTED")
     ELSE UNCHANGED connVars
  /\ UNCHANGED <<network_state, timeVars, heapVars, asked>>

-----------------------------------------------------------------------------
(* iotx_mc_release, of IOT_MQTT_Destroy and of a failed construction.      *)

ReleaseDelays ==
  /\ At({"release"}, "delay") \/ At({"release"}, "delay again")
  /\ stack' = DelayLoops(Top.at)
  /\ UNCHANGED <<network_state, connVars, timeVars, heapVars, asked>>

(* The time of the first delay is over.                                    *)
ReleaseDisconnects ==
  /\ At({"release"}, "delay")
  /\ Use(Top.client)
  /\ SetNormal(Top.client, FALSE)
  /\ stack' = Replace(Goto("delay again"))
  /\ UNCHANGED <<network_state, connVars, timeVars, pclient, heap, asked>>

(* The time of the second is.                                              *)
ReleaseFrees ==
  /\ At({"release"}, "delay again")
  /\ Use(Top.client)
  /\ heap' = [heap EXCEPT ![Top.client] = "free"]
  /\ stack' = Front(stack)
  /\ UNCHANGED <<network_state, connVars, timeVars, pclient, mc_normal, asked>>

-----------------------------------------------------------------------------
(* The network's task calls IOT_Network_SetState.                          *)
NetworkChanges ==
  /\ network_state' = IF NetworkUp THEN "DISCONNECTED" ELSE "CONNECTED"
  /\ UNCHANGED <<connVars, timeVars, heapVars, stack, asked>>

(* The clock.                                                              *)
Tick ==
  /\ reconnect_next_time > 0 \/ gap < IntervalMin
  /\ reconnect_next_time' = IF reconnect_next_time > 0
                            THEN reconnect_next_time - 1 ELSE 0
  /\ gap' = IF gap < IntervalMin THEN gap + 1 ELSE gap
  /\ UNCHANGED <<network_state, connVars, reconnect_time_interval, heapVars,
                 stack, asked>>

App == AppNetworkDown \/ AppConnect \/ AppDisconnect \/ AppSendFails
         \/ AppFindsDisconnected
Loop == LoopNetworkDown \/ LoopYield \/ LoopConnected \/ LoopDisconnected
          \/ LoopIdle \/ LoopReconnects \/ LoopReconnected \/ LoopReconnectFailed
Connecting == Construct \/ ConstructFails \/ ConstructNoMemory \/ Announced
                \/ AnnounceFails \/ ConnectFailed
Releasing == ReleaseDisconnects \/ ReleaseFrees

Next == AppLoop \/ App \/ Loop \/ YieldEnds \/ YieldFails \/ Connecting
          \/ ReleaseDelays \/ Releasing \/ NetworkChanges \/ Tick

Spec == Init /\ [][Next]_vars

(* The application keeps calling the loop, the SDK's task runs, a yield    *)
(* and a delay end by the clock, and an attempt made again and again       *)
(* succeeds once.                                                          *)
Fairness ==
  /\ WF_vars(AppLoop \/ Loop \/ Connecting)
  /\ SF_vars(YieldEnds \/ Releasing)
  /\ SF_vars(Construct) /\ SF_vars(Announced)
  /\ WF_vars(Tick)

FairSpec == Spec /\ Fairness

-----------------------------------------------------------------------------
(* The types of all variables, the bound on nested loops included.         *)
TypeOK ==
  /\ network_state \in {"DISCONNECTED", "CONNECTED"}
  /\ conn_state \in ConnStates
  /\ reconnect_time_interval \in 0 .. 2 * IntervalMax
  /\ reconnect_next_time \in 0 .. IntervalMax
  /\ pclient \in Clients \cup {NoClient}
  /\ heap \in [Clients -> {"free", "live"}]
  /\ mc_normal \in [Clients -> BOOLEAN]
  /\ stack \in Seq(Frames)
  /\ Nested <= MaxNest
  /\ cloud_event \in {"connected", "disconnected"}
  /\ asked \in {"no", "yes", "network"}
  /\ gap \in 0 .. IntervalMin
  /\ undefined \in BOOLEAN

(* As long as no freed client has been used, a connected interface has a   *)
(* client: the test of CONNECTED is what keeps IOT_Comm_SendData and       *)
(* IOT_Comm_IsConnected from the dangling pclient that every other state   *)
(* may have.                                                               *)
ConnectedHasLiveClient ==
  conn_state = "CONNECTED" /\ ~undefined =>
    pclient \in Clients /\ heap[pclient] = "live"

(* What the application was last told is what the interface believes, with *)
(* every way of losing a connection reported once, whichever nested call   *)
(* noticed it.                                                             *)
EventsMatchState == cloud_event = "connected" <=> conn_state = "CONNECTED"

(* The loop reconnects by itself only if the application asked for the     *)
(* connection and has not given it up since, or the network was found down *)
(* after it did: nothing else brings a connection back, neither the loops  *)
(* nested in IOT_Comm_Disconnect nor an attempt of theirs that fails.      *)
(* That a lost network does is what IOT_Network_IsConnected writes.        *)
NoUnaskedReconnect == [][LoopReconnects => asked \in {"yes", "network"}]_vars

(* A lost connection is made again as long as the network stays.           *)
Recovers ==
  conn_state \in {"DISCONNECTED", "RECONNECTING"} ~>
    \/ conn_state \in {"CONNECTED", "INITIALIZED"}
    \/ ~NetworkUp

(* iotx_comm_if_api.h gives a minimum interval of reconnect: two attempts  *)
(* of the loop begin at least so far apart.                                *)
AttemptsKeepInterval == [][LoopReconnects => gap >= IntervalMin]_vars

=============================================================================
