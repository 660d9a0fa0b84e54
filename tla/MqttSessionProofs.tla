------------------------- MODULE MqttSessionProofs --------------------------
(***************************************************************************)
(* Theorems about MqttSession for every number of user threads, keepalive   *)
(* period, probe limit and reconnection interval.  One inductive invariant  *)
(* carries them: where the thread that owns the client can be in each       *)
(* client_state, what the socket, the events and the back-off timer are     *)
(* there, and how much of the silence the pings still to come allow.        *)
(***************************************************************************)
EXTENDS MqttSession, TLAPS

Attempting == {"tcp", "connect", "connack", "post_auth", "reconnect_cb"}

\* Where the client can be CONNECTED, and with which probe count it goes on.
Phase ==
    /\ Connected => pc \in {"post_auth", "idle", "keepalive", "check", "reconnect_cb",
                            "cycle", "read", "release"}
    /\ Connected /\ pc \in {"idle", "keepalive", "read"} => keepalive_probes <= ProbeMax
    /\ Connected => unanswered <= keepalive_probes
    /\ pc \in {"connect", "connack", "post_auth"} => unanswered = 0
    /\ pc \in {"pre_auth", "post_auth"} \cup Attempting /\ caller = "construct" =>
           keepalive_probes = 0
    /\ pc \in {"post_auth", "reconnect_cb"} => client_state # "RECONNECTING"

Socket ==
    /\ pc \in {"out", "released", "pre_auth", "tcp", "wait"} => link = "none"
    /\ client_state = "RECONNECTING" /\ pc \notin {"connect", "connack"} => link = "none"

Events ==
    /\ client_state = "RECONNECTING" => last_event = "DISCONNECT"
    /\ pc \in {"reconnecting", "wait"} => last_event = "DISCONNECT"
    /\ pc \in {"pre_auth"} \cup Attempting /\ caller = "yield" => last_event = "DISCONNECT"
    /\ pc = "reconnect_cb" => caller = "yield"

Backoff ==
    /\ pc \in {"reconnecting", "wait"} => since_attempt + next_time >= IntervalMin
    /\ client_state = "RECONNECTING" /\ pc \notin Attempting \cup {"release"} =>
           since_attempt + next_time >= IntervalMin
    /\ pc = "pre_auth" /\ caller = "yield" => since_attempt = IntervalMin

\* The silence so far, the time to the next ping and the periods of the pings
\* that may still go unanswered together do not exceed the limit.
Allowed(probes) == (ProbeMax - probes) * KeepAlive
Limit == (ProbeMax + 1) * KeepAlive

Silence ==
    /\ Connected => /\ silence <= Limit
                    /\ silence + next_ping_time + Allowed(keepalive_probes) <= Limit
    /\ Connected /\ next_ping_time = 0 /\ pc # "keepalive" => silence = 0
    /\ pc = "post_auth" => silence = 0

IInv == TypeOK /\ Phase /\ Socket /\ Events /\ Backoff /\ Silence
-----------------------------------------------------------------------------
LEMMA SilenceRange == Limit \in Nat /\ SilenceMax = Limit + 1
<1>1. ASSUME NEW a \in Nat, NEW k \in Nat PROVE a * k \in Nat
  OBVIOUS
<1> QED
  BY <1>1, SessionAssumption DEF Limit, SilenceMax

LEMMA AllowedPeriods ==
    /\ Limit = Allowed(0) + KeepAlive
    /\ \A p \in Nat : /\ Allowed(p) \in Int
                      /\ Allowed(p + 1) = Allowed(p) - KeepAlive
                      /\ Allowed(p) <= Allowed(0)
                      /\ p <= ProbeMax => Allowed(p) >= 0
<1>1. ASSUME NEW a \in Int, NEW k \in Int PROVE (a - 1) * k = a * k - k
  OBVIOUS
<1>2. ASSUME NEW a \in Nat, NEW k \in Nat PROVE a * k \in Nat
  OBVIOUS
<1>4. Limit = Allowed(0) + KeepAlive
  <2>1. (ProbeMax + 1 - 1) * KeepAlive = (ProbeMax + 1) * KeepAlive - KeepAlive
    BY <1>1, SessionAssumption
  <2>2. ProbeMax + 1 - 1 = ProbeMax - 0
    BY SessionAssumption
  <2>3. (ProbeMax + 1) * KeepAlive \in Nat
    BY <1>2, SessionAssumption
  <2> QED
    BY <2>1, <2>2, <2>3, SessionAssumption DEF Limit, Allowed
<1>5. ASSUME NEW p \in Nat
      PROVE  /\ Allowed(p) \in Int
             /\ Allowed(p + 1) = Allowed(p) - KeepAlive
             /\ Allowed(p) <= Allowed(0)
             /\ p <= ProbeMax => Allowed(p) >= 0
  <2>1. Allowed(p) \in Int
    BY SessionAssumption DEF Allowed
  <2>2. Allowed(p + 1) = Allowed(p) - KeepAlive
    <3>1. (ProbeMax - p - 1) * KeepAlive = (ProbeMax - p) * KeepAlive - KeepAlive
      BY <1>1, SessionAssumption
    <3>2. ProbeMax - p - 1 = ProbeMax - (p + 1)
      BY SessionAssumption
    <3> QED
      BY <3>1, <3>2 DEF Allowed
  <2>3. Allowed(p) <= Allowed(0)
    <3>1. p * KeepAlive \in Nat
      BY <1>2, SessionAssumption
    <3>2. (ProbeMax - p) * KeepAlive = ProbeMax * KeepAlive - p * KeepAlive
      BY SessionAssumption
    <3>3. (ProbeMax - 0) * KeepAlive = ProbeMax * KeepAlive
      BY SessionAssumption
    <3>4. ProbeMax * KeepAlive \in Nat
      BY <1>2, SessionAssumption
    <3> QED
      BY <3>1, <3>2, <3>3, <3>4 DEF Allowed
  <2>4. ASSUME p <= ProbeMax PROVE Allowed(p) >= 0
    <3>1. ProbeMax - p \in Nat
      BY <2>4, SessionAssumption
    <3> QED
      BY <1>2, <3>1, SessionAssumption DEF Allowed
  <2> QED
    BY <2>1, <2>2, <2>3, <2>4
<1> QED
  BY <1>4, <1>5

LEMMA FailedAttempt ==
    ASSUME IInv, ConnectFails
    PROVE  /\ pc' = IF caller = "construct" THEN "release" ELSE "cycle"
           /\ caller = "construct" => interval' = interval /\ next_time' = next_time
           /\ caller = "yield" => next_time' \in IntervalMin .. IntervalMax
           /\ interval' \in IntervalMin .. 2 * IntervalMax
           /\ next_time' \in 0 .. IntervalMax
BY SessionAssumption DEF IInv, TypeOK, ConnectFails, Goto, Upto

LEMMA InitialState == Init => IInv
<1> SUFFICES ASSUME Init PROVE IInv
  OBVIOUS
<1>1. TypeOK
  <2>1. unanswered \in 0 .. ProbeMax + 1 /\ keepalive_probes \in 0 .. ProbeMax + 1
    BY SessionAssumption DEF Init
  <2>2. silence \in 0 .. SilenceMax
    BY SilenceRange DEF Init
  <2>3. /\ next_ping_time \in 0 .. KeepAlive /\ next_time \in 0 .. IntervalMax
        /\ interval \in IntervalMin .. 2 * IntervalMax /\ since_attempt \in 0 .. IntervalMin
    BY SessionAssumption DEF Init
  <2> QED
    BY <2>1, <2>2, <2>3 DEF Init, TypeOK, States, Locs
<1>2. Phase /\ Socket /\ Events
  BY DEF Init, Phase, Socket, Events, Connected, Attempting
<1>3. Backoff /\ Silence
  BY SessionAssumption DEF Init, Backoff, Silence, Connected, Attempting
<1> QED
  BY <1>1, <1>2, <1>3 DEF IInv

LEMMA Step == IInv /\ [Next]_vars => IInv'
<1> SUFFICES ASSUME IInv, [Next]_vars PROVE IInv'
  OBVIOUS
<1> USE SessionAssumption DEF Attempting, Goto, client, network, history
<1>1. CASE PreAuth
  <2>1. TypeOK'
    BY <1>1, FailedAttempt, SilenceRange
       DEF PreAuth, IInv, TypeOK, Phase, States, Locs, Connected, Less, Upto
  <2>2. Phase'
    BY <1>1, FailedAttempt DEF PreAuth, IInv, TypeOK, Phase, Connected
  <2>3. Socket'
    BY <1>1, FailedAttempt DEF PreAuth, IInv, Socket, TypeOK
  <2>4. Events'
    BY <1>1, FailedAttempt DEF PreAuth, IInv, Events, Phase, TypeOK
  <2>5. Backoff'
    BY <1>1, FailedAttempt DEF PreAuth, IInv, TypeOK, Phase, Backoff, Events, Less, Upto
  <2>6. Silence'
    BY <1>1, FailedAttempt, SilenceRange, AllowedPeriods
       DEF PreAuth, IInv, TypeOK, Phase, Silence, Connected, Less, Upto
  <2> QED
    BY <2>1, <2>2, <2>3, <2>4, <2>5, <2>6 DEF IInv
<1>2. CASE TcpConnect
  <2>1. TypeOK'
    <3>1. unanswered' \in 0 .. ProbeMax + 1
      BY <1>2 DEF TcpConnect
    <3> QED
      BY <1>2, <3>1, FailedAttempt, SilenceRange DEF TcpConnect, IInv, TypeOK, States, Locs
  <2>2. Phase'
    BY <1>2, FailedAttempt DEF TcpConnect, IInv, TypeOK, Phase, Connected
  <2>3. Socket'
    BY <1>2, FailedAttempt DEF TcpConnect, IInv, Socket, TypeOK
  <2>4. Events'
    BY <1>2, FailedAttempt DEF TcpConnect, IInv, Events, Phase, TypeOK
  <2>5. Backoff'
    BY <1>2, FailedAttempt DEF TcpConnect, IInv, TypeOK, Phase, Backoff, Events, Less, Upto
  <2>6. Silence'
    BY <1>2, FailedAttempt, SilenceRange, AllowedPeriods
       DEF TcpConnect, IInv, TypeOK, Phase, Silence, Connected, Less, Upto
  <2> QED
    BY <2>1, <2>2, <2>3, <2>4, <2>5, <2>6 DEF IInv
<1>3. CASE SendConnect
  <2>1. TypeOK'
    BY <1>3, FailedAttempt, SilenceRange
       DEF SendConnect, IInv, TypeOK, Phase, States, Locs, Connected, Less, Upto
  <2>2. Phase'
    BY <1>3, FailedAttempt DEF SendConnect, IInv, TypeOK, Phase, Connected
  <2>3. Socket'
    BY <1>3, FailedAttempt DEF SendConnect, IInv, Socket, TypeOK
  <2>4. Events'
    BY <1>3, FailedAttempt DEF SendConnect, IInv, Events, Phase, TypeOK
  <2>5. Backoff'
    BY <1>3, FailedAttempt DEF SendConnect, IInv, TypeOK, Phase, Backoff, Events, Less, Upto
  <2>6. Silence'
    BY <1>3, FailedAttempt, SilenceRange, AllowedPeriods
       DEF SendConnect, IInv, TypeOK, Phase, Silence, Connected, Less, Upto
  <2> QED
    BY <2>1, <2>2, <2>3, <2>4, <2>5, <2>6 DEF IInv
<1>4. CASE ConnackAccepted
  <2>1. TypeOK'
    BY <1>4, SilenceRange
       DEF ConnackAccepted, IInv, TypeOK, Phase, States, Locs, Connected, Less, Upto
  <2>2. Phase'
    BY <1>4 DEF ConnackAccepted, IInv, TypeOK, Phase, Connected
  <2>3. Socket'
    BY <1>4 DEF ConnackAccepted, IInv, Socket, TypeOK
  <2>4. Events'
    BY <1>4 DEF ConnackAccepted, IInv, Events, Phase, TypeOK
  <2>5. Backoff'
    BY <1>4 DEF ConnackAccepted, IInv, TypeOK, Phase, Backoff, Events, Less, Upto
  <2>6. Silence'
    BY <1>4, SilenceRange, AllowedPeriods
       DEF ConnackAccepted, IInv, TypeOK, Phase, Silence, Connected, Less, Upto
  <2> QED
    BY <2>1, <2>2, <2>3, <2>4, <2>5, <2>6 DEF IInv
<1>5. CASE ConnackFail
  <2>1. TypeOK'
    BY <1>5, FailedAttempt, SilenceRange
       DEF ConnackFail, IInv, TypeOK, Phase, States, Locs, Connected, Less, Upto
  <2>2. Phase'
    BY <1>5, FailedAttempt DEF ConnackFail, IInv, TypeOK, Phase, Connected
  <2>3. Socket'
    BY <1>5, FailedAttempt DEF ConnackFail, IInv, Socket, TypeOK
  <2>4. Events'
    BY <1>5, FailedAttempt DEF ConnackFail, IInv, Events, Phase, TypeOK
  <2>5. Backoff'
    BY <1>5, FailedAttempt DEF ConnackFail, IInv, TypeOK, Phase, Backoff, Events, Less, Upto
  <2>6. Silence'
    BY <1>5, FailedAttempt, SilenceRange, AllowedPeriods
       DEF ConnackFail, IInv, TypeOK, Phase, Silence, Connected, Less, Upto
  <2> QED
    BY <2>1, <2>2, <2>3, <2>4, <2>5, <2>6 DEF IInv
<1>6. CASE PostAuth
  <2>1. TypeOK'
    BY <1>6, FailedAttempt, SilenceRange
       DEF PostAuth, IInv, TypeOK, Phase, States, Locs, Connected, Less, Upto
  <2>2. Phase'
    BY <1>6, FailedAttempt DEF PostAuth, IInv, TypeOK, Phase, Connected
  <2>3. Socket'
    BY <1>6, FailedAttempt DEF PostAuth, IInv, Socket, TypeOK
  <2>4. Events'
    BY <1>6, FailedAttempt DEF PostAuth, IInv, Events, Phase, TypeOK
  <2>5. Backoff'
    BY <1>6, FailedAttempt DEF PostAuth, IInv, TypeOK, Phase, Backoff, Events, Less, Upto
  <2>6. Silence'
    BY <1>6, FailedAttempt, SilenceRange, AllowedPeriods
       DEF PostAuth, IInv, TypeOK, Phase, Silence, Connected, Less, Upto
  <2> QED
    BY <2>1, <2>2, <2>3, <2>4, <2>5, <2>6 DEF IInv
<1>7. CASE KeepaliveNotDue
  <2>1. TypeOK'
    BY <1>7, SilenceRange
       DEF KeepaliveNotDue, IInv, TypeOK, Phase, States, Locs, Connected, Less, Upto,
           PingDue
  <2>2. Phase'
    BY <1>7 DEF KeepaliveNotDue, IInv, TypeOK, Phase, Connected, PingDue
  <2>3. Socket'
    BY <1>7 DEF KeepaliveNotDue, IInv, Socket, TypeOK, PingDue
  <2>4. Events'
    BY <1>7 DEF KeepaliveNotDue, IInv, Events, Phase, TypeOK, PingDue
  <2>5. Backoff'
    BY <1>7 DEF KeepaliveNotDue, IInv, TypeOK, Phase, Backoff, Events, Less, Upto, PingDue
  <2>6. Silence'
    BY <1>7, SilenceRange, AllowedPeriods
       DEF KeepaliveNotDue, IInv, TypeOK, Phase, Silence, Connected, Less, Upto, PingDue
  <2> QED
    BY <2>1, <2>2, <2>3, <2>4, <2>5, <2>6 DEF IInv
<1>8. CASE Ping
  <2>1. TypeOK'
    BY <1>8, SilenceRange
       DEF Ping, IInv, TypeOK, Phase, States, Locs, Connected, Less, Upto, PingDue
  <2>2. Phase'
    BY <1>8 DEF Ping, IInv, TypeOK, Phase, Connected, PingDue
  <2>3. Socket'
    BY <1>8 DEF Ping, IInv, Socket, TypeOK, PingDue, Connected
  <2>4. Events'
    BY <1>8 DEF Ping, IInv, Events, Phase, TypeOK, PingDue, Connected
  <2>5. Backoff'
    BY <1>8 DEF Ping, IInv, TypeOK, Phase, Backoff, Events, Less, Upto, PingDue, Connected
  <2>6. Silence'
    BY <1>8, SilenceRange, AllowedPeriods
       DEF Ping, IInv, TypeOK, Phase, Silence, Connected, Less, Upto, PingDue
  <2> QED
    BY <2>1, <2>2, <2>3, <2>4, <2>5, <2>6 DEF IInv
<1>9. CASE PingFail
  <2>1. TypeOK'
    BY <1>9, SilenceRange
       DEF PingFail, IInv, TypeOK, Phase, States, Locs, Connected, Less, Upto, PingDue
  <2>2. Phase'
    BY <1>9 DEF PingFail, IInv, TypeOK, Phase, Connected, PingDue
  <2>3. Socket'
    BY <1>9 DEF PingFail, IInv, Socket, TypeOK, PingDue, Connected
  <2>4. Events'
    BY <1>9 DEF PingFail, IInv, Events, Phase, TypeOK, PingDue, Connected
  <2>5. Backoff'
    BY <1>9
       DEF PingFail, IInv, TypeOK, Phase, Backoff, Events, Less, Upto, PingDue, Connected
  <2>6. Silence'
    BY <1>9, SilenceRange, AllowedPeriods
       DEF PingFail, IInv, TypeOK, Phase, Silence, Connected, Less, Upto, PingDue
  <2> QED
    BY <2>1, <2>2, <2>3, <2>4, <2>5, <2>6 DEF IInv
<1>10. CASE KeepaliveReadState
  <2>1. TypeOK'
    BY <1>10, SilenceRange
       DEF KeepaliveReadState, IInv, TypeOK, Phase, States, Locs, Connected, Less, Upto,
           NextInKeepalive
  <2>2. Phase'
    BY <1>10 DEF KeepaliveReadState, IInv, TypeOK, Phase, Connected, NextInKeepalive
  <2>3. Socket'
    BY <1>10 DEF KeepaliveReadState, IInv, Socket, TypeOK, NextInKeepalive
  <2>4. Events'
    BY <1>10 DEF KeepaliveReadState, IInv, Events, Phase, TypeOK, NextInKeepalive
  <2>5. Backoff'
    BY <1>10
       DEF KeepaliveReadState, IInv, TypeOK, Phase, Backoff, Events, Less, Upto,
           NextInKeepalive
  <2>6. Silence'
    BY <1>10, SilenceRange, AllowedPeriods
       DEF KeepaliveReadState, IInv, TypeOK, Phase, Silence, Connected, Less, Upto,
           NextInKeepalive
  <2> QED
    BY <2>1, <2>2, <2>3, <2>4, <2>5, <2>6 DEF IInv
<1>11. CASE DisconnectCallback
  <2>1. TypeOK'
    BY <1>11, SilenceRange
       DEF DisconnectCallback, IInv, TypeOK, Phase, States, Locs, Connected, Less, Upto
  <2>2. Phase'
    BY <1>11 DEF DisconnectCallback, IInv, TypeOK, Phase, Connected
  <2>3. Socket'
    BY <1>11 DEF DisconnectCallback, IInv, Socket, TypeOK
  <2>4. Events'
    BY <1>11 DEF DisconnectCallback, IInv, Events, Phase, TypeOK
  <2>5. Backoff'
    BY <1>11 DEF DisconnectCallback, IInv, TypeOK, Phase, Backoff, Events, Less, Upto
  <2>6. Silence'
    BY <1>11, SilenceRange, AllowedPeriods
       DEF DisconnectCallback, IInv, TypeOK, Phase, Silence, Connected, Less, Upto
  <2> QED
    BY <2>1, <2>2, <2>3, <2>4, <2>5, <2>6 DEF IInv
<1>12. CASE SetReconnecting
  <2>1. TypeOK'
    BY <1>12, SilenceRange
       DEF SetReconnecting, IInv, TypeOK, Phase, States, Locs, Connected, Less, Upto
  <2>2. Phase'
    BY <1>12 DEF SetReconnecting, IInv, TypeOK, Phase, Connected
  <2>3. Socket'
    BY <1>12 DEF SetReconnecting, IInv, Socket, TypeOK
  <2>4. Events'
    BY <1>12 DEF SetReconnecting, IInv, Events, Phase, TypeOK
  <2>5. Backoff'
    BY <1>12 DEF SetReconnecting, IInv, TypeOK, Phase, Backoff, Events, Less, Upto
  <2>6. Silence'
    BY <1>12, SilenceRange, AllowedPeriods
       DEF SetReconnecting, IInv, TypeOK, Phase, Silence, Connected, Less, Upto
  <2> QED
    BY <2>1, <2>2, <2>3, <2>4, <2>5, <2>6 DEF IInv
<1>13. CASE StartReconnect
  <2>1. TypeOK'
    BY <1>13, SilenceRange
       DEF StartReconnect, IInv, TypeOK, Phase, States, Locs, Connected, Less, Upto
  <2>2. Phase'
    BY <1>13 DEF StartReconnect, IInv, TypeOK, Phase, Connected
  <2>3. Socket'
    BY <1>13 DEF StartReconnect, IInv, Socket, TypeOK
  <2>4. Events'
    BY <1>13 DEF StartReconnect, IInv, Events, Phase, TypeOK
  <2>5. Backoff'
    BY <1>13 DEF StartReconnect, IInv, TypeOK, Phase, Backoff, Events, Less, Upto
  <2>6. Silence'
    BY <1>13, SilenceRange, AllowedPeriods
       DEF StartReconnect, IInv, TypeOK, Phase, Silence, Connected, Less, Upto
  <2> QED
    BY <2>1, <2>2, <2>3, <2>4, <2>5, <2>6 DEF IInv
<1>14. CASE ReconnectCallback
  <2>1. TypeOK'
    BY <1>14, SilenceRange
       DEF ReconnectCallback, IInv, TypeOK, Phase, States, Locs, Connected, Less, Upto
  <2>2. Phase'
    BY <1>14 DEF ReconnectCallback, IInv, TypeOK, Phase, Connected
  <2>3. Socket'
    BY <1>14 DEF ReconnectCallback, IInv, Socket, TypeOK
  <2>4. Events'
    BY <1>14 DEF ReconnectCallback, IInv, Events, Phase, TypeOK
  <2>5. Backoff'
    BY <1>14 DEF ReconnectCallback, IInv, TypeOK, Phase, Backoff, Events, Less, Upto
  <2>6. Silence'
    BY <1>14, SilenceRange, AllowedPeriods
       DEF ReconnectCallback, IInv, TypeOK, Phase, Silence, Connected, Less, Upto
  <2> QED
    BY <2>1, <2>2, <2>3, <2>4, <2>5, <2>6 DEF IInv
<1>15. CASE CycleNotConnected
  <2>1. TypeOK'
    BY <1>15, SilenceRange
       DEF CycleNotConnected, IInv, TypeOK, Phase, States, Locs, Connected, Less, Upto
  <2>2. Phase'
    BY <1>15 DEF CycleNotConnected, IInv, TypeOK, Phase, Connected
  <2>3. Socket'
    BY <1>15 DEF CycleNotConnected, IInv, Socket, TypeOK, Connected
  <2>4. Events'
    BY <1>15 DEF CycleNotConnected, IInv, Events, Phase, TypeOK, Connected
  <2>5. Backoff'
    BY <1>15
       DEF CycleNotConnected, IInv, TypeOK, Phase, Backoff, Events, Less, Upto, Connected
  <2>6. Silence'
    BY <1>15, SilenceRange, AllowedPeriods
       DEF CycleNotConnected, IInv, TypeOK, Phase, Silence, Connected, Less, Upto
  <2> QED
    BY <2>1, <2>2, <2>3, <2>4, <2>5, <2>6 DEF IInv
<1>16. CASE CycleConnected
  <2>1. TypeOK'
    BY <1>16, SilenceRange
       DEF CycleConnected, IInv, TypeOK, Phase, States, Locs, Connected, Less, Upto,
           ProbesExceeded
  <2>2. Phase'
    BY <1>16 DEF CycleConnected, IInv, TypeOK, Phase, Connected, ProbesExceeded
  <2>3. Socket'
    BY <1>16 DEF CycleConnected, IInv, Socket, TypeOK, ProbesExceeded, Connected
  <2>4. Events'
    BY <1>16 DEF CycleConnected, IInv, Events, Phase, TypeOK, ProbesExceeded, Connected
  <2>5. Backoff'
    BY <1>16
       DEF CycleConnected, IInv, TypeOK, Phase, Backoff, Events, Less, Upto,
           ProbesExceeded, Connected
  <2>6. Silence'
    BY <1>16, SilenceRange, AllowedPeriods
       DEF CycleConnected, IInv, TypeOK, Phase, Silence, Connected, Less, Upto,
           ProbesExceeded
  <2> QED
    BY <2>1, <2>2, <2>3, <2>4, <2>5, <2>6 DEF IInv
<1>17. CASE ReadNothing
  <2>1. TypeOK'
    BY <1>17, SilenceRange
       DEF ReadNothing, IInv, TypeOK, Phase, States, Locs, Connected, Less, Upto
  <2>2. Phase'
    BY <1>17 DEF ReadNothing, IInv, TypeOK, Phase, Connected
  <2>3. Socket'
    BY <1>17 DEF ReadNothing, IInv, Socket, TypeOK
  <2>4. Events'
    BY <1>17 DEF ReadNothing, IInv, Events, Phase, TypeOK
  <2>5. Backoff'
    BY <1>17 DEF ReadNothing, IInv, TypeOK, Phase, Backoff, Events, Less, Upto
  <2>6. Silence'
    BY <1>17, SilenceRange, AllowedPeriods
       DEF ReadNothing, IInv, TypeOK, Phase, Silence, Connected, Less, Upto
  <2> QED
    BY <2>1, <2>2, <2>3, <2>4, <2>5, <2>6 DEF IInv
<1>18. CASE ReadPacket
  <2>1. TypeOK'
    <3>1. unanswered' \in 0 .. ProbeMax + 1 /\ keepalive_probes' \in 0 .. ProbeMax + 1
      BY <1>18 DEF ReadPacket
    <3>2. silence' \in 0 .. SilenceMax
      BY <1>18, SilenceRange DEF ReadPacket
    <3> QED
      BY <1>18, <3>1, <3>2 DEF ReadPacket, IInv, TypeOK, States, Locs
  <2>2. Phase'
    BY <1>18 DEF ReadPacket, IInv, TypeOK, Phase, Connected
  <2>3. Socket'
    BY <1>18 DEF ReadPacket, IInv, Socket, TypeOK
  <2>4. Events'
    BY <1>18 DEF ReadPacket, IInv, Events, Phase, TypeOK
  <2>5. Backoff'
    BY <1>18 DEF ReadPacket, IInv, TypeOK, Phase, Backoff, Events, Less, Upto
  <2>6. Silence'
    BY <1>18, SilenceRange, AllowedPeriods
       DEF ReadPacket, IInv, TypeOK, Phase, Silence, Connected, Less, Upto
  <2> QED
    BY <2>1, <2>2, <2>3, <2>4, <2>5, <2>6 DEF IInv
<1>19. CASE ReadFail
  <2>1. TypeOK'
    BY <1>19, SilenceRange
       DEF ReadFail, IInv, TypeOK, Phase, States, Locs, Connected, Less, Upto
  <2>2. Phase'
    BY <1>19 DEF ReadFail, IInv, TypeOK, Phase, Connected
  <2>3. Socket'
    BY <1>19 DEF ReadFail, IInv, Socket, TypeOK
  <2>4. Events'
    BY <1>19 DEF ReadFail, IInv, Events, Phase, TypeOK
  <2>5. Backoff'
    BY <1>19 DEF ReadFail, IInv, TypeOK, Phase, Backoff, Events, Less, Upto
  <2>6. Silence'
    BY <1>19, SilenceRange, AllowedPeriods
       DEF ReadFail, IInv, TypeOK, Phase, Silence, Connected, Less, Upto
  <2> QED
    BY <2>1, <2>2, <2>3, <2>4, <2>5, <2>6 DEF IInv
<1>20. CASE Release
  <2>1. TypeOK'
    BY <1>20, SilenceRange
       DEF Release, IInv, TypeOK, Phase, States, Locs, Connected, Less, Upto
  <2>2. Phase'
    BY <1>20 DEF Release, IInv, TypeOK, Phase, Connected
  <2>3. Socket'
    BY <1>20 DEF Release, IInv, Socket, TypeOK
  <2>4. Events'
    BY <1>20 DEF Release, IInv, Events, Phase, TypeOK
  <2>5. Backoff'
    BY <1>20 DEF Release, IInv, TypeOK, Phase, Backoff, Events, Less, Upto
  <2>6. Silence'
    BY <1>20, SilenceRange, AllowedPeriods
       DEF Release, IInv, TypeOK, Phase, Silence, Connected, Less, Upto
  <2> QED
    BY <2>1, <2>2, <2>3, <2>4, <2>5, <2>6 DEF IInv
<1>21. CASE Released
  <2>1. TypeOK'
    BY <1>21, SilenceRange
       DEF Released, IInv, TypeOK, Phase, States, Locs, Connected, Less, Upto
  <2>2. Phase'
    BY <1>21 DEF Released, IInv, TypeOK, Phase, Connected
  <2>3. Socket'
    BY <1>21 DEF Released, IInv, Socket, TypeOK
  <2>4. Events'
    BY <1>21 DEF Released, IInv, Events, Phase, TypeOK
  <2>5. Backoff'
    BY <1>21 DEF Released, IInv, TypeOK, Phase, Backoff, Events, Less, Upto
  <2>6. Silence'
    BY <1>21, SilenceRange, AllowedPeriods
       DEF Released, IInv, TypeOK, Phase, Silence, Connected, Less, Upto
  <2> QED
    BY <2>1, <2>2, <2>3, <2>4, <2>5, <2>6 DEF IInv
<1>22. CASE Construct
  <2>1. TypeOK'
    BY <1>22, SilenceRange
       DEF Construct, IInv, TypeOK, Phase, States, Locs, Connected, Less, Upto
  <2>2. Phase'
    BY <1>22 DEF Construct, IInv, TypeOK, Phase, Connected
  <2>3. Socket'
    BY <1>22 DEF Construct, IInv, Socket, TypeOK
  <2>4. Events'
    BY <1>22 DEF Construct, IInv, Events, Phase, TypeOK
  <2>5. Backoff'
    BY <1>22 DEF Construct, IInv, TypeOK, Phase, Backoff, Events, Less, Upto
  <2>6. Silence'
    BY <1>22, SilenceRange, AllowedPeriods
       DEF Construct, IInv, TypeOK, Phase, Silence, Connected, Less, Upto
  <2> QED
    BY <2>1, <2>2, <2>3, <2>4, <2>5, <2>6 DEF IInv
<1>23. CASE Yield
  <2>1. TypeOK'
    BY <1>23, SilenceRange
       DEF Yield, IInv, TypeOK, Phase, States, Locs, Connected, Less, Upto
  <2>2. Phase'
    BY <1>23 DEF Yield, IInv, TypeOK, Phase, Connected
  <2>3. Socket'
    BY <1>23 DEF Yield, IInv, Socket, TypeOK
  <2>4. Events'
    BY <1>23 DEF Yield, IInv, Events, Phase, TypeOK
  <2>5. Backoff'
    BY <1>23 DEF Yield, IInv, TypeOK, Phase, Backoff, Events, Less, Upto
  <2>6. Silence'
    BY <1>23, SilenceRange, AllowedPeriods
       DEF Yield, IInv, TypeOK, Phase, Silence, Connected, Less, Upto
  <2> QED
    BY <2>1, <2>2, <2>3, <2>4, <2>5, <2>6 DEF IInv
<1>24. CASE Destroy
  <2>1. TypeOK'
    BY <1>24, SilenceRange
       DEF Destroy, IInv, TypeOK, Phase, States, Locs, Connected, Less, Upto
  <2>2. Phase'
    BY <1>24 DEF Destroy, IInv, TypeOK, Phase, Connected
  <2>3. Socket'
    BY <1>24 DEF Destroy, IInv, Socket, TypeOK
  <2>4. Events'
    BY <1>24 DEF Destroy, IInv, Events, Phase, TypeOK
  <2>5. Backoff'
    BY <1>24 DEF Destroy, IInv, TypeOK, Phase, Backoff, Events, Less, Upto
  <2>6. Silence'
    BY <1>24, SilenceRange, AllowedPeriods
       DEF Destroy, IInv, TypeOK, Phase, Silence, Connected, Less, Upto
  <2> QED
    BY <2>1, <2>2, <2>3, <2>4, <2>5, <2>6 DEF IInv
<1>25. CASE BrokerSends
  <2>1. TypeOK'
    BY <1>25, SilenceRange
       DEF BrokerSends, IInv, TypeOK, Phase, States, Locs, Connected, Less, Upto
  <2>2. Phase'
    BY <1>25 DEF BrokerSends, IInv, TypeOK, Phase, Connected
  <2>3. Socket'
    BY <1>25 DEF BrokerSends, IInv, Socket, TypeOK
  <2>4. Events'
    BY <1>25 DEF BrokerSends, IInv, Events, Phase, TypeOK
  <2>5. Backoff'
    BY <1>25 DEF BrokerSends, IInv, TypeOK, Phase, Backoff, Events, Less, Upto
  <2>6. Silence'
    BY <1>25, SilenceRange, AllowedPeriods
       DEF BrokerSends, IInv, TypeOK, Phase, Silence, Connected, Less, Upto
  <2> QED
    BY <2>1, <2>2, <2>3, <2>4, <2>5, <2>6 DEF IInv
<1>26. CASE LinkBreak
  <2>1. TypeOK'
    BY <1>26, SilenceRange
       DEF LinkBreak, IInv, TypeOK, Phase, States, Locs, Connected, Less, Upto
  <2>2. Phase'
    BY <1>26 DEF LinkBreak, IInv, TypeOK, Phase, Connected
  <2>3. Socket'
    BY <1>26 DEF LinkBreak, IInv, Socket, TypeOK
  <2>4. Events'
    BY <1>26 DEF LinkBreak, IInv, Events, Phase, TypeOK
  <2>5. Backoff'
    BY <1>26 DEF LinkBreak, IInv, TypeOK, Phase, Backoff, Events, Less, Upto
  <2>6. Silence'
    BY <1>26, SilenceRange, AllowedPeriods
       DEF LinkBreak, IInv, TypeOK, Phase, Silence, Connected, Less, Upto
  <2> QED
    BY <2>1, <2>2, <2>3, <2>4, <2>5, <2>6 DEF IInv
<1>27. CASE Tick
  <2>1. TypeOK'
    BY <1>27, SilenceRange
       DEF Tick, IInv, TypeOK, Phase, States, Locs, Connected, Less, Upto
  <2>2. Phase'
    BY <1>27 DEF Tick, IInv, TypeOK, Phase, Connected
  <2>3. Socket'
    BY <1>27 DEF Tick, IInv, Socket, TypeOK
  <2>4. Events'
    BY <1>27 DEF Tick, IInv, Events, Phase, TypeOK
  <2>5. Backoff'
    BY <1>27 DEF Tick, IInv, TypeOK, Phase, Backoff, Events, Less, Upto
  <2>6. Silence'
    BY <1>27, SilenceRange, AllowedPeriods
       DEF Tick, IInv, TypeOK, Phase, Silence, Connected, Less, Upto
  <2> QED
    BY <2>1, <2>2, <2>3, <2>4, <2>5, <2>6 DEF IInv
<1>28. ASSUME NEW u \in Users, UserChecksState(u) PROVE IInv'
  <2>1. TypeOK'
    BY <1>28 DEF UserChecksState, IInv, TypeOK, States, Connected
  <2>2. Phase'
    BY <1>28 DEF UserChecksState, IInv, TypeOK, Phase, Connected
  <2>3. Socket'
    BY <1>28 DEF UserChecksState, IInv, Socket, TypeOK
  <2>4. Events'
    BY <1>28 DEF UserChecksState, IInv, Events, TypeOK
  <2>5. Backoff'
    BY <1>28 DEF UserChecksState, IInv, TypeOK, Backoff
  <2>6. Silence'
    BY <1>28 DEF UserChecksState, IInv, TypeOK, Silence, Connected
  <2> QED
    BY <2>1, <2>2, <2>3, <2>4, <2>5, <2>6 DEF IInv
<1>29. ASSUME NEW u \in Users, UserWrites(u) PROVE IInv'
  <2>1. TypeOK'
    BY <1>29 DEF UserWrites, IInv, TypeOK, States, Connected
  <2>2. Phase'
    BY <1>29 DEF UserWrites, IInv, TypeOK, Phase, Connected
  <2>3. Socket'
    BY <1>29 DEF UserWrites, IInv, Socket, TypeOK
  <2>4. Events'
    BY <1>29 DEF UserWrites, IInv, Events, TypeOK
  <2>5. Backoff'
    BY <1>29 DEF UserWrites, IInv, TypeOK, Backoff
  <2>6. Silence'
    BY <1>29 DEF UserWrites, IInv, TypeOK, Silence, Connected
  <2> QED
    BY <2>1, <2>2, <2>3, <2>4, <2>5, <2>6 DEF IInv
<1>30. ASSUME NEW u \in Users, UserDisconnects(u) PROVE IInv'
  <2>1. TypeOK'
    BY <1>30 DEF UserDisconnects, IInv, TypeOK, States, Connected
  <2>2. Phase'
    BY <1>30 DEF UserDisconnects, IInv, TypeOK, Phase, Connected
  <2>3. Socket'
    BY <1>30 DEF UserDisconnects, IInv, Socket, TypeOK
  <2>4. Events'
    BY <1>30 DEF UserDisconnects, IInv, Events, TypeOK
  <2>5. Backoff'
    BY <1>30 DEF UserDisconnects, IInv, TypeOK, Backoff
  <2>6. Silence'
    BY <1>30 DEF UserDisconnects, IInv, TypeOK, Silence, Connected
  <2> QED
    BY <2>1, <2>2, <2>3, <2>4, <2>5, <2>6 DEF IInv
<1>31. CASE UNCHANGED vars
  BY <1>31 DEF vars, IInv, TypeOK, Phase, Socket, Events, Backoff, Silence, Connected
<1> QED
  BY <1>1, <1>2, <1>3, <1>4, <1>5, <1>6, <1>7, <1>8, <1>9, <1>10, <1>11, <1>12, <1>13,
     <1>14, <1>15, <1>16, <1>17, <1>18, <1>19, <1>20, <1>21, <1>22, <1>23, <1>24, <1>25,
     <1>26, <1>27, <1>28, <1>29, <1>30, <1>31
     DEF Next, ConnectStep, KeepaliveStep, CycleStep, ReleaseStep, UserStep

LEMMA Invariant == Spec => []IInv
BY InitialState, Step, PTL DEF Spec
-----------------------------------------------------------------------------
(* The client's fields stay in their ranges: the probe count, a uint8_t, is   *)
(* never more than one past its limit, and the interval never more than       *)
(* twice the longest one (iotx_mc_keepalive_sub, iotx_mc_handle_reconnect).   *)
THEOREM TypeCorrect == Spec => []TypeOK
<1>1. IInv => TypeOK
  BY DEF IInv
<1> QED
  BY <1>1, Invariant, PTL

(* iotx_mc_connect never opens a socket over one that is still open.          *)
THEOREM SocketsClosed == Spec => []NoSocketLeak
<1>1. IInv => NoSocketLeak
  BY DEF IInv, Socket, NoSocketLeak
<1> QED
  BY <1>1, Invariant, PTL

(* iotx_mc_reconnect_callback only after iotx_mc_disconnect_callback.         *)
THEOREM EventsInTurn == Spec => []ReconnectFollowsDisconnect
<1>1. IInv => ReconnectFollowsDisconnect
  BY DEF IInv, Events, ReconnectFollowsDisconnect, Attempting
<1> QED
  BY <1>1, Invariant, PTL

(* iotx_mc_handle_reconnect lets the minimum interval pass between attempts.  *)
THEOREM AttemptsApart == Spec => []NoReconnectStorm
<1>1. IInv => NoReconnectStorm
  BY DEF IInv, Backoff, NoReconnectStorm
<1> QED
  BY <1>1, Invariant, PTL

(* iotx_mc_keepalive_sub and iotx_mc_cycle give up a silent connection in     *)
(* ProbeMax + 1 keepalive periods.                                            *)
THEOREM SilenceBounded == Spec => []SilentLinkGivenUp
<1>1. IInv => SilentLinkGivenUp
  BY DEF IInv, Silence, SilentLinkGivenUp, Limit
<1> QED
  BY <1>1, Invariant, PTL
=============================================================================
