-------------------------------- MODULE Coap --------------------------------
(***************************************************************************)
(* The CoAP client: the list of sent messages that wait for an answer      *)
(* (CoAPMessage.c), the requests the client sends (iotx_coap_client.c) and *)
(* the session the communication interface keeps over it: authentication,  *)
(* the two observed topics, the info message, the heartbeat and the        *)
(* repeated authentication (iotx_comm_if_coap.c).                          *)
(*                                                                         *)
(* One task runs all of it.  Messages are numbered as they are sent; the   *)
(* number stands for the token and, as ids are not used up, for the        *)
(* message id, and the list is the set of the linked numbers in order.     *)
(* The network may lose, delay, repeat and reorder packets: whatever was   *)
(* sent may be answered, at any time after, any number of times.           *)
(***************************************************************************)
EXTENDS Naturals, FiniteSets

CONSTANTS MaxMessages,     \* bound: messages sent
          AckTimeout,      \* COAP_ACK_TIMEOUT, in cycles
          TransmissionSpan, \* COAP_MAX_TRANSMISSION_SPAN, in cycles
          MaxRetry         \* COAP_MAX_RETRY_COUNT

ASSUME MaxMessagesAssumption == MaxMessages \in Nat
ASSUME RetryAssumption ==
  /\ TransmissionSpan \in Nat
  /\ AckTimeout \in 1 .. TransmissionSpan
  /\ MaxRetry \in Nat \ {0}

VARIABLES connected,     \* iotx_comm_connect has made the client
          kind,          \* the messages sent so far, by number
          node,          \* their nodes in context->list
          is_authed,
          calls          \* history: runs of the response handler (0, 1, many)

vars == <<connected, kind, node, is_authed, calls>>

(* An authentication, an observing request, or any other: data, replies,   *)
(* pings and the info message have handlers that change nothing.           *)
Kinds == {"auth", "observe", "plain", "unused"}
Messages == 1 .. MaxMessages
Sent == {r \in Messages : kind[r] # "unused"}

(* A node of the list.  `age` is a history field: the walks that have      *)
(* looked at it.                                                           *)
NewNode == [acked |-> FALSE, timeout |-> AckTimeout, timeout_val |-> AckTimeout,
            retrans_count |-> 0, age |-> 0]
NoNode == [NewNode EXCEPT !.timeout_val = 0]
linked == {r \in Messages : node[r] # NoNode}

(* A node with COAP_REGISTERED_OBSERVE: its answers keep coming.           *)
Observes(r) == kind[r] = "observe"

-----------------------------------------------------------------------------
(* CoAPMessage_send for the requests of `kinds`, one after the other; the  *)
(* nodes in `done` are unlinked.  A request whose write fails gets no node *)
(* and nobody looks at the result: it is like one that was never made.     *)
SendAll(kinds, done) ==
  LET last == Cardinality(Sent)
      new == {r \in Messages : r > last /\ r <= last + Cardinality(DOMAIN kinds)}
  IN  /\ last + Cardinality(DOMAIN kinds) \in Messages
      /\ kind' = [r \in Messages |-> IF r \in new THEN kinds[r - last] ELSE kind[r]]
      /\ node' = [r \in Messages |-> IF r \in new THEN NewNode
                                     ELSE IF r \in done THEN NoNode ELSE node[r]]

Init ==
  /\ connected = FALSE
  /\ kind = [r \in Messages |-> "unused"]
  /\ node = [r \in Messages |-> NoNode]
  /\ is_authed = FALSE
  /\ calls = [r \in Messages |-> 0]

-----------------------------------------------------------------------------
(* iotx_comm_connect: the client is made and the authentication sent.      *)
Connect ==
  /\ ~connected
  /\ connected' = TRUE
  /\ SendAll(<<"auth">>, {})
  /\ UNCHANGED <<is_authed, calls>>

Request(k) ==
  /\ connected
  /\ SendAll(<<k>>, {})
  /\ UNCHANGED <<connected, is_authed, calls>>

(* iotx_comm_send, for the application and for OTA replies.                *)
SendData == Request("plain")

(* connect_heartbeat when its timer has expired.                           *)
Heartbeat == Request("plain")

(* send_device_auth(IOT_TRUE) when the token is about to expire.           *)
Reauthenticate == Request("auth")

-----------------------------------------------------------------------------
(* CoAPMessage_recv: the packets of one cycle.                             *)

(* CoAPAckMessage_handle.                                                  *)
ReceiveAck(r) ==
  /\ r \in linked
  /\ node' = [node EXCEPT ![r].acked = TRUE]
  /\ UNCHANGED <<connected, kind, is_authed, calls>>

(* CoAPRespMessage_handle finds the node by its token and runs its         *)
(* handler; then it unlinks the node unless it observes.                   *)
Handled(r) == calls' = [calls EXCEPT ![r] = IF @ = 0 THEN 1 ELSE 2]
(* UnlinkedInverted is a mutant of Unlinked: the test is the wrong way.    *)
UnlinkedInverted(r) == IF Observes(r) THEN {r} ELSE {}
Unlinked(r) == IF Observes(r) THEN {} ELSE {r}

(* The handler of an authentication subscribes and sends the info message, *)
(* from within the search of the list.                                     *)
ReceiveAuthContent(r) ==
  /\ r \in linked
  /\ kind[r] = "auth"
  /\ Handled(r)
  /\ is_authed' = TRUE
  /\ SendAll(<<"observe", "observe", "plain">>, Unlinked(r))
  /\ UNCHANGED connected

(* 5.00: the authentication is sent again at once.                         *)
ReceiveAuthServerError(r) ==
  /\ r \in linked
  /\ kind[r] = "auth"
  /\ Handled(r)
  /\ SendAll(<<"auth">>, Unlinked(r))
  /\ UNCHANGED <<connected, is_authed>>

(* Any other answer; 4.01 and 4.02 are passed to the notifier first.       *)
ReceiveAnswer(r) ==
  /\ r \in linked
  /\ \E unauthorized \in BOOLEAN : is_authed' = (is_authed /\ ~unauthorized)
  /\ Handled(r)
  /\ node' = [q \in Messages |-> IF q \in Unlinked(r) THEN NoNode ELSE node[q]]
  /\ UNCHANGED <<connected, kind>>

-----------------------------------------------------------------------------
(* CoAPMessage_cycle: the walk over the list.                              *)

Due(r) == node[r].timeout = 0

(* Mutants of Retransmits: the acknowledgement is not looked at, or is     *)
(* taken the wrong way.                                                    *)
RetransmitsAcked(r) ==
  /\ Due(r)
  /\ node[r].retrans_count < MaxRetry
  /\ ~Observes(r)

RetransmitsOnlyAcked(r) == RetransmitsAcked(r) /\ node[r].acked

Retransmits(r) ==
  /\ Due(r)
  /\ node[r].retrans_count < MaxRetry
  /\ ~node[r].acked
  /\ ~Observes(r)

(* The node after the walk has looked at it: aged, and                     *)
Older(n) == [n EXCEPT !.age = IF @ <= TransmissionSpan THEN @ + 1 ELSE @]

(* ... one cycle nearer to its time-out, sent again, or left as it is.     *)
Looked(r) ==
  LET n == Older(node[r])
  IN  CASE Retransmits(r) ->
             [n EXCEPT !.timeout = 2 * n.timeout_val,
                       !.timeout_val = 2 * n.timeout_val,
                       !.retrans_count = @ + 1]
        [] ~Due(r) -> [n EXCEPT !.timeout = @ - 1]
        [] OTHER -> n

(* Mutant of GivesUp: the next time-out is compared with the span.         *)
GivesUpOneEarly(r) ==
  /\ Due(r)
  /\ \/ 2 * Looked(r).timeout > TransmissionSpan
     \/ Looked(r).retrans_count >= MaxRetry
  /\ ~Observes(r)

GivesUp(r) ==
  /\ Due(r)
  /\ \/ Looked(r).timeout > TransmissionSpan
     \/ Looked(r).retrans_count >= MaxRetry
  /\ ~Observes(r)

(* The walk ends at the first node it removes.                             *)
Walked ==
  LET ends == {q \in linked : GivesUp(q)}
  IN  {r \in linked : \A q \in ends : r <= q}

Walk ==
  /\ connected
  /\ LET walked == Walked
     IN  node' = [r \in Messages |->
                    IF r \notin walked THEN node[r]
                    ELSE IF GivesUp(r) THEN NoNode ELSE Looked(r)]
  /\ UNCHANGED <<connected, kind, is_authed, calls>>

Receive == \E r \in Messages :
  ReceiveAck(r) \/ ReceiveAuthContent(r) \/ ReceiveAuthServerError(r)
    \/ ReceiveAnswer(r)

Next == Connect \/ SendData \/ Heartbeat \/ Reauthenticate \/ Receive \/ Walk

Spec == Init /\ [][Next]_vars

(* The application keeps calling the loop, which yields to the client.     *)
FairSpec == Spec /\ WF_vars(Walk)

-----------------------------------------------------------------------------
(* The types of all variables; a time-out of the list is within the span.  *)
TypeOK ==
  /\ connected \in BOOLEAN
  /\ kind \in [Messages -> Kinds]
  /\ node \in [Messages ->
       [acked : BOOLEAN, timeout : 0 .. TransmissionSpan,
        timeout_val : 0 .. TransmissionSpan,
        retrans_count : 0 .. MaxRetry, age : 0 .. TransmissionSpan + 1]]
  /\ linked \subseteq Sent
  /\ is_authed \in BOOLEAN
  /\ calls \in [Messages -> 0 .. 2]

(* However often a request and its answer are repeated on the network, its *)
(* handler runs once: a second run would authenticate, subscribe and send  *)
(* the info message again.                                                 *)
HandlerRunsOnce == \A r \in Sent : ~Observes(r) => calls[r] <= 1

(* A request nobody answered is dropped only after the walk has looked at  *)
(* it for the whole transmission span, although the walk stops at every    *)
(* node it drops and others are added all the time.                        *)
NotGivenUpEarly ==
  [][\A r \in linked : r \notin linked' /\ calls'[r] = 0 =>
       node[r].age >= TransmissionSpan]_vars

(* Nothing is sent again after its acknowledgement or its answer.          *)
NothingSentAfterAnswer ==
  [][\A r \in Sent : node'[r].retrans_count > node[r].retrans_count =>
       ~node[r].acked /\ calls[r] = 0]_vars

(* A request the server does not react to leaves the list; only an         *)
(* acknowledged one may wait for ever.                                     *)
UnackedRequestsEnd ==
  \A r \in Messages :
    r \in linked /\ ~Observes(r) ~> r \notin linked \/ node[r].acked

=============================================================================
