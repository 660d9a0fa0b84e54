----------------------------- MODULE CoapProofs -----------------------------
(***************************************************************************)
(* Proofs about Coap, for any number of messages and any time-outs: the    *)
(* list keeps its type, the handler of a request runs once, nothing is     *)
(* sent again after its acknowledgement or its answer, and no request is   *)
(* given up before its time.  And about CoapWire, for any texts, payloads  *)
(* and options: the server reads what was asked for, and an answer finds   *)
(* its request.                                                            *)
(*                                                                         *)
(* The argument about the list: a request is answered when its node is     *)
(* linked, and the same step unlinks it; a message is linked only when it  *)
(* is sent, with a number that no message had before.  A node that is      *)
(* linked has waited, for as long as it was looked at, all its earlier     *)
(* time-outs, and those double.                                            *)
(*                                                                         *)
(* The argument about the bytes: each option is laid in the message where  *)
(* the one before ends, client and server step over it by the same length, *)
(* so they meet the payload mark together.  The messages differ in their   *)
(* tokens, and in their ids until those are used up, so what an answer     *)
(* repeats of a message finds that message's node.                         *)
(***************************************************************************)
EXTENDS Coap, CoapWire, FiniteSetTheorems, WellFoundedInduction,
        SequenceTheorems, TLAPS

-----------------------------------------------------------------------------
(* The list of Coap.                                                       *)

NodeOfList == [acked : BOOLEAN, timeout : 0 .. TransmissionSpan,
         timeout_val : 0 .. TransmissionSpan,
         retrans_count : 0 .. MaxRetry, age : 0 .. TransmissionSpan + 1]

\* The messages are numbered from 1 on, without a gap.
NumberedInOrder == \E last \in 0 .. MaxMessages : Sent = 1 .. last

\* A request that waits for its answer has not had one, nor has one that has
\* not been sent.
Unanswered ==
  \A r \in Messages : calls[r] # 0 => r \in Sent /\ (r \in linked => Observes(r))

\* The requests one step sends, in their order.
Requests == UNION {[1 .. k -> Kinds \ {"unused"}] : k \in Nat \ {0}}

Inv == TypeOK /\ NumberedInOrder /\ Unanswered /\ HandlerRunsOnce

-----------------------------------------------------------------------------
(* The operators of the list.                                              *)

\* The nodes that are made have the type of a node.
LEMMA NewNodeType == NewNode \in NodeOfList /\ NoNode \in NodeOfList
<1>1. /\ 0 \in 0 .. TransmissionSpan /\ AckTimeout \in 0 .. TransmissionSpan
      /\ 0 \in 0 .. MaxRetry /\ 0 \in 0 .. TransmissionSpan + 1
  BY RetryAssumption
<1>2. NewNode \in NodeOfList
  BY <1>1 DEF NewNode, NodeOfList
<1>. QED
  BY <1>1, <1>2 DEF NoNode, NodeOfList

\* The walk over the list ages a node and keeps it in its type, but for the
\* time-out of one it gives up.
LEMMA LookedType ==
  ASSUME TypeOK, NEW r \in Messages, ~GivesUp(r)
  PROVE  Looked(r) \in NodeOfList
<1>1. node[r] \in NodeOfList
  BY DEF TypeOK, NodeOfList
<1>2. Older(node[r]) \in NodeOfList /\ Older(node[r]).timeout_val = node[r].timeout_val
      /\ Older(node[r]).timeout = node[r].timeout
      /\ Older(node[r]).retrans_count = node[r].retrans_count
  BY <1>1, RetryAssumption DEF Older, NodeOfList
<1>3. CASE Retransmits(r)
  <2>. DEFINE n == Older(node[r])
  <2>1. Looked(r) = [n EXCEPT !.timeout = 2 * n.timeout_val,
                              !.timeout_val = 2 * n.timeout_val,
                              !.retrans_count = n.retrans_count + 1]
    BY <1>3 DEF Looked, Retransmits
  <2>2. n.retrans_count + 1 \in 0 .. MaxRetry
    BY <1>1, <1>2, <1>3, RetryAssumption DEF Retransmits, NodeOfList
  <2>3. Looked(r).timeout = 2 * n.timeout_val
    BY <2>1, <1>2 DEF NodeOfList
  <2>4. ~(Looked(r).timeout > TransmissionSpan)
    BY <1>3 DEF GivesUp, Retransmits
  <2>5. 2 * n.timeout_val \in 0 .. TransmissionSpan
    BY <1>2, <2>3, <2>4, RetryAssumption DEF NodeOfList
  <2>. QED
    BY <1>2, <2>1, <2>2, <2>5 DEF NodeOfList
<1>4. CASE ~Retransmits(r) /\ ~Due(r)
  BY <1>1, <1>2, <1>4, RetryAssumption DEF Looked, Due, NodeOfList
<1>5. CASE ~Retransmits(r) /\ Due(r)
  BY <1>2, <1>5 DEF Looked
<1>. QED
  BY <1>3, <1>4, <1>5

\* Requests take the next numbers, and only their own nodes are linked.
LEMMA SendAllEffect ==
  ASSUME TypeOK, NumberedInOrder, NEW kinds \in Requests,
         NEW done, SendAll(kinds, done)
  PROVE  /\ kind' \in [Messages -> Kinds]
         /\ node' \in [Messages -> NodeOfList]
         /\ Sent \subseteq Sent' /\ linked' \subseteq Sent'
         /\ NumberedInOrder'
         /\ \A r \in Sent : /\ kind'[r] = kind[r]
                            /\ r \in linked' => r \in linked \ done
         /\ \A r \in Messages : node'[r] \in {node[r], NewNode, NoNode}
<1>. PICK k \in Nat \ {0} : kinds \in [1 .. k -> Kinds \ {"unused"}]
  BY DEF Requests
<1>. DEFINE last == Cardinality(Sent)
            new == {r \in Messages : r > last /\ r <= last + k}
<1>1. last \in 0 .. MaxMessages /\ Sent = 1 .. last
  <2>1. PICK n \in 0 .. MaxMessages : Sent = 1 .. n
    BY DEF NumberedInOrder
  <2>2. Cardinality(1 .. n) = n
    BY FS_Interval, MaxMessagesAssumption
  <2>. QED
    BY <2>1, <2>2
<1>2. Cardinality(DOMAIN kinds) = k
  BY FS_Interval
<1>3. /\ last + k \in Messages
      /\ kind' = [r \in Messages |-> IF r \in new THEN kinds[r - last] ELSE kind[r]]
      /\ node' = [r \in Messages |-> IF r \in new THEN NewNode
                                     ELSE IF r \in done THEN NoNode ELSE node[r]]
  BY <1>2 DEF SendAll
<1>. HIDE DEF last
<1>4. \A r \in new : r - last \in 1 .. k
  BY <1>1, MaxMessagesAssumption DEF Messages
<1>5. \A r \in Sent : r \in Messages \ new
  BY <1>1, MaxMessagesAssumption DEF Messages, Sent
<1>6. \A r \in new : kind'[r] \in Kinds \ {"unused"}
  BY <1>3, <1>4
<1>7. kind' \in [Messages -> Kinds]
  BY <1>3, <1>6 DEF TypeOK
<1>8. node' \in [Messages -> NodeOfList]
  BY <1>3, NewNodeType DEF TypeOK, NodeOfList
<1>9. Sent' = Sent \cup new
  BY <1>3, <1>5, <1>6 DEF Sent
<1>10. linked' \subseteq Sent'
  BY <1>3, <1>9 DEF linked, TypeOK
<1>11. Sent' = 1 .. (last + k) /\ last + k \in 0 .. MaxMessages
  BY <1>1, <1>3, <1>9, MaxMessagesAssumption DEF Messages
<1>12. \A r \in Sent : kind'[r] = kind[r] /\ (r \in linked' => r \in linked \ done)
  BY <1>3, <1>5 DEF linked
<1>13. \A r \in Messages : node'[r] \in {node[r], NewNode, NoNode}
  BY <1>3
<1>14. NumberedInOrder'
  BY <1>11 DEF NumberedInOrder
<1>. QED
  BY <1>7, <1>8, <1>9, <1>10, <1>12, <1>13, <1>14

\* The sequences of requests the program sends.
LEMMA RequestSequences ==
  /\ \A k \in {"auth", "plain"} : <<k>> \in Requests
  /\ <<"observe", "observe", "plain">> \in Requests
<1>1. ASSUME NEW k \in {"auth", "plain"} PROVE <<k>> \in Requests
  <2>1. <<k>> \in [1 .. 1 -> Kinds \ {"unused"}]
    BY DEF Kinds
  <2>. QED
    BY <2>1 DEF Requests
<1>2. <<"observe", "observe", "plain">> \in Requests
  <2>1. <<"observe", "observe", "plain">> \in [1 .. 3 -> Kinds \ {"unused"}]
    BY DEF Kinds
  <2>. QED
    BY <2>1 DEF Requests
<1>. QED
  BY <1>1, <1>2

-----------------------------------------------------------------------------
(* The steps.                                                              *)

\* A step that runs no handler and sends some requests.
LEMMA SentOnly ==
  ASSUME Inv, NEW kinds \in Requests,
         SendAll(kinds, {}), connected' \in BOOLEAN, UNCHANGED <<is_authed, calls>>
  PROVE  Inv'
<1>. USE SendAllEffect DEF Inv
<1>1. TypeOK'
  BY DEF TypeOK, NodeOfList
<1>2. NumberedInOrder'
  OBVIOUS
<1>3. Unanswered'
  BY DEF Unanswered, Observes, TypeOK
<1>4. ASSUME NEW q \in Sent', ~Observes(q)' PROVE calls'[q] <= 1
  <2>1. q \in Messages
    BY DEF Sent
  <2>2. CASE q \in Sent
    BY <1>4, <2>2 DEF HandlerRunsOnce, Observes
  <2>3. CASE q \notin Sent
    BY <2>1, <2>3 DEF Unanswered
  <2>. QED
    BY <2>2, <2>3
<1>5. HandlerRunsOnce'
  BY <1>4 DEF HandlerRunsOnce
<1>. QED
  BY <1>1, <1>2, <1>3, <1>5

\* An answer that makes the handler send some requests.
LEMMA HandledAndSent ==
  ASSUME Inv, NEW r \in linked, Handled(r),
         NEW kinds \in Requests,
         SendAll(kinds, Unlinked(r)), is_authed' \in BOOLEAN, UNCHANGED connected
  PROVE  Inv'
<1>. USE SendAllEffect DEF Inv
<1>1. r \in Sent /\ r \in Messages
  BY DEF TypeOK, linked
<1>2. /\ calls' \in [Messages -> 0 .. 2]
      /\ \A q \in Messages : q # r => calls'[q] = calls[q]
      /\ calls[r] = 0 => calls'[r] = 1
  <2>1. calls \in [Messages -> 0 .. 2] /\ calls' = [calls EXCEPT ![r] = IF @ = 0 THEN 1 ELSE 2]
    BY DEF TypeOK, Handled
  <2>. QED
    BY <1>1, <2>1
<1>3. ~Observes(r) => calls[r] = 0 /\ r \in Unlinked(r)
  BY <1>1 DEF Unanswered, Unlinked
<1>4. TypeOK'
  BY <1>2 DEF TypeOK, NodeOfList
<1>5. NumberedInOrder'
  OBVIOUS
<1>6. Unanswered'
  BY <1>1, <1>2, <1>3 DEF Unanswered, Observes
<1>7. ASSUME NEW q \in Sent', ~Observes(q)' PROVE calls'[q] <= 1
  <2>1. CASE q = r
    BY <1>1, <1>2, <1>3, <1>7, <2>1 DEF Observes
  <2>2. CASE q # r /\ q \in Sent
    BY <1>2, <1>7, <2>2 DEF HandlerRunsOnce, Observes, Sent
  <2>3. CASE q # r /\ q \notin Sent
    BY <1>2, <2>3 DEF Unanswered, Sent
  <2>. QED
    BY <2>1, <2>2, <2>3
<1>8. HandlerRunsOnce'
  BY <1>7 DEF HandlerRunsOnce
<1>. QED
  BY <1>4, <1>5, <1>6, <1>8

\* A step that answers no request, links no node and sends nothing.
LEMMA ListOnly ==
  ASSUME Inv, node' \in [Messages -> NodeOfList], linked' \subseteq linked,
         UNCHANGED <<connected, kind, is_authed, calls>>
  PROVE  Inv'
<1>1. Sent' = Sent /\ \A r \in Messages : Observes(r)' = Observes(r)
  BY DEF Sent, Observes
<1>2. TypeOK'
  BY <1>1 DEF Inv, TypeOK, NodeOfList
<1>3. NumberedInOrder'
  BY <1>1 DEF Inv, NumberedInOrder
<1>4. Unanswered'
  BY <1>1 DEF Inv, Unanswered
<1>5. HandlerRunsOnce'
  BY <1>1 DEF Inv, HandlerRunsOnce, Sent
<1>. QED
  BY <1>2, <1>3, <1>4, <1>5 DEF Inv

\* An answer that only unlinks its request.
LEMMA HandledOnly ==
  ASSUME Inv, NEW r \in Messages, ReceiveAnswer(r)
  PROVE  Inv'
<1>1. /\ r \in linked
      /\ node' = [q \in Messages |-> IF q \in Unlinked(r) THEN NoNode ELSE node[q]]
      /\ calls' = [calls EXCEPT ![r] = IF @ = 0 THEN 1 ELSE 2]
      /\ UNCHANGED <<connected, kind>>
      /\ is_authed' \in BOOLEAN
  BY DEF ReceiveAnswer, Handled, Inv, TypeOK
<1>2. Sent' = Sent /\ \A q \in Messages : Observes(q)' = Observes(q)
  BY <1>1 DEF Sent, Observes
<1>3. r \in Sent /\ (~Observes(r) => calls[r] = 0 /\ r \in Unlinked(r))
  BY <1>1 DEF Inv, TypeOK, Unanswered, Unlinked
<1>4. linked' \subseteq linked \ Unlinked(r)
  BY <1>1 DEF linked
<1>5. /\ calls' \in [Messages -> 0 .. 2]
      /\ \A q \in Messages : q # r => calls'[q] = calls[q]
      /\ calls[r] = 0 => calls'[r] = 1
  <2>1. calls \in [Messages -> 0 .. 2]
    BY DEF Inv, TypeOK
  <2>. QED
    BY <1>1, <2>1
<1>6. node' \in [Messages -> NodeOfList]
  BY <1>1, NewNodeType DEF Inv, TypeOK, NodeOfList
<1>7. TypeOK'
  BY <1>1, <1>2, <1>4, <1>5, <1>6 DEF Inv, TypeOK, NodeOfList
<1>8. NumberedInOrder'
  BY <1>2 DEF Inv, NumberedInOrder
<1>9. Unanswered'
  BY <1>2, <1>3, <1>4, <1>5 DEF Inv, Unanswered
<1>10. HandlerRunsOnce'
  BY <1>2, <1>3, <1>5 DEF Inv, HandlerRunsOnce, Sent
<1>. QED
  BY <1>7, <1>8, <1>9, <1>10 DEF Inv

\* The walk unlinks nodes, ages the others, and links none.
LEMMA WalkEffect ==
  ASSUME Inv, Walk
  PROVE  node' \in [Messages -> NodeOfList] /\ linked' \subseteq linked
<1>1. node' = [r \in Messages |-> IF r \notin Walked THEN node[r]
                                ELSE IF GivesUp(r) THEN NoNode ELSE Looked(r)]
  BY DEF Walk
<1>2. \A r \in Messages : ~GivesUp(r) => Looked(r) \in NodeOfList
  BY LookedType DEF Inv
<1>3. Walked \subseteq linked
  BY DEF Walked
<1>4. node' \in [Messages -> NodeOfList]
  BY <1>1, <1>2, NewNodeType DEF Inv, TypeOK, NodeOfList
<1>5. linked' \subseteq linked
  BY <1>1, <1>3 DEF linked
<1>. QED
  BY <1>4, <1>5

-----------------------------------------------------------------------------
(* The invariant.                                                          *)

\* The client starts with an empty list.
THEOREM InvInit == Init => Inv
<1>. SUFFICES ASSUME Init PROVE Inv
  OBVIOUS
<1>1. Sent = {} /\ linked = {}
  BY DEF Init, Sent, linked
<1>2. TypeOK
  <2>1. kind \in [Messages -> Kinds] /\ calls \in [Messages -> 0 .. 2]
    BY DEF Init, Kinds
  <2>2. node \in [Messages -> NodeOfList]
    BY NewNodeType DEF Init
  <2>. QED
    BY <1>1, <2>1, <2>2 DEF Init, TypeOK, NodeOfList
<1>3. NumberedInOrder
  <2>1. 0 \in 0 .. MaxMessages /\ 1 .. 0 = {}
    BY MaxMessagesAssumption
  <2>. QED
    BY <1>1, <2>1 DEF NumberedInOrder
<1>4. Unanswered /\ HandlerRunsOnce
  BY <1>1 DEF Init, Unanswered, HandlerRunsOnce
<1>. QED
  BY <1>2, <1>3, <1>4 DEF Inv

\* Every step keeps the invariant.
THEOREM InvStep == Inv /\ [Next]_vars => Inv'
<1>. SUFFICES ASSUME Inv, [Next]_vars PROVE Inv'
  OBVIOUS
<1>1. CASE Connect
  <2>1. SendAll(<<"auth">>, {}) /\ connected' \in BOOLEAN /\ UNCHANGED <<is_authed, calls>>
    BY <1>1 DEF Connect
  <2>. QED
    BY <2>1, RequestSequences, SentOnly
<1>2. ASSUME NEW k \in {"auth", "plain"}, Request(k) PROVE Inv'
  <2>1. SendAll(<<k>>, {}) /\ connected' \in BOOLEAN /\ UNCHANGED <<is_authed, calls>>
    BY <1>2 DEF Request, Inv, TypeOK
  <2>. QED
    BY <2>1, RequestSequences, SentOnly
<1>3. CASE SendData \/ Heartbeat \/ Reauthenticate
  BY <1>2, <1>3 DEF SendData, Heartbeat, Reauthenticate
<1>4. ASSUME NEW r \in Messages, ReceiveAck(r) PROVE Inv'
  <2>1. node' = [node EXCEPT ![r].acked = TRUE] /\ r \in linked
        /\ UNCHANGED <<connected, kind, is_authed, calls>>
    BY <1>4 DEF ReceiveAck
  <2>2. node' \in [Messages -> NodeOfList]
    BY <2>1 DEF Inv, TypeOK, NodeOfList
  <2>3. linked' \subseteq linked
    BY <2>1 DEF linked, Inv, TypeOK
  <2>. QED
    BY <2>1, <2>2, <2>3, ListOnly
<1>5. ASSUME NEW r \in Messages, ReceiveAuthContent(r) PROVE Inv'
  <2>1. /\ r \in linked /\ Handled(r) /\ is_authed' \in BOOLEAN /\ UNCHANGED connected
        /\ SendAll(<<"observe", "observe", "plain">>, Unlinked(r))
    BY <1>5 DEF ReceiveAuthContent
  <2>. QED
    BY <2>1, RequestSequences, HandledAndSent
<1>6. ASSUME NEW r \in Messages, ReceiveAuthServerError(r) PROVE Inv'
  <2>1. /\ r \in linked /\ Handled(r) /\ is_authed' \in BOOLEAN /\ UNCHANGED connected
        /\ SendAll(<<"auth">>, Unlinked(r))
    BY <1>6 DEF ReceiveAuthServerError, Inv, TypeOK
  <2>. QED
    BY <2>1, RequestSequences, HandledAndSent
<1>7. CASE Receive
  BY <1>4, <1>5, <1>6, <1>7, HandledOnly DEF Receive
<1>8. CASE Walk
  BY <1>8, WalkEffect, ListOnly DEF Walk
<1>9. CASE UNCHANGED vars
  <2>1. node' \in [Messages -> NodeOfList] /\ linked' \subseteq linked
    BY <1>9 DEF Inv, TypeOK, NodeOfList, vars, linked
  <2>. QED
    BY <1>9, <2>1, ListOnly DEF vars
<1>. QED
  BY <1>1, <1>3, <1>7, <1>8, <1>9 DEF Next

\* In every reachable state the variables have their types and a request has
\* been answered at most once, however often the network repeats anything.
THEOREM HandledOnce == Spec => [](TypeOK /\ HandlerRunsOnce)
<1>1. Inv => TypeOK /\ HandlerRunsOnce
  BY DEF Inv
<1>. QED
  BY InvInit, InvStep, <1>1, PTL DEF Spec

-----------------------------------------------------------------------------
(* The retransmissions.                                                    *)

\* What NothingSentAfterAnswer says of a step.
SentBeforeAnswer ==
  \A r \in Sent : node'[r].retrans_count > node[r].retrans_count =>
      ~node[r].acked /\ calls[r] = 0

\* A step that gives each message its node as it was, but for the mark of the
\* acknowledgement, a new one or none sends no message again.
LEMMA NotResent ==
  ASSUME Inv,
         \A r \in Messages : \/ node'[r].retrans_count = node[r].retrans_count
                            \/ node'[r] \in {NewNode, NoNode}
  PROVE  SentBeforeAnswer
<1>1. NewNode.retrans_count = 0 /\ NoNode.retrans_count = 0
  BY DEF NewNode, NoNode
<1>2. \A r \in Messages : node[r].retrans_count \in Nat
  BY RetryAssumption DEF Inv, TypeOK
<1>. QED
  BY <1>1, <1>2 DEF SentBeforeAnswer, Sent

\* The walk sends again what waits for an acknowledgement and an answer.
LEMMA WalkResends ==
  ASSUME Inv, Walk
  PROVE  SentBeforeAnswer
<1>. SUFFICES ASSUME NEW r \in Messages, node'[r].retrans_count > node[r].retrans_count
              PROVE  ~node[r].acked /\ calls[r] = 0
  BY DEF SentBeforeAnswer, Sent
<1>1. node[r] \in NodeOfList
  BY DEF Inv, TypeOK, NodeOfList
<1>2. node[r].retrans_count \in Nat
  BY <1>1, RetryAssumption DEF NodeOfList
<1>3. node'[r] = IF r \notin Walked THEN node[r]
                 ELSE IF GivesUp(r) THEN NoNode ELSE Looked(r)
  BY DEF Walk
<1>4. NoNode.retrans_count = 0
  BY DEF NewNode, NoNode
<1>5. r \in Walked /\ node'[r] = Looked(r)
  BY <1>2, <1>3, <1>4
<1>6. Older(node[r]) \in NodeOfList /\ Older(node[r]).retrans_count = node[r].retrans_count
  BY <1>1, RetryAssumption DEF Older, NodeOfList
<1>7. Retransmits(r)
  <2>. SUFFICES ASSUME ~Retransmits(r) PROVE Looked(r).retrans_count = node[r].retrans_count
    BY <1>2, <1>5
  <2>1. CASE Due(r)
    BY <1>6, <2>1 DEF Looked
  <2>2. CASE ~Due(r)
    BY <1>6, <2>2 DEF Looked, NodeOfList
  <2>. QED
    BY <2>1, <2>2
<1>. QED
  BY <1>5, <1>7 DEF Retransmits, Walked, Inv, Unanswered

\* No step sends a message again that is acknowledged or answered.
THEOREM ResendStep == Inv /\ [Next]_vars => [SentBeforeAnswer]_vars
<1>. SUFFICES ASSUME Inv, Next PROVE SentBeforeAnswer
  OBVIOUS
<1>1. ASSUME NEW kinds \in Requests,
             NEW done, SendAll(kinds, done)
      PROVE  SentBeforeAnswer
  <2>1. \A r \in Messages : node'[r] \in {node[r], NewNode, NoNode}
    BY <1>1, SendAllEffect DEF Inv
  <2>. QED
    BY <2>1, NotResent
<1>2. CASE Connect \/ SendData \/ Heartbeat \/ Reauthenticate
  BY <1>1, <1>2, RequestSequences
     DEF Connect, SendData, Heartbeat, Reauthenticate, Request
<1>3. ASSUME NEW r \in Messages, ReceiveAck(r) PROVE SentBeforeAnswer
  <2>1. \A q \in Messages : node'[q].retrans_count = node[q].retrans_count
    BY <1>3 DEF ReceiveAck, Inv, TypeOK
  <2>. QED
    BY <2>1, NotResent
<1>4. ASSUME NEW r \in Messages, ReceiveAuthContent(r) \/ ReceiveAuthServerError(r)
      PROVE  SentBeforeAnswer
  BY <1>1, <1>4, RequestSequences DEF ReceiveAuthContent, ReceiveAuthServerError
<1>5. ASSUME NEW r \in Messages, ReceiveAnswer(r) PROVE SentBeforeAnswer
  BY <1>5, NotResent DEF ReceiveAnswer
<1>6. CASE Receive
  BY <1>3, <1>4, <1>5, <1>6 DEF Receive
<1>. QED
  BY <1>2, <1>6, WalkResends DEF Next

\* In no behaviour is a message sent again after its acknowledgement or its
\* answer has come in.
THEOREM NothingResent == Spec => NothingSentAfterAnswer
<1>1. [SentBeforeAnswer]_vars =>
        [\A r \in Sent : node'[r].retrans_count > node[r].retrans_count =>
           ~node[r].acked /\ calls[r] = 0]_vars
  BY DEF SentBeforeAnswer
<1>. QED
  BY InvInit, InvStep, ResendStep, <1>1, PTL DEF Spec, NothingSentAfterAnswer

-----------------------------------------------------------------------------
(* The time until a request is given up.                                   *)

\* wait[k] is the time-out after k retransmissions.
Doubled(wait) ==
  /\ wait \in [0 .. MaxRetry -> Nat] /\ wait[0] = AckTimeout
  /\ \A k \in 0 .. MaxRetry - 1 : wait[k + 1] = 2 * wait[k]

\* The time-outs up to the one with which a request is given up, and a cycle
\* for each retransmission, are the span together.
LongEnough ==
  \E wait : Doubled(wait) /\
    \A k \in 0 .. MaxRetry - 1 :
      2 * wait[k] > TransmissionSpan \/ k + 1 >= MaxRetry =>
        2 * wait[k] + k >= TransmissionSpan + AckTimeout

\* The values of the code are long enough.
LEMMA CodeIsLongEnough ==
  ASSUME AckTimeout = 2, TransmissionSpan = 10, MaxRetry = 4
  PROVE  LongEnough
<1>. DEFINE wait == [k \in 0 .. 4 |-> IF k = 0 THEN 2 ELSE IF k = 1 THEN 4
                                      ELSE IF k = 2 THEN 8 ELSE IF k = 3 THEN 16 ELSE 32]
<1>1. wait \in [0 .. 4 -> Nat]
  OBVIOUS
<1>2. \A k \in 0 .. 3 : wait[k + 1] = 2 * wait[k]
  OBVIOUS
<1>3. \A k \in 0 .. 3 : 2 * wait[k] > 10 \/ k + 1 >= 4 => 2 * wait[k] + k >= 12
  OBVIOUS
<1>4. wait[0] = 2
  OBVIOUS
<1>. HIDE DEF wait
<1>. QED
  BY <1>1, <1>2, <1>3, <1>4 DEF LongEnough, Doubled

\* A linked node has waited, for as long as it was looked at, the time-outs
\* before its present one and what has passed of that.
Aged(n, wait) ==
  /\ n.retrans_count < MaxRetry /\ n.timeout_val = wait[n.retrans_count]
  /\ n.timeout_val > 0 /\ n.timeout <= n.timeout_val
  /\ n.age > TransmissionSpan
     \/ n.age + n.timeout + AckTimeout >= 2 * n.timeout_val + n.retrans_count

AllAged(wait) == \A r \in linked : Aged(node[r], wait)

\* What NotGivenUpEarly says of a step.
GivenUpLate ==
  \A r \in linked : r \notin linked' /\ calls'[r] = 0 => node[r].age >= TransmissionSpan

LEMMA NewIsAged ==
  ASSUME NEW wait, Doubled(wait)
  PROVE  Aged(NewNode, wait)
BY RetryAssumption DEF Doubled, Aged, NewNode

\* What the walk makes of a node it does not give up.
LEMMA LookedIsAged ==
  ASSUME TypeOK, NEW wait, Doubled(wait), NEW r \in Messages, Aged(node[r], wait), ~GivesUp(r)
  PROVE  Aged(Looked(r), wait)
<1>. DEFINE n == node[r]
            o == Older(n)
<1>1. n \in NodeOfList
  BY DEF TypeOK, NodeOfList
<1>2. /\ o \in NodeOfList /\ o.timeout_val = n.timeout_val /\ o.timeout = n.timeout
      /\ o.retrans_count = n.retrans_count
      /\ o.age = IF n.age <= TransmissionSpan THEN n.age + 1 ELSE n.age
  BY <1>1, RetryAssumption DEF Older, NodeOfList
<1>3. /\ n.timeout \in Nat /\ n.timeout_val \in Nat /\ n.retrans_count \in Nat /\ n.age \in Nat
      /\ AckTimeout \in Nat /\ TransmissionSpan \in Nat /\ MaxRetry \in Nat
  BY <1>1, RetryAssumption DEF NodeOfList
<1>4. /\ n.retrans_count < MaxRetry /\ n.timeout_val = wait[n.retrans_count]
      /\ n.timeout_val > 0 /\ n.timeout <= n.timeout_val
      /\ n.age > TransmissionSpan
         \/ n.age + n.timeout + AckTimeout >= 2 * n.timeout_val + n.retrans_count
  BY DEF Aged
<1>. HIDE DEF n, o
<1>5. CASE Retransmits(r)
  <2>1. Looked(r) = [o EXCEPT !.timeout = 2 * o.timeout_val, !.timeout_val = 2 * o.timeout_val,
                              !.retrans_count = o.retrans_count + 1]
    BY <1>5 DEF Looked, Retransmits, n, o
  <2>2. /\ Looked(r).timeout = 2 * n.timeout_val /\ Looked(r).timeout_val = 2 * n.timeout_val
        /\ Looked(r).retrans_count = n.retrans_count + 1 /\ Looked(r).age = o.age
    BY <1>2, <2>1 DEF NodeOfList
  <2>3. n.timeout = 0 /\ n.retrans_count + 1 < MaxRetry
    <3>1. n.timeout = 0 /\ Due(r)
      BY <1>5 DEF Retransmits, Due, n
    <3>2. ~(Looked(r).retrans_count >= MaxRetry)
      BY <1>5, <3>1 DEF Retransmits, GivesUp
    <3>. QED
      BY <1>3, <2>2, <3>1, <3>2
  <2>4. wait[n.retrans_count + 1] = 2 * n.timeout_val
    <3>1. n.retrans_count \in 0 .. MaxRetry - 1
      BY <1>3, <1>4
    <3>. QED
      BY <1>4, <3>1 DEF Doubled
  <2>. QED
    BY <1>2, <1>3, <1>4, <2>2, <2>3, <2>4 DEF Aged
<1>6. CASE ~Retransmits(r) /\ ~Due(r)
  <2>1. Looked(r) = [o EXCEPT !.timeout = o.timeout - 1]
    BY <1>6 DEF Looked, n, o
  <2>2. /\ Looked(r).timeout = n.timeout - 1 /\ Looked(r).timeout_val = n.timeout_val
        /\ Looked(r).retrans_count = n.retrans_count /\ Looked(r).age = o.age
    BY <1>2, <2>1 DEF NodeOfList
  <2>3. n.timeout # 0
    BY <1>6 DEF Due, n
  <2>. QED
    BY <1>2, <1>3, <1>4, <2>2, <2>3 DEF Aged
<1>7. CASE ~Retransmits(r) /\ Due(r)
  <2>1. Looked(r) = o
    BY <1>7 DEF Looked, n, o
  <2>. QED
    BY <1>2, <1>3, <1>4, <2>1 DEF Aged
<1>. QED
  BY <1>5, <1>6, <1>7

\* A node the walk gives up has waited for the span.
LEMMA GivenUpIsAged ==
  ASSUME TypeOK, NEW wait, Doubled(wait), NEW r \in Messages, Aged(node[r], wait), GivesUp(r),
         \A k \in 0 .. MaxRetry - 1 :
           2 * wait[k] > TransmissionSpan \/ k + 1 >= MaxRetry =>
             2 * wait[k] + k >= TransmissionSpan + AckTimeout
  PROVE  node[r].age >= TransmissionSpan
<1>. DEFINE n == node[r]
            o == Older(n)
            k == n.retrans_count
<1>1. n \in NodeOfList
  BY DEF TypeOK, NodeOfList
<1>2. /\ o \in NodeOfList /\ o.timeout_val = n.timeout_val /\ o.timeout = n.timeout
      /\ o.retrans_count = k
  BY <1>1, RetryAssumption DEF Older, NodeOfList
<1>3. /\ n.timeout \in Nat /\ n.timeout_val \in Nat /\ k \in Nat /\ n.age \in Nat
      /\ AckTimeout \in Nat /\ TransmissionSpan \in Nat /\ MaxRetry \in Nat
  BY <1>1, RetryAssumption DEF NodeOfList
<1>4. /\ k < MaxRetry /\ n.timeout_val = wait[k]
      /\ n.age > TransmissionSpan
         \/ n.age + n.timeout + AckTimeout >= 2 * n.timeout_val + k
  BY DEF Aged
<1>5. n.timeout = 0 /\ Due(r)
  BY DEF GivesUp, Due
<1>6. CASE ~Retransmits(r)
  <2>1. Looked(r) = o
    BY <1>5, <1>6 DEF Looked
  <2>2. ~(o.timeout > TransmissionSpan) /\ ~(o.retrans_count >= MaxRetry)
    BY <1>2, <1>3, <1>4, <1>5
  <2>. QED
    BY <2>1, <2>2 DEF GivesUp
<1>7. CASE Retransmits(r)
  <2>1. Looked(r) = [o EXCEPT !.timeout = 2 * o.timeout_val, !.timeout_val = 2 * o.timeout_val,
                              !.retrans_count = o.retrans_count + 1]
    BY <1>7 DEF Looked, Retransmits
  <2>2. Looked(r).timeout = 2 * n.timeout_val /\ Looked(r).retrans_count = k + 1
    BY <1>2, <2>1 DEF NodeOfList
  <2>3. 2 * wait[k] > TransmissionSpan \/ k + 1 >= MaxRetry
    BY <1>4, <2>2 DEF GivesUp
  <2>. HIDE DEF n, k
  <2>4. 2 * wait[k] + k >= TransmissionSpan + AckTimeout
    BY <1>3, <1>4, <2>3
  <2>5. n.age >= TransmissionSpan
    BY <1>3, <1>4, <1>5, <2>4
  <2>. QED
    BY <2>5 DEF n
<1>. QED
  BY <1>6, <1>7

\* A step gives linked nodes up late, and leaves nodes that are aged.
LEMMA AgedStep ==
  ASSUME NEW wait, Doubled(wait), Inv, AllAged(wait), [Next]_vars,
         \A k \in 0 .. MaxRetry - 1 :
           2 * wait[k] > TransmissionSpan \/ k + 1 >= MaxRetry =>
             2 * wait[k] + k >= TransmissionSpan + AckTimeout
  PROVE  AllAged(wait)' /\ (UNCHANGED vars \/ GivenUpLate)
<1>1. ASSUME NEW kinds \in Requests, NEW done, SendAll(kinds, done),
             \A r \in done \cap Messages : calls'[r] # 0
      PROVE  AllAged(wait)' /\ GivenUpLate
  <2>1. \A r \in Messages : node'[r] \in {node[r], NewNode, NoNode}
    BY <1>1, SendAllEffect DEF Inv
  <2>2. AllAged(wait)'
    BY <2>1, NewIsAged DEF AllAged, linked
  <2>3. \A r \in linked : r \notin linked' => r \in done
    <3>1. \A r \in Messages : r \in linked => node'[r] \in {node[r], NewNode} \/ r \in done
      BY <1>1 DEF SendAll, linked
    <3>2. NewNode # NoNode
      BY RetryAssumption DEF NewNode, NoNode
    <3>. QED
      BY <3>1, <3>2 DEF linked
  <2>. QED
    BY <1>1, <2>2, <2>3 DEF GivenUpLate, linked
<1>2. CASE Connect \/ SendData \/ Heartbeat \/ Reauthenticate
  BY <1>1, <1>2, RequestSequences DEF Connect, SendData, Heartbeat, Reauthenticate, Request
<1>3. ASSUME NEW r \in Messages, r \in linked, Handled(r) PROVE calls'[r] # 0
  BY <1>3 DEF Handled, Inv, TypeOK
<1>4. ASSUME NEW r \in Messages, ReceiveAuthContent(r) \/ ReceiveAuthServerError(r)
      PROVE  AllAged(wait)' /\ GivenUpLate
  BY <1>1, <1>3, <1>4, RequestSequences DEF ReceiveAuthContent, ReceiveAuthServerError, Unlinked
<1>5. ASSUME NEW r \in Messages, ReceiveAnswer(r)
      PROVE  AllAged(wait)' /\ GivenUpLate
  <2>1. /\ calls'[r] # 0 /\ \A q \in Messages : node'[q] = IF q \in Unlinked(r) THEN NoNode ELSE node[q]
    BY <1>3, <1>5 DEF ReceiveAnswer
  <2>. QED
    BY <2>1 DEF AllAged, GivenUpLate, linked, Unlinked
<1>6. ASSUME NEW r \in Messages, ReceiveAck(r)
      PROVE  AllAged(wait)' /\ GivenUpLate
  <2>1. \A q \in Messages :
          /\ node'[q].retrans_count = node[q].retrans_count
          /\ node'[q].timeout_val = node[q].timeout_val
          /\ node'[q].timeout = node[q].timeout /\ node'[q].age = node[q].age
    BY <1>6 DEF ReceiveAck, Inv, TypeOK
  <2>2. linked' = linked
    BY <1>6 DEF ReceiveAck, linked, Inv, TypeOK, NewNode, NoNode, AllAged, Aged
  <2>. QED
    BY <2>1, <2>2 DEF AllAged, Aged, GivenUpLate, linked
<1>7. CASE Walk
  <2>1. \A r \in Messages : node'[r] = IF r \notin Walked THEN node[r]
                                       ELSE IF GivesUp(r) THEN NoNode ELSE Looked(r)
    BY <1>7 DEF Walk
  <2>2. Walked \subseteq linked /\ linked \subseteq Messages
    BY DEF Walked, linked
  <2>3. NoNode.timeout_val = 0
    BY DEF NoNode, NewNode
  <2>4. ASSUME NEW r \in linked, r \in Walked, ~GivesUp(r)
        PROVE  Aged(Looked(r), wait) /\ Looked(r) # NoNode
    <3>1. Aged(Looked(r), wait)
      BY <2>2, <2>4, LookedIsAged DEF AllAged, Inv
    <3>. QED
      BY <2>3, <3>1 DEF Aged
  <2>5. AllAged(wait)'
    BY <2>1, <2>2, <2>4 DEF AllAged, linked
  <2>6. ASSUME NEW r \in linked, r \notin linked' PROVE node[r].age >= TransmissionSpan
    <3>1. GivesUp(r)
      BY <2>1, <2>2, <2>4, <2>6 DEF linked
    <3>. QED
      BY <2>2, <3>1, GivenUpIsAged DEF AllAged, Inv
  <2>. QED
    BY <2>5, <2>6 DEF GivenUpLate
<1>8. CASE UNCHANGED vars
  BY <1>8 DEF vars, AllAged, linked
<1>. QED
  BY <1>2, <1>4, <1>5, <1>6, <1>7, <1>8 DEF Next, Receive

\* No request that nobody answered is dropped before it has waited for the
\* transmission span, although the walk stops at every node it drops
\* (CoAPMessage_cycle), with time-outs that are long enough for it.
THEOREM NotDroppedEarly == LongEnough => (Spec => NotGivenUpEarly)
<1>. SUFFICES ASSUME LongEnough PROVE Spec => NotGivenUpEarly
  OBVIOUS
<1>1. PICK wait : Doubled(wait) /\
        \A k \in 0 .. MaxRetry - 1 :
          2 * wait[k] > TransmissionSpan \/ k + 1 >= MaxRetry =>
            2 * wait[k] + k >= TransmissionSpan + AckTimeout
  BY DEF LongEnough
<1>2. Init => AllAged(wait)
  BY DEF Init, AllAged, linked
<1>3. Inv /\ AllAged(wait) /\ [Next]_vars => AllAged(wait)' /\ [GivenUpLate]_vars
  BY <1>1, AgedStep
<1>4. [GivenUpLate]_vars =>
        [\A r \in linked : r \notin linked' /\ calls'[r] = 0 =>
           node[r].age >= TransmissionSpan]_vars
  BY DEF GivenUpLate
<1>. QED
  BY InvInit, InvStep, <1>2, <1>3, <1>4, PTL DEF Spec, NotGivenUpEarly

-----------------------------------------------------------------------------
(* The messages of CoapWire.  First, numbers and loops.                    *)
(* A set of numbers that is not empty has a least one.                     *)
LEMMA LeastOf ==
  ASSUME NEW T, T \subseteq Nat, T # {}
  PROVE  \E m \in T : \A k \in T : m <= k
<1> DEFINE less == OpToRel(<, Nat)
<1>1. IsWellFoundedOn(less, Nat)
  BY NatLessThanWellFounded
<1> HIDE DEF less
<1>2. PICK m \in T : \A k \in T : ~(<<k, m>> \in less)
  BY <1>1, WFMin
<1>3. \A k \in T : ~(k < m)
  BY <1>2 DEF less, OpToRel
<1> QED
  BY <1>3

(* What a loop of n turns keeps, turn by turn: f[k] is in P[k].            *)
Kept(f, P, n) ==
  n \in Nat /\ f[0] \in P[0] /\ \A k \in 1 .. n : f[k - 1] \in P[k - 1] => f[k] \in P[k]

LEMMA Stays ==
  ASSUME NEW n, NEW f, NEW P, Kept(f, P, n)
  PROVE  \A k \in 0 .. n : f[k] \in P[k]
<1> USE DEF Kept
<1> DEFINE bad == {k \in 0 .. n : f[k] \notin P[k]}
<1>1. ASSUME bad # {} PROVE FALSE
  <2>1. PICK m \in bad : \A k \in bad : m <= k
    BY <1>1, LeastOf, bad \subseteq Nat
  <2>2. m \in 0 .. n /\ f[m] \notin P[m] /\ m # 0
    BY <2>1
  <2>3. m \in 1 .. n /\ m - 1 \in 0 .. n /\ m - 1 \notin bad
    BY <2>1, <2>2
  <2> QED
    BY <2>2, <2>3
<1> QED
  BY <1>1

(* A loop of n turns with the body g.                                      *)
Loop(f, n, a, g) == f = [k \in 0 .. n |-> IF k = 0 THEN a ELSE g[<<k, f[k - 1]>>]]

LEMMA LoopExists ==
  ASSUME NEW n \in Nat, NEW a, NEW g
  PROVE  \E f : Loop(f, n, a, g)
<1> DEFINE Found(m) == \E f : Loop(f, m, a, g)
           missing == {m \in Nat : ~Found(m)}
<1>1. Found(0)
  <2> DEFINE f == [k \in 0 .. 0 |-> a]
  <2>1. f = [k \in 0 .. 0 |-> IF k = 0 THEN a ELSE g[<<k, f[k - 1]>>]]
    OBVIOUS
  <2> QED
    BY <2>1 DEF Loop
<1>2. ASSUME NEW m \in Nat, Found(m) PROVE Found(m + 1)
  <2>1. PICK f : Loop(f, m, a, g)
    BY <1>2
  <2> DEFINE more == [k \in 0 .. m + 1 |-> IF k = m + 1 THEN g[<<k, f[m]>>] ELSE f[k]]
  <2>2. ASSUME NEW k \in 0 .. m + 1
        PROVE  more[k] = IF k = 0 THEN a ELSE g[<<k, more[k - 1]>>]
    <3>1. CASE k = m + 1
      <4>1. more[k] = g[<<k, f[m]>>] /\ k # 0 /\ k - 1 = m /\ k - 1 \in 0 .. m + 1 /\ k - 1 # m + 1
        BY <3>1
      <4>2. more[k - 1] = f[m]
        BY <4>1
      <4> QED
        BY <4>1, <4>2
    <3>2. CASE k # m + 1
      <4>1. k \in 0 .. m /\ more[k] = f[k]
        BY <3>2
      <4>2. f[k] = IF k = 0 THEN a ELSE g[<<k, f[k - 1]>>]
        BY <2>1, <4>1 DEF Loop
      <4>3. k # 0 => k - 1 \in 0 .. m + 1 /\ k - 1 # m + 1 /\ more[k - 1] = f[k - 1]
        BY <4>1
      <4> QED
        BY <4>1, <4>2, <4>3
    <3> QED
      BY <3>1, <3>2
  <2>3. more = [k \in 0 .. m + 1 |-> more[k]]
    OBVIOUS
  <2> HIDE DEF more
  <2>4. Loop(more, m + 1, a, g)
    BY <2>2, <2>3 DEF Loop
  <2> QED
    BY <2>4
<1>3. ASSUME missing # {} PROVE FALSE
  <2>1. PICK m \in missing : \A k \in missing : m <= k
    BY <1>3, LeastOf
  <2> HIDE DEF Found
  <2>2. m # 0 /\ m \in Nat /\ ~Found(m)
    BY <1>1, <2>1
  <2>3. m - 1 \in Nat /\ m - 1 \notin missing /\ (m - 1) + 1 = m
    BY <2>1, <2>2
  <2>4. Found((m - 1) + 1)
    BY <1>2, <2>3
  <2> QED
    BY <2>2, <2>3, <2>4
<1> QED
  BY <1>3

-----------------------------------------------------------------------------
(* An option as bytes, and read back.                                      *)

Size(n) == IF n >= 269 THEN 2 ELSE IF n >= 13 THEN 1 ELSE 0
Enc(o) == CoAPSerialize_Option(o)

(* The bytes e are at the place p of b.                                    *)
At(b, p, e) == p \in Nat \ {0} /\ p + Len(e) <= Len(b) + 1 /\ \A i \in 1 .. Len(e) : b[p + i - 1] = e[i]

LEMMA Regrouped ==
  ASSUME NEW s \in Seq(Nat), NEW t \in Seq(Nat), NEW u \in Seq(Nat)
  PROVE  (s \o t) \o u = s \o (t \o u)
  BY ConcatAssociative, SMTT(20)

LEMMA OptionsRegrouped ==
  ASSUME NEW s \in Seq(OptionType), NEW t \in Seq(OptionType), NEW u \in Seq(OptionType)
  PROVE  (s \o t) \o u = s \o (t \o u)
  BY ConcatAssociative, SMTT(20)

(* What stands at a place is what SubSeq takes from there.                 *)
LEMMA Cut ==
  ASSUME NEW b \in Seq(Nat), NEW e \in Seq(Nat), NEW lo, NEW hi,
         At(b, lo, e), hi = lo + Len(e) - 1
  PROVE  SubSeq(b, lo, hi) = e
<1> DEFINE n == Len(b)
           m == Len(e)
           s == SubSeq(b, lo, hi)
<1>1. /\ lo \in Nat \ {0} /\ lo + m <= n + 1 /\ m \in Nat /\ n \in Nat /\ hi = lo + m - 1
      /\ \A i \in 1 .. m : b[lo + i - 1] = e[i]
  BY DEF At
<1>2. lo \in 1 .. n + 1 /\ hi \in lo - 1 .. n
  <2> HIDE DEF n, m
  <2> QED
    BY <1>1
<1>3. s \in Seq(Nat) /\ Len(s) = hi - lo + 1 /\ \A i \in 1 .. hi - lo + 1 : s[i] = b[lo + i - 1]
  BY <1>2, SubSeqProperties
<1> HIDE DEF s
<1>4. hi - lo + 1 = m
  <2> HIDE DEF m
  <2> QED
    BY <1>1
<1>5. Len(s) = Len(e) /\ \A i \in 1 .. Len(s) : s[i] = e[i]
  BY <1>1, <1>3, <1>4
<1>6. s = e
  BY <1>3, <1>5, SeqEqual
<1> QED
  BY <1>6 DEF s

LEMMA WordBounds ==
  /\ MaxWord \in Nat /\ MaxWord = 65535
  /\ \A n \in Word : n \in Nat /\ n <= 65535
  /\ \A n \in Nat : n <= 65535 => n \in Word
<1>1. MaxWord \in Nat /\ MaxWord = 65535
  BY DEF MaxWord
<1>2. \A n \in Word : n \in Nat /\ n <= 65535
  <2>1. \A n \in Word : n \in Nat /\ n <= MaxWord
    <3>1. MaxWord \in Nat
      BY <1>1
    <3> QED
      BY <3>1 DEF Word
  <2> QED
    BY <1>1, <2>1
<1>3. \A n \in Nat : n <= 65535 => n \in Word
  <2>1. \A n \in Nat : n <= 65535 => n <= MaxWord
    BY <1>1
  <2>2. MaxWord \in Nat
    BY <1>1
  <2> QED
    BY <2>1, <2>2 DEF Word
<1> QED
  BY <1>1, <1>2, <1>3

LEMMA PduBound == MaxPdu \in Nat /\ MaxPdu <= 65535
<1>1. MaxPdu \in 9 .. MaxWord
  BY CoapWireAssumption
<1>2. MaxWord \in Nat
  BY WordBounds
<1>3. MaxPdu \in Nat /\ MaxPdu <= MaxWord
  BY <1>1, <1>2
<1> QED
  BY <1>3 DEF MaxWord

LEMMA BytesAndWords == Byte \subseteq Nat /\ Word \subseteq Nat
BY WordBounds DEF Byte

LEMMA TwoBytesRead ==
  ASSUME NEW n \in Word
  PROVE  /\ TwoBytes(n) \in Seq(Nat) /\ Len(TwoBytes(n)) = 2
         /\ TwoBytes(n)[1] \in Nat /\ TwoBytes(n)[2] \in Nat
         /\ 256 * TwoBytes(n)[1] + TwoBytes(n)[2] = n
<1> DEFINE h == n \div 256
           l == n % 256
<1>1. h \in 0 .. 255 /\ l \in 0 .. 255 /\ 256 * h + l = n
  <2>1. n \in Nat /\ n <= 65535
    BY WordBounds
  <2> QED
    BY <2>1
<1>2. TwoBytes(n) = <<h % 256, l>>
  BY DEF TwoBytes
<1> HIDE DEF h, l
<1>3. h % 256 = h
  BY <1>1
<1> QED
  BY <1>1, <1>2, <1>3

LEMMA ExtendedRead ==
  ASSUME NEW n \in Word
  PROVE  /\ Extended(n) \in Seq(Nat) /\ Len(Extended(n)) = Size(n)
         /\ Nibble(n) \in 0 .. 14 /\ (Nibble(n) = 13 <=> Size(n) = 1) /\ (Nibble(n) = 14 <=> Size(n) = 2)
         /\ Size(n) = 0 => Nibble(n) = n
         /\ Size(n) = 1 => 13 + Extended(n)[1] = n
         /\ Size(n) = 2 => 269 + 256 * Extended(n)[1] + Extended(n)[2] = n
<1>1. CASE n >= 269
  <2>1. n - 269 \in Word /\ n \in Nat
    BY <1>1, WordBounds
  <2>2. Extended(n) = TwoBytes(n - 269) /\ Size(n) = 2 /\ Nibble(n) = 14
    BY <1>1 DEF Extended, Size, Nibble
  <2> DEFINE t == TwoBytes(n - 269)
  <2>3. t \in Seq(Nat) /\ Len(t) = 2 /\ t[1] \in Nat /\ t[2] \in Nat /\ 256 * t[1] + t[2] = n - 269
    BY <2>1, TwoBytesRead
  <2> HIDE DEF t
  <2>4. 269 + 256 * t[1] + t[2] = n
    BY <2>1, <2>3
  <2> QED
    BY <2>2, <2>3, <2>4 DEF t
<1>2. CASE n < 269 /\ n >= 13
  <2>1. n \in Nat /\ n - 13 \in Nat
    BY <1>2, WordBounds
  <2>2. Extended(n) = <<n - 13>> /\ Size(n) = 1 /\ Nibble(n) = 13
    BY <1>2, <2>1 DEF Extended, Size, Nibble
  <2> QED
    BY <2>1, <2>2
<1>3. CASE n < 13
  <2>1. n \in Nat
    BY WordBounds
  <2>2. Extended(n) = <<>> /\ Size(n) = 0 /\ Nibble(n) = n
    BY <1>3, <2>1 DEF Extended, Size, Nibble
  <2> QED
    BY <1>3, <2>1, <2>2
<1> QED
  BY <1>1, <1>2, <1>3, WordBounds

LEMMA SeqOfMore ==
  ASSUME NEW S, NEW T, S \subseteq T, NEW s \in Seq(S)
  PROVE  s \in Seq(T)
<1>1. s \in [1 .. Len(s) -> S] /\ Len(s) \in Nat
  OBVIOUS
<1>2. s \in [1 .. Len(s) -> T]
  BY <1>1
<1> QED
  BY <1>1, <1>2, SeqDef

(* Two sequences joined, s with the indices up to n and t with those up to *)
(* m.                                                                      *)
Ends(T, s, t, n, m) == s \in Seq(T) /\ t \in Seq(T) /\ n = Len(s) /\ m = n + Len(t)

Joint(T, c, s, t, n, m) ==
  /\ c \in Seq(T) /\ Len(c) = m /\ n \in Nat /\ m \in Nat
  /\ \A i \in 1 .. n : c[i] = s[i]
  /\ \A i \in n + 1 .. m : c[i] = t[i - n]

LEMMA Joined ==
  ASSUME NEW T, NEW s, NEW t, NEW n, NEW m, Ends(T, s, t, n, m)
  PROVE  Joint(T, s \o t, s, t, n, m)
BY DEF Ends, Joint

(* The four parts of an option.                                            *)
LEMMA OptionParts ==
  ASSUME NEW o \in OptionType, Len(o.val) \in Word
  PROVE  LET e == Enc(o)
             d == Size(o.num)
             l == Size(Len(o.val))
             len == Len(o.val)
         IN  /\ e \in Seq(Nat) /\ Len(e) = 1 + d + l + len
             /\ e[1] = 16 * Nibble(o.num) + Nibble(len)
             /\ \A i \in 2 .. 1 + d : e[i] = Extended(o.num)[i - 1]
             /\ \A i \in 2 + d .. 1 + d + l : e[i] = Extended(len)[i - (1 + d)]
             /\ \A i \in 2 + d + l .. 1 + d + l + len : e[i] = o.val[i - (1 + d + l)]
<1> DEFINE val == o.val
           len == Len(val)
           first == <<16 * Nibble(o.num) + Nibble(len)>>
           ed == Extended(o.num)
           el == Extended(len)
           d == Size(o.num)
           l == Size(len)
           a == first \o ed
           c == a \o el
           e == c \o val
           n1 == 1
           n2 == n1 + d
           n3 == n2 + l
           n4 == n3 + len
<1>1. Enc(o) = e
  BY DEF Enc, CoAPSerialize_Option
<1>2. o.num \in Word /\ val \in Seq(Nat) /\ len \in Word
  <2>1. o.val \in Seq(Byte) /\ o.num \in Word
    BY DEF OptionType
  <2> QED
    BY <2>1, BytesAndWords, SeqOfMore
<1>3. ed \in Seq(Nat) /\ Len(ed) = d /\ el \in Seq(Nat) /\ Len(el) = l
  BY <1>2, ExtendedRead
<1>4. first \in Seq(Nat) /\ Len(first) = n1 /\ first[1] = 16 * Nibble(o.num) + Nibble(len)
  <2> DEFINE x == Nibble(o.num)
             y == Nibble(len)
  <2>1. x \in 0 .. 14 /\ y \in 0 .. 14
    BY <1>2, ExtendedRead
  <2> HIDE DEF x, y
  <2>2. 16 * x + y \in Nat
    BY <2>1
  <2> QED
    BY <2>2 DEF x, y
<1>5. d \in Nat /\ l \in Nat /\ len \in Nat
  <2>1. d \in Nat /\ l \in Nat
    BY DEF Size
  <2> HIDE DEF len
  <2>2. len \in Nat
    BY <1>2, BytesAndWords
  <2> QED
    BY <2>1, <2>2
<1> HIDE DEF first, ed, el, val, d, l, len
<1>6. Ends(Nat, first, ed, n1, n2)
  BY <1>3, <1>4 DEF Ends
<1>7. Joint(Nat, a, first, ed, n1, n2)
  BY <1>6, Joined
<1>8. Ends(Nat, a, el, n2, n3)
  BY <1>3, <1>7 DEF Ends, Joint
<1> HIDE DEF n1, n2, a
<1>9. Joint(Nat, c, a, el, n2, n3)
  BY <1>8, Joined
<1>10. Ends(Nat, c, val, n3, n4)
  BY <1>2, <1>9 DEF Ends, Joint, len
<1> HIDE DEF n3, c
<1>11. Joint(Nat, e, c, val, n3, n4)
  BY <1>10, Joined
<1> HIDE DEF n4, e
<1>12. n1 = 1 /\ n2 = 1 + d /\ n3 = 1 + d + l /\ n4 = 1 + d + l + len
       /\ n1 + 1 = 2 /\ n2 + 1 = 2 + d /\ n3 + 1 = 2 + d + l
  BY <1>5 DEF n1, n2, n3, n4
<1>13. e \in Seq(Nat) /\ Len(e) = n4 /\ e[1] = first[1]
  BY <1>5, <1>7, <1>9, <1>11, <1>12 DEF Joint
<1>14. ASSUME NEW i \in n1 + 1 .. n2 PROVE e[i] = ed[i - n1]
  BY <1>5, <1>7, <1>9, <1>11, <1>12 DEF Joint
<1>15. ASSUME NEW i \in n2 + 1 .. n3 PROVE e[i] = el[i - n2]
  <2>1. i \in 1 .. n3
    BY <1>5, <1>12
  <2>2. e[i] = c[i]
    BY <1>11, <2>1 DEF Joint
  <2> QED
    BY <1>9, <2>2 DEF Joint
<1>16. ASSUME NEW i \in n3 + 1 .. n4 PROVE e[i] = val[i - n3]
  BY <1>11 DEF Joint
<1>17. /\ e \in Seq(Nat) /\ Len(e) = 1 + d + l + len
       /\ e[1] = 16 * Nibble(o.num) + Nibble(len)
       /\ \A i \in 2 .. 1 + d : e[i] = ed[i - 1]
       /\ \A i \in 2 + d .. 1 + d + l : e[i] = el[i - (1 + d)]
       /\ \A i \in 2 + d + l .. 1 + d + l + len : e[i] = val[i - (1 + d + l)]
  BY <1>4, <1>12, <1>13, <1>14, <1>15, <1>16
<1> QED
  BY <1>1, <1>17 DEF val, ed, el, d, l, len

(* The client and the server step over an option they find.                *)
LEMMA OptionRead ==
  ASSUME NEW o \in OptionType, Len(o.val) \in Word, NEW b \in Seq(Nat), NEW p,
         At(b, p, Enc(o))
  PROVE  /\ CoAPDeserialize_OptionSize(b, p) = Len(Enc(o))
         /\ \A r : r.at = p =>
              NextOption(b, r) =
                [at |-> p + Len(Enc(o)), num |-> r.num + o.num,
                 options |-> Append(r.options, [num |-> r.num + o.num, val |-> o.val])]
         /\ b[p] # 255 /\ p <= Len(b) /\ Len(Enc(o)) \in Nat \ {0}
<1> DEFINE val == o.val
           len == Len(val)
           ed == Extended(o.num)
           el == Extended(len)
           d == Size(o.num)
           l == Size(len)
           x == Nibble(o.num)
           y == Nibble(len)
           e == Enc(o)
<1>1. /\ e \in Seq(Nat) /\ Len(e) = 1 + d + l + len /\ e[1] = 16 * x + y
      /\ \A i \in 2 .. 1 + d : e[i] = ed[i - 1]
      /\ \A i \in 2 + d .. 1 + d + l : e[i] = el[i - (1 + d)]
      /\ \A i \in 2 + d + l .. 1 + d + l + len : e[i] = val[i - (1 + d + l)]
  BY OptionParts
<1>2. o.num \in Word /\ o.num \in Nat /\ val \in Seq(Byte) /\ len \in Word /\ len \in Nat
  BY BytesAndWords DEF OptionType
<1>3. /\ ed \in Seq(Nat) /\ Len(ed) = d /\ x \in 0 .. 14 /\ (x = 13 <=> d = 1) /\ (x = 14 <=> d = 2)
      /\ d = 0 => x = o.num
      /\ d = 1 => 13 + ed[1] = o.num
      /\ d = 2 => 269 + 256 * ed[1] + ed[2] = o.num
      /\ el \in Seq(Nat) /\ Len(el) = l /\ y \in 0 .. 14 /\ (y = 13 <=> l = 1) /\ (y = 14 <=> l = 2)
      /\ l = 0 => y = len
      /\ l = 1 => 13 + el[1] = len
      /\ l = 2 => 269 + 256 * el[1] + el[2] = len
  <2>1. /\ ed \in Seq(Nat) /\ Len(ed) = d /\ x \in 0 .. 14 /\ (x = 13 <=> d = 1) /\ (x = 14 <=> d = 2)
        /\ d = 0 => x = o.num
        /\ d = 1 => 13 + ed[1] = o.num
        /\ d = 2 => 269 + 256 * ed[1] + ed[2] = o.num
    BY <1>2, ExtendedRead
  <2>2. /\ el \in Seq(Nat) /\ Len(el) = l /\ y \in 0 .. 14 /\ (y = 13 <=> l = 1) /\ (y = 14 <=> l = 2)
        /\ l = 0 => y = len
        /\ l = 1 => 13 + el[1] = len
        /\ l = 2 => 269 + 256 * el[1] + el[2] = len
    BY <1>2, ExtendedRead
  <2> QED
    BY <2>1, <2>2
<1>4. d \in {0, 1, 2} /\ l \in {0, 1, 2}
  BY DEF Size
<1>5. /\ p \in Nat \ {0} /\ p + Len(e) <= Len(b) + 1
      /\ \A i \in 1 .. Len(e) : b[p + i - 1] = e[i]
  BY DEF At
<1> HIDE DEF len, ed, el, d, l, x, y, e
<1>6. b[p] \div 16 = x /\ b[p] % 16 = y /\ b[p] # 255 /\ p <= Len(b) /\ Len(e) \in Nat \ {0}
  <2>1. Len(e) \in Nat \ {0} /\ 1 \in 1 .. Len(e)
    BY <1>1, <1>2, <1>4
  <2>2. b[p] = 16 * x + y
    <3>1. p + 1 - 1 = p
      BY <1>5
    <3> QED
      BY <1>1, <1>5, <2>1, <3>1
  <2>3. x \in 0 .. 14 /\ y \in 0 .. 14
    BY <1>3
  <2>4. (16 * x + y) \div 16 = x /\ (16 * x + y) % 16 = y /\ 16 * x + y # 255
    BY <2>3
  <2>5. p <= Len(b)
    BY <1>5, <2>1
  <2> QED
    BY <2>1, <2>2, <2>4, <2>5
<1>13. /\ p \in Nat \ {0} /\ d \in Nat /\ l \in Nat /\ len \in Nat /\ Len(b) \in Nat
       /\ Len(e) = 1 + d + l + len /\ p + 1 + d + l + len <= Len(b) + 1
  BY <1>1, <1>2, <1>4, <1>5
<1>14. (l = 1 => y = 13 /\ 13 + el[1] = len) /\ (l = 2 => y = 14 /\ 269 + 256 * el[1] + el[2] = len)
       /\ (l = 0 => y = len /\ y # 13 /\ y # 14)
  BY <1>3
<1>15. (l = 1 => el[1] \in Nat) /\ (l = 2 => el[1] \in Nat /\ el[2] \in Nat)
  <2>1. l = Len(el) /\ el \in Seq(Nat)
    BY <1>3
  <2> QED
    BY <2>1
<1>7. ASSUME NEW i \in 1 .. d PROVE b[p + i] = ed[i]
  <2> DEFINE j == i + 1
  <2>1. j \in 1 .. Len(e) /\ j \in 2 .. 1 + d /\ p + j - 1 = p + i /\ j - 1 = i
    BY <1>13
  <2> HIDE DEF j
  <2>2. b[p + j - 1] = e[j]
    BY <1>5, <2>1
  <2>3. e[j] = ed[j - 1]
    BY <1>1, <2>1
  <2> QED
    BY <2>1, <2>2, <2>3
<1>8. ASSUME NEW i \in 1 .. l PROVE b[(p + d) + i] = el[i]
  <2> DEFINE j == i + (1 + d)
  <2>1. j \in 1 .. Len(e) /\ j \in 2 + d .. 1 + d + l /\ p + j - 1 = (p + d) + i /\ j - (1 + d) = i
    BY <1>13
  <2> HIDE DEF j
  <2>2. b[p + j - 1] = e[j]
    BY <1>5, <2>1
  <2>3. e[j] = el[j - (1 + d)]
    BY <1>1, <2>1
  <2> QED
    BY <2>1, <2>2, <2>3
<1>9. ASSUME NEW i \in 1 .. len PROVE b[(p + d + l) + i] = val[i]
  <2> DEFINE j == i + (1 + d + l)
  <2>1. j \in 1 .. Len(e) /\ j \in 2 + d + l .. 1 + d + l + len /\ p + j - 1 = (p + d + l) + i /\ j - (1 + d + l) = i
    BY <1>13
  <2> HIDE DEF j
  <2>2. b[p + j - 1] = e[j]
    BY <1>5, <2>1
  <2>3. e[j] = val[j - (1 + d + l)]
    BY <1>1, <2>1
  <2> QED
    BY <2>1, <2>2, <2>3
<1>10. /\ d = 1 => b[p + 1] = ed[1]
       /\ d = 2 => b[p + 1] = ed[1] /\ b[p + 1 + 1] = ed[2]
       /\ l = 1 => b[p + 1 + d] = el[1]
       /\ l = 2 => b[p + 1 + d] = el[1] /\ b[p + 1 + d + 1] = el[2]
  <2>1. p + d + 1 = p + 1 + d /\ p + d + 2 = p + 1 + d + 1 /\ p + 1 + 1 = p + 2
    BY <1>13
  <2>2. (d = 1 => 1 \in 1 .. d) /\ (d = 2 => 1 \in 1 .. d /\ 2 \in 1 .. d)
        /\ (l = 1 => 1 \in 1 .. l) /\ (l = 2 => 1 \in 1 .. l /\ 2 \in 1 .. l)
    OBVIOUS
  <2>3. d = 1 => b[p + 1] = ed[1]
    BY <1>7, <2>2
  <2>4. d = 2 => b[p + 1] = ed[1] /\ b[p + 2] = ed[2]
    BY <1>7, <2>2
  <2>5. l = 1 => b[(p + d) + 1] = el[1]
    BY <1>8, <2>2
  <2>6. l = 2 => b[(p + d) + 1] = el[1] /\ b[(p + d) + 2] = el[2]
    BY <1>8, <2>2
  <2> QED
    BY <2>1, <2>3, <2>4, <2>5, <2>6
<1>11. CoAPDeserialize_OptionSize(b, p) = Len(e)
  <2> DEFINE past == p + 1 + d
  <2>1. past = p + 1 + (IF x = 13 THEN 1 ELSE IF x = 14 THEN 2 ELSE 0)
    BY <1>3, <1>4
  <2>2. past \in Nat /\ past - p = 1 + d
    BY <1>13
  <2> HIDE DEF past
  <2>3. CoAPDeserialize_OptionSize(b, p) =
          IF y = 13 THEN past + 1 + 13 + b[past] - p
          ELSE IF y = 14 THEN past + 2 + 269 + 256 * b[past] + b[past + 1] - p
          ELSE past + y - p
    <3> DEFINE after == p + 1 + (IF b[p] \div 16 = 13 THEN 1 ELSE IF b[p] \div 16 = 14 THEN 2 ELSE 0)
               low == b[p] % 16
    <3>1. CoAPDeserialize_OptionSize(b, p) =
            IF low = 13 THEN after + 1 + 13 + b[after] - p
            ELSE IF low = 14 THEN after + 2 + 269 + 256 * b[after] + b[after + 1] - p
            ELSE after + low - p
      BY Zenon DEF CoAPDeserialize_OptionSize
    <3>2. after = past /\ low = y
      BY <1>6, <2>1
    <3> HIDE DEF after, low
    <3> QED
      BY <3>1, <3>2
  <2>4. CASE l = 0
    <3>1. CoAPDeserialize_OptionSize(b, p) = past + len - p
      BY <1>14, <2>3, <2>4
    <3> QED
      BY <1>13, <2>2, <2>4, <3>1
  <2>5. CASE l = 1
    <3> DEFINE z == el[1]
    <3>1. CoAPDeserialize_OptionSize(b, p) = past + 1 + 13 + z - p
      BY <1>10, <1>14, <2>3, <2>5 DEF past
    <3>2. z \in Nat /\ 13 + z = len
      BY <1>14, <1>15, <2>5
    <3> HIDE DEF z
    <3>3. past + 1 + 13 + z - p = Len(e)
      BY <1>13, <2>2, <2>5, <3>2
    <3> QED
      BY <3>1, <3>3
  <2>6. CASE l = 2
    <3>1. y = 14 /\ y # 13 /\ b[past] = el[1] /\ b[past + 1] = el[2]
      BY <1>10, <1>14, <2>6 DEF past
    <3> DEFINE z == el[1]
               w == el[2]
    <3>2. CoAPDeserialize_OptionSize(b, p) = past + 2 + 269 + 256 * z + w - p
      BY <2>3, <3>1
    <3>3. z \in Nat /\ w \in Nat /\ 269 + 256 * z + w = len
      BY <1>14, <1>15, <2>6
    <3> HIDE DEF z, w
    <3>4. past + 2 + 269 + 256 * z + w - p = Len(e)
      BY <1>13, <2>2, <2>6, <3>3
    <3> QED
      BY <3>2, <3>4
  <2>7. l = 0 \/ l = 1 \/ l = 2
    BY <1>4
  <2> QED
    BY <2>4, <2>5, <2>6, <2>7
<1>12. ASSUME NEW r, r.at = p
       PROVE  NextOption(b, r) =
                [at |-> p + Len(e), num |-> r.num + o.num,
                 options |-> Append(r.options, [num |-> r.num + o.num, val |-> val])]
  <2> DEFINE Value(n, k) == IF n = 13 THEN 13 + b[k]
                            ELSE IF n = 14 THEN 269 + 256 * b[k] + b[k + 1] ELSE n
             More(n) == IF n = 13 THEN 1 ELSE IF n = 14 THEN 2 ELSE 0
             from == p + 1 + d + l
  <2>1. More(x) = d /\ More(y) = l
    BY <1>3, <1>4
  <2>2. Value(x, p + 1) = o.num
    <3>1. CASE d = 0
      BY <1>3, <3>1
    <3>2. CASE d = 1
      BY <1>3, <1>10, <3>2
    <3>3. CASE d = 2
      <4>1. b[p + 1] = ed[1] /\ b[p + 1 + 1] = ed[2] /\ x = 14
        BY <1>3, <1>10, <3>3
      <4> QED
        BY <1>3, <3>3, <4>1
    <3>4. d = 0 \/ d = 1 \/ d = 2
      BY <1>4
    <3> QED
      BY <3>1, <3>2, <3>3, <3>4
  <2>3. Value(y, p + 1 + d) = len
    <3>1. CASE l = 0
      BY <1>3, <3>1
    <3>2. CASE l = 1
      BY <1>3, <1>10, <3>2
    <3>3. CASE l = 2
      <4>1. b[p + 1 + d] = el[1] /\ b[p + 1 + d + 1] = el[2] /\ y = 14
        BY <1>3, <1>10, <3>3
      <4> QED
        BY <1>3, <3>3, <4>1
    <3>4. l = 0 \/ l = 1 \/ l = 2
      BY <1>4
    <3> QED
      BY <3>1, <3>2, <3>3, <3>4
  <2>4. NextOption(b, r) =
          [at |-> (p + 1 + More(x) + More(y)) + Value(y, p + 1 + More(x)),
           num |-> r.num + Value(x, p + 1),
           options |-> Append(r.options,
             [num |-> r.num + Value(x, p + 1),
              val |-> SubSeq(b, p + 1 + More(x) + More(y),
                             (p + 1 + More(x) + More(y)) + Value(y, p + 1 + More(x)) - 1)])]
    <3> DEFINE q == r.at
               u == b[q] \div 16
               v == b[q] % 16
    <3>1. NextOption(b, r) =
          [at |-> (q + 1 + More(u) + More(v)) + Value(v, q + 1 + More(u)),
           num |-> r.num + Value(u, q + 1),
           options |-> Append(r.options,
             [num |-> r.num + Value(u, q + 1),
              val |-> SubSeq(b, q + 1 + More(u) + More(v),
                             (q + 1 + More(u) + More(v)) + Value(v, q + 1 + More(u)) - 1)])]
      BY Zenon DEF NextOption
    <3>2. q = p /\ u = x /\ v = y
      BY <1>6, <1>12
    <3> HIDE DEF q, u, v, Value, More
    <3> QED
      BY <3>1, <3>2
  <2> HIDE DEF Value, More
  <2>5. from + len = p + Len(e) /\ from \in Nat \ {0} /\ from + len - 1 \in Nat
    BY <1>13
  <2>6. SubSeq(b, from, from + len - 1) = val
    <3>1. \A i \in 1 .. len : from + i - 1 = p + d + l + i
      BY <1>13
    <3>2. \A i \in 1 .. len : b[from + i - 1] = val[i]
      BY <1>9, <3>1
    <3>3. from + len <= Len(b) + 1
      BY <1>13
    <3>4. val \in Seq(Nat) /\ Len(val) = len
      BY <1>2, BytesAndWords, SeqOfMore DEF len
    <3> HIDE DEF from
    <3>5. At(b, from, val)
      BY <2>5, <3>2, <3>3, <3>4 DEF At
    <3> QED
      BY <3>4, <3>5, Cut
  <2> HIDE DEF from
  <2>7. p + 1 + More(x) + More(y) = from
    BY <2>1 DEF from
  <2>8. p + 1 + More(x) = p + 1 + d
    BY <2>1
  <2> QED
    BY <2>2, <2>3, <2>4, <2>5, <2>6, <2>7, <2>8
<1> HIDE DEF val
<1> QED
  BY <1>6, <1>11, <1>12 DEF e, val

-----------------------------------------------------------------------------
(* The options of a message, one after the other.                          *)

LEMMA AtFront ==
  ASSUME NEW s \in Seq(Nat), NEW t \in Seq(Nat), NEW e \in Seq(Nat), NEW p, At(s, p, e)
  PROVE  At(s \o t, p, e)
<1> DEFINE c == s \o t
           n == Len(s)
           m == n + Len(t)
<1>1. Joint(Nat, c, s, t, n, m)
  BY Joined DEF Ends
<1>2. p \in Nat \ {0} /\ p + Len(e) <= n + 1 /\ Len(e) \in Nat /\ n \in Nat /\ n <= m /\ m \in Nat
  BY DEF At
<1> HIDE DEF c, m
<1>3. ASSUME NEW i \in 1 .. Len(e) PROVE c[p + i - 1] = e[i]
  <2>1. p + i - 1 \in 1 .. n
    BY <1>2
  <2>2. s[p + i - 1] = e[i]
    BY DEF At
  <2> QED
    BY <1>1, <2>1, <2>2 DEF Joint
<1>4. p + Len(e) <= Len(c) + 1
  BY <1>1, <1>2 DEF Joint
<1> QED
  BY <1>2, <1>3, <1>4 DEF At, c

LEMMA AtBack ==
  ASSUME NEW s \in Seq(Nat), NEW t \in Seq(Nat), NEW e \in Seq(Nat), NEW p, At(t, p, e)
  PROVE  At(s \o t, Len(s) + p, e)
<1> DEFINE c == s \o t
           n == Len(s)
           m == n + Len(t)
<1>1. Joint(Nat, c, s, t, n, m)
  BY Joined DEF Ends
<1>2. p \in Nat \ {0} /\ p + Len(e) <= Len(t) + 1 /\ Len(e) \in Nat /\ n \in Nat /\ Len(t) \in Nat /\ m = n + Len(t)
  BY DEF At
<1> HIDE DEF c, m, n
<1>3. ASSUME NEW i \in 1 .. Len(e) PROVE c[(n + p) + i - 1] = e[i]
  <2> DEFINE j == p + i - 1
             k == (n + p) + i - 1
  <2>1. k \in n + 1 .. m /\ k - n = j
    BY <1>2
  <2>2. t[j] = e[i]
    BY DEF At
  <2> HIDE DEF j, k
  <2>3. c[k] = e[i]
    BY <1>1, <2>1, <2>2 DEF Joint
  <2> QED
    BY <2>3 DEF k
<1>4. (n + p) + Len(e) <= Len(c) + 1 /\ n + p \in Nat \ {0}
  BY <1>1, <1>2 DEF Joint
<1> QED
  BY <1>3, <1>4 DEF At, c, n

LEMMA AtEnd ==
  ASSUME NEW s \in Seq(Nat), NEW e \in Seq(Nat)
  PROVE  /\ At(s \o e, Len(s) + 1, e)
         /\ s \o e \in Seq(Nat) /\ Len(s \o e) = Len(s) + Len(e)
<1>1. At(e, 1, e)
  BY DEF At
<1>2. At(s \o e, Len(s) + 1, e)
  BY <1>1, AtBack
<1> QED
  BY <1>2

(* The options' values are no longer than a length can say.                *)
Sendable(opts) == opts \in Seq(OptionType) /\ \A k \in 1 .. Len(opts) : Len(opts[k].val) \in Word

(* The bytes up to each option.                                            *)
Encoded(f, opts) ==
  /\ f[0] = <<>>
  /\ \A k \in 1 .. Len(opts) : f[k] = f[k - 1] \o Enc(opts[k])
  /\ \A k \in 0 .. Len(opts) : f[k] \in Seq(Nat)

LEMMA EncIsBytes ==
  ASSUME NEW opts, Sendable(opts), NEW k \in 1 .. Len(opts)
  PROVE  Enc(opts[k]) \in Seq(Nat) /\ opts[k] \in OptionType /\ Len(opts[k].val) \in Word
<1>1. opts[k] \in OptionType /\ Len(opts[k].val) \in Word
  BY DEF Sendable
<1> QED
  BY <1>1, OptionParts

LEMMA OptionsEncoded ==
  ASSUME NEW opts, Sendable(opts)
  PROVE  \E f : Encoded(f, opts) /\ CoAPSerialize_Options(opts) = f[Len(opts)]
<1> DEFINE n == Len(opts)
           enc == [k \in 1 .. n |-> Enc(opts[k])]
           g == [x \in (1 .. n) \X Seq(Nat) |-> x[2] \o enc[x[1]]]
           P == [k \in 0 .. n |-> Seq(Nat)]
           Is(f) == f = [k \in 0 .. n |-> IF k = 0 THEN <<>> ELSE f[k - 1] \o Enc(opts[k])]
<1>1. n \in Nat
  BY DEF Sendable
<1>2. \A k \in 1 .. n : enc[k] = Enc(opts[k]) /\ enc[k] \in Seq(Nat)
  BY EncIsBytes
<1> HIDE DEF n, enc
<1>3. \A k \in 1 .. n, y \in Seq(Nat) : g[<<k, y>>] = y \o enc[k]
  OBVIOUS
<1> HIDE DEF g
<1>4. PICK f : Loop(f, n, <<>>, g)
  BY <1>1, LoopExists
<1>5. f = [k \in 0 .. n |-> IF k = 0 THEN <<>> ELSE g[<<k, f[k - 1]>>]]
  BY <1>4 DEF Loop
<1>6. \A k \in 0 .. n : f[k] \in P[k]
  <2>1. f[0] \in P[0]
    <3>1. f[0] = <<>> /\ P[0] = Seq(Nat)
      BY <1>1, <1>5
    <3> HIDE DEF P
    <3> QED
      BY <3>1, EmptySeq
  <2>2. ASSUME NEW k \in 1 .. n, f[k - 1] \in P[k - 1] PROVE f[k] \in P[k]
    <3>1. k \in 0 .. n /\ k - 1 \in 0 .. n /\ k # 0 /\ P[k] = Seq(Nat) /\ P[k - 1] = Seq(Nat)
      BY <1>1
    <3>2. f[k] = g[<<k, f[k - 1]>>] /\ f[k - 1] \in Seq(Nat)
      BY <1>5, <2>2, <3>1
    <3>3. f[k] = f[k - 1] \o enc[k]
      BY <1>3, <3>2
    <3> QED
      BY <1>2, <3>1, <3>2, <3>3
  <2> HIDE DEF P
  <2>9. Kept(f, P, n)
    BY <1>1, <2>1, <2>2 DEF Kept
  <2> QED
    BY <2>9, Stays
<1>7. Is(f)
  <2>1. ASSUME NEW k \in 0 .. n, k # 0 PROVE g[<<k, f[k - 1]>>] = f[k - 1] \o Enc(opts[k])
    <3>1. k \in 1 .. n /\ k - 1 \in 0 .. n
      BY <1>1, <2>1
    <3>2. f[k - 1] \in Seq(Nat)
      BY <1>6, <3>1
    <3> QED
      BY <1>2, <1>3, <3>1, <3>2
  <2> QED
    BY <1>5, <2>1
<1> DEFINE chosen == CHOOSE h : Is(h)
<1>8. Is(chosen)
  BY <1>7
<1>9. CoAPSerialize_Options(opts) = chosen[n]
  BY DEF CoAPSerialize_Options, Enc, n
<1> HIDE DEF chosen
<1>10. chosen[0] = <<>> /\ \A k \in 1 .. n : chosen[k] = chosen[k - 1] \o Enc(opts[k])
  BY <1>1, <1>8
<1>11. \A k \in 0 .. n : chosen[k] \in P[k]
  <2>1. chosen[0] \in P[0]
    BY <1>1, <1>10
  <2>2. ASSUME NEW k \in 1 .. n, chosen[k - 1] \in P[k - 1] PROVE chosen[k] \in P[k]
    <3>1. P[k] = Seq(Nat) /\ P[k - 1] = Seq(Nat)
      BY <1>1
    <3>2. enc[k] \in Seq(Nat) /\ chosen[k] = chosen[k - 1] \o enc[k]
      BY <1>2, <1>10
    <3> HIDE DEF P
    <3> QED
      BY <2>2, <3>1, <3>2
  <2> HIDE DEF P
  <2>9. Kept(chosen, P, n)
    BY <1>1, <2>1, <2>2 DEF Kept
  <2> QED
    BY <2>9, Stays
<1>12. Encoded(chosen, opts)
  BY <1>10, <1>11 DEF Encoded, n
<1> QED
  BY <1>9, <1>12 DEF n

(* Where each option begins, and where the last one ends.                  *)
Laid(b, pos, opts) ==
  /\ \A k \in 0 .. Len(opts) : pos[k] \in Nat \ {0}
  /\ \A k \in 1 .. Len(opts) : At(b, pos[k - 1], Enc(opts[k]))
                               /\ pos[k] = pos[k - 1] + Len(Enc(opts[k]))

LEMMA OptionsLaid ==
  ASSUME NEW opts, Sendable(opts), NEW front \in Seq(Nat), NEW tail \in Seq(Nat)
  PROVE  LET o == CoAPSerialize_Options(opts)
             b == (front \o o) \o tail
         IN  /\ o \in Seq(Nat) /\ b \in Seq(Nat) /\ Len(b) = Len(front) + Len(o) + Len(tail)
             /\ \E pos : /\ Laid(b, pos, opts) /\ pos[0] = Len(front) + 1
                         /\ pos[Len(opts)] = Len(front) + 1 + Len(o)
<1> DEFINE n == Len(opts)
           o == CoAPSerialize_Options(opts)
           b == (front \o o) \o tail
           enc == [k \in 1 .. n |-> Enc(opts[k])]
<1>1. n \in Nat
  BY DEF Sendable
<1>2. \A k \in 1 .. n : enc[k] = Enc(opts[k]) /\ enc[k] \in Seq(Nat)
  BY EncIsBytes
<1>3. PICK f : Encoded(f, opts) /\ o = f[n]
  BY OptionsEncoded
<1> HIDE DEF n, enc, o
<1>4. f[0] = <<>> /\ (\A k \in 1 .. n : f[k] = f[k - 1] \o enc[k]) /\ \A k \in 0 .. n : f[k] \in Seq(Nat)
  BY <1>2, <1>3 DEF Encoded, n
<1> DEFINE P == [k \in 0 .. n |-> {s \in Seq(Nat) : \A j \in 1 .. k : At(s, Len(f[j - 1]) + 1, enc[j])}]
<1>5. f[n] \in P[n]
  <2>1. f[0] \in P[0]
    <3>1. \A j \in 1 .. 0 : At(f[0], Len(f[j - 1]) + 1, enc[j])
      OBVIOUS
    <3>2. 0 \in 0 .. n /\ f[0] \in Seq(Nat)
      BY <1>1, <1>4
    <3> QED
      BY <3>1, <3>2
  <2>2. ASSUME NEW k \in 1 .. n, f[k - 1] \in P[k - 1] PROVE f[k] \in P[k]
    <3>1. k \in 0 .. n /\ k - 1 \in 0 .. n
      BY <1>1
    <3>2. f[k - 1] \in Seq(Nat) /\ f[k] \in Seq(Nat) /\ f[k] = f[k - 1] \o enc[k] /\ enc[k] \in Seq(Nat)
      BY <1>2, <1>4, <3>1
    <3>3. \A j \in 1 .. k - 1 : At(f[k - 1], Len(f[j - 1]) + 1, enc[j])
      BY <2>2, <3>1
    <3>4. ASSUME NEW j \in 1 .. k PROVE At(f[k], Len(f[j - 1]) + 1, enc[j])
      <4>1. CASE j = k
        BY <3>2, <4>1, AtEnd
      <4>2. CASE j # k
        <5>1. j \in 1 .. k - 1 /\ j \in 1 .. n
          BY <1>1, <4>2
        <5>2. enc[j] \in Seq(Nat) /\ At(f[k - 1], Len(f[j - 1]) + 1, enc[j])
          BY <1>2, <3>3, <5>1
        <5> QED
          BY <3>2, <5>2, AtFront
      <4> QED
        BY <4>1, <4>2
    <3> QED
      BY <3>1, <3>2, <3>4
  <2>3. \A k \in 0 .. n : f[k] \in P[k]
    <3> HIDE DEF P
    <3>9. Kept(f, P, n)
      BY <1>1, <2>1, <2>2 DEF Kept
    <3> QED
      BY <3>9, Stays
  <2> QED
    BY <1>1, <2>3
<1>6. f[n] \in Seq(Nat) /\ \A j \in 1 .. n : At(f[n], Len(f[j - 1]) + 1, enc[j])
  BY <1>1, <1>5
<1> HIDE DEF P
<1>7. /\ o \in Seq(Nat) /\ front \o o \in Seq(Nat) /\ b \in Seq(Nat)
      /\ Len(front) \in Nat /\ Len(b) = Len(front) + Len(o) + Len(tail)
  <2>1. o \in Seq(Nat)
    BY <1>3, <1>6
  <2> QED
    BY <2>1
<1> HIDE DEF b
<1> DEFINE at == Len(front)
           pos == [k \in 0 .. n |-> at + 1 + Len(f[k])]
<1>12. at \in Nat
  BY <1>7
<1> HIDE DEF at
<1>8. ASSUME NEW k \in 0 .. n PROVE pos[k] = at + (Len(f[k]) + 1) /\ pos[k] \in Nat \ {0}
  <2> DEFINE z == Len(f[k])
  <2>1. z \in Nat
    BY <1>4
  <2> HIDE DEF z
  <2>2. at + 1 + z = at + (z + 1) /\ at + 1 + z \in Nat \ {0}
    BY <1>12, <2>1
  <2>3. pos[k] = at + 1 + z
    BY DEF z
  <2> QED
    BY <2>2, <2>3 DEF z
<1>9. ASSUME NEW j \in 1 .. n PROVE At(b, pos[j - 1], enc[j]) /\ pos[j] = pos[j - 1] + Len(enc[j])
  <2>1. j - 1 \in 0 .. n /\ j \in 0 .. n
    BY <1>1
  <2>2. f[j - 1] \in Seq(Nat) /\ f[j] = f[j - 1] \o enc[j] /\ enc[j] \in Seq(Nat)
    BY <1>2, <1>4, <2>1
  <2>3. At(front \o o, at + (Len(f[j - 1]) + 1), enc[j])
    BY <1>3, <1>6, <2>2, AtBack DEF at
  <2>4. At(b, at + (Len(f[j - 1]) + 1), enc[j])
    BY <1>7, <2>2, <2>3, AtFront DEF b
  <2> DEFINE u == Len(f[j - 1])
             v == Len(enc[j])
  <2>5. Len(f[j]) = u + v /\ u \in Nat /\ v \in Nat
    BY <2>2
  <2>6. pos[j] = at + (Len(f[j]) + 1) /\ pos[j - 1] = at + (u + 1)
    BY <1>8, <2>1
  <2> HIDE DEF u, v, pos
  <2>7. pos[j] = pos[j - 1] + v
    BY <1>12, <2>5, <2>6
  <2> QED
    BY <2>4, <2>6, <2>7 DEF u, v
<1>10. pos[0] = Len(front) + 1 /\ pos[n] = Len(front) + 1 + Len(o)
  <2>1. pos[0] = at + (Len(f[0]) + 1) /\ pos[n] = at + (Len(f[n]) + 1)
    BY <1>1, <1>8
  <2>2. Len(f[0]) = 0 /\ Len(f[n]) = Len(o) /\ Len(o) \in Nat
    BY <1>3, <1>4, <1>7
  <2> HIDE DEF pos
  <2>3. Len(front) = at
    BY DEF at
  <2> QED
    BY <1>12, <2>1, <2>2, <2>3
<1> HIDE DEF pos
<1>11. Laid(b, pos, opts)
  BY <1>2, <1>8, <1>9 DEF Laid, n
<1> QED
  BY <1>7, <1>10, <1>11 DEF n, o, b

(* Client and server step over the k-th option.                            *)
Stepped(b, pos, opts, k) ==
  /\ pos[k - 1] <= Len(b) /\ b[pos[k - 1]] # 255 /\ pos[k - 1] \in Nat /\ pos[k] \in Nat
  /\ CoAPDeserialize_OptionSize(b, pos[k - 1]) = pos[k] - pos[k - 1]
  /\ \A r : r.at = pos[k - 1] =>
       NextOption(b, r) =
         [at |-> pos[k], num |-> r.num + opts[k].num,
          options |-> Append(r.options, [num |-> r.num + opts[k].num, val |-> opts[k].val])]

(* The options have their places before the end.                           *)
LEMMA Places ==
  ASSUME NEW b \in Seq(Nat), NEW pos, NEW opts, Sendable(opts), Laid(b, pos, opts),
         pos[Len(opts)] <= Len(b) + 1
  PROVE  /\ Len(opts) \in 0 .. Len(b)
         /\ \A k \in 1 .. Len(opts) : Stepped(b, pos, opts, k)
<1> DEFINE n == Len(opts)
           P == [k \in 0 .. n |-> {x \in Nat : x >= k + 1}]
<1>1. n \in Nat
  BY DEF Sendable
<1>2. ASSUME NEW k \in 1 .. n
      PROVE  /\ pos[k - 1] \in Nat /\ pos[k] \in Nat
             /\ Len(Enc(opts[k])) \in Nat \ {0} /\ pos[k] = pos[k - 1] + Len(Enc(opts[k]))
             /\ Stepped(b, pos, opts, k)
  <2> DEFINE o == opts[k]
             p == pos[k - 1]
  <2>1. o \in OptionType /\ Len(o.val) \in Word
    BY EncIsBytes
  <2>2. At(b, p, Enc(o)) /\ pos[k] = p + Len(Enc(o))
    BY DEF Laid
  <2>3. k - 1 \in 0 .. n /\ k \in 0 .. n
    BY <1>1
  <2>4. p \in Nat /\ pos[k] \in Nat
    BY <2>3 DEF Laid
  <2> HIDE DEF o, p
  <2>5. /\ CoAPDeserialize_OptionSize(b, p) = Len(Enc(o))
        /\ \A r : r.at = p =>
              NextOption(b, r) =
                [at |-> p + Len(Enc(o)), num |-> r.num + o.num,
                 options |-> Append(r.options, [num |-> r.num + o.num, val |-> o.val])]
        /\ b[p] # 255 /\ p <= Len(b) /\ Len(Enc(o)) \in Nat \ {0}
    BY <2>1, <2>2, OptionRead
  <2> DEFINE len == Len(Enc(o))
  <2>6. len = pos[k] - p
    <3>1. len \in Nat /\ pos[k] = p + len
      BY <2>2, <2>5
    <3> HIDE DEF len
    <3> QED
      BY <2>4, <3>1
  <2>7. \A r : r.at = p =>
              NextOption(b, r) =
                [at |-> pos[k], num |-> r.num + o.num,
                 options |-> Append(r.options, [num |-> r.num + o.num, val |-> o.val])]
    BY <2>2, <2>5
  <2> QED
    BY <2>2, <2>4, <2>5, <2>6, <2>7 DEF o, p, Stepped
<1>3. \A k \in 0 .. n : pos[k] \in P[k]
  <2>1. pos[0] \in P[0]
    <3>1. pos[0] \in Nat \ {0} /\ P[0] = {x \in Nat : x >= 0 + 1}
      BY <1>1 DEF Laid
    <3> QED
      BY <3>1
  <2>2. ASSUME NEW k \in 1 .. n, pos[k - 1] \in P[k - 1] PROVE pos[k] \in P[k]
    <3>1. P[k - 1] = {x \in Nat : x >= (k - 1) + 1} /\ P[k] = {x \in Nat : x >= k + 1}
      BY <1>1
    <3>2. pos[k] > pos[k - 1] /\ pos[k] \in Nat /\ pos[k - 1] >= k /\ pos[k - 1] \in Nat
      BY <1>2, <2>2, <3>1
    <3> QED
      BY <3>1, <3>2
  <2> HIDE DEF P
  <2>9. Kept(pos, P, n)
    BY <1>1, <2>1, <2>2 DEF Kept
  <2> QED
    BY <2>9, Stays
<1>4. n <= Len(b)
  <2>1. pos[n] >= n + 1 /\ pos[n] \in Nat
    BY <1>1, <1>3
  <2> QED
    BY <1>1, <2>1
<1> QED
  BY <1>1, <1>2, <1>4

(* The options end with the message or at the payload mark.                *)
Framed(b, pos, opts) ==
  /\ b \in Seq(Nat) /\ Sendable(opts) /\ Laid(b, pos, opts)
  /\ pos[Len(opts)] <= Len(b) + 1
  /\ pos[Len(opts)] > Len(b) \/ b[pos[Len(opts)]] = 255

(* The client's walk ends where the options do.                            *)
LEMMA OptionsSkipped ==
  ASSUME NEW b, NEW pos, NEW opts, Framed(b, pos, opts)
  PROVE  CoAPDeserialize_Options(b, pos[0]) = pos[Len(opts)]
<1>30. b \in Seq(Nat) /\ Sendable(opts) /\ Laid(b, pos, opts) /\ pos[Len(opts)] <= Len(b) + 1
  BY DEF Framed
<1> DEFINE n == Len(opts)
           m == Len(b)
           Step(p) == IF p > m THEN p ELSE IF b[p] = 255 THEN p ELSE p + CoAPDeserialize_OptionSize(b, p)
           v == [k \in 0 .. m |-> pos[IF k < n THEN k ELSE n]]
           Is(h) == h = [k \in 0 .. m |-> IF k = 0 THEN pos[0] ELSE Step(h[k - 1])]
           chosen == CHOOSE h : Is(h)
<1>1. n \in Nat /\ m \in Nat /\ n <= m
  BY <1>30, Places DEF Sendable
<1>2. ASSUME NEW k \in 1 .. n
      PROVE  /\ pos[k - 1] <= m /\ b[pos[k - 1]] # 255 /\ pos[k - 1] \in Nat /\ pos[k] \in Nat
             /\ CoAPDeserialize_OptionSize(b, pos[k - 1]) = pos[k] - pos[k - 1]
  BY <1>30, Places DEF Stepped
<1>3. Step(pos[n]) = pos[n]
  BY <1>1 DEF Framed
<1> HIDE DEF n, m
<1>4. ASSUME NEW k \in 1 .. n PROVE Step(pos[k - 1]) = pos[k]
  <2> DEFINE x == pos[k - 1]
             y == pos[k]
  <2>1. x <= m /\ b[x] # 255 /\ x \in Nat /\ y \in Nat /\ CoAPDeserialize_OptionSize(b, x) = y - x
    BY <1>2
  <2> HIDE DEF x, y
  <2>2. Step(x) = x + (y - x)
    BY <1>1, <2>1
  <2>3. x + (y - x) = y
    BY <2>1
  <2> QED
    BY <2>2, <2>3 DEF x, y
<1> HIDE DEF Step
<1>5. \A k \in 0 .. m : v[k] = pos[IF k < n THEN k ELSE n]
  OBVIOUS
<1>6. v[0] = pos[0] /\ v[m] = pos[n]
  BY <1>1, <1>5
<1> DEFINE V == v
<1>7. V = [k \in 0 .. m |-> V[k]]
  OBVIOUS
<1> HIDE DEF v
<1>8. ASSUME NEW k \in 1 .. m PROVE v[k] = Step(v[k - 1])
  <2>1. k \in 0 .. m /\ k - 1 \in 0 .. m
    BY <1>1
  <2>2. CASE k <= n
    <3>1. v[k - 1] = pos[k - 1] /\ v[k] = pos[k] /\ k \in 1 .. n
      BY <1>1, <1>5, <2>1, <2>2
    <3> QED
      BY <1>4, <3>1
  <2>3. CASE k > n
    <3>1. v[k - 1] = pos[n] /\ v[k] = pos[n]
      BY <1>1, <1>5, <2>1, <2>3
    <3> QED
      BY <1>3, <3>1
  <2> QED
    BY <1>1, <2>2, <2>3
<1>9. Is(v)
  <2>1. ASSUME NEW k \in 0 .. m PROVE v[k] = IF k = 0 THEN pos[0] ELSE Step(v[k - 1])
    BY <1>1, <1>6, <1>8
  <2> QED
    BY <1>7, <2>1
<1> HIDE DEF Is
<1>10. Is(chosen)
  BY <1>9, Zenon
<1>11. CoAPDeserialize_Options(b, pos[0]) = chosen[m]
  BY DEF CoAPDeserialize_Options, Step, m, Is
<1> HIDE DEF chosen
<1>12. chosen[0] = pos[0] /\ \A k \in 1 .. m : chosen[k] = Step(chosen[k - 1])
  BY <1>1, <1>10 DEF Is
<1> DEFINE P == [k \in 0 .. m |-> {v[k]}]
<1>13. \A k \in 0 .. m : chosen[k] \in P[k]
  <2>1. chosen[0] \in P[0]
    BY <1>1, <1>6, <1>12
  <2>2. ASSUME NEW k \in 1 .. m, chosen[k - 1] \in P[k - 1] PROVE chosen[k] \in P[k]
    <3>1. P[k] = {v[k]} /\ P[k - 1] = {v[k - 1]}
      BY <1>1
    <3> HIDE DEF P
    <3> QED
      BY <1>8, <1>12, <2>2, <3>1
  <2>3. m \in Nat
    BY <1>1
  <2> HIDE DEF P
  <2>4. Kept(chosen, P, m)
    BY <2>1, <2>2, <2>3 DEF Kept
  <2> QED
    BY <2>4, Stays
<1>14. chosen[m] = v[m]
  BY <1>1, <1>13
<1> QED
  BY <1>6, <1>11, <1>14 DEF n

(* The options with the sums of their numbers.                             *)
Absolute(nums, opts) == nums[0] = 0 /\ \A k \in 1 .. Len(opts) : nums[k] = nums[k - 1] + opts[k].num

(* The server reads the options as they were written.                      *)
LEMMA OptionsRead ==
  ASSUME NEW b, NEW pos, NEW opts, Framed(b, pos, opts), pos[0] = 5 + (b[1] % 16), NEW nums, Absolute(nums, opts)
  PROVE  LET q == ServerReads(b)
         IN  /\ q.options = [k \in 1 .. Len(opts) |-> [num |-> nums[k], val |-> opts[k].val]]
             /\ q.payload = SubSeq(b, pos[Len(opts)] + 1, Len(b))
<1>30. b \in Seq(Nat) /\ Sendable(opts) /\ Laid(b, pos, opts) /\ pos[Len(opts)] <= Len(b) + 1
  BY DEF Framed
<1> DEFINE n == Len(opts)
           m == Len(b)
           opt == [k \in 1 .. n |-> [num |-> nums[k], val |-> opts[k].val]]
           list == [k \in 0 .. n |-> [j \in 1 .. k |-> opt[j]]]
           R == [k \in 0 .. n |-> [at |-> pos[k], num |-> nums[k], options |-> list[k]]]
           Step(r) == IF r.at > m THEN r ELSE IF b[r.at] = 255 THEN r ELSE NextOption(b, r)
           v == [k \in 0 .. m |-> R[IF k < n THEN k ELSE n]]
           start == [at |-> 5 + (b[1] % 16), num |-> 0, options |-> <<>>]
           Is(h) == h = [k \in 0 .. m |-> IF k = 0 THEN start ELSE Step(h[k - 1])]
           chosen == CHOOSE h : Is(h)
<1>1. n \in Nat /\ m \in Nat /\ n <= m
  BY <1>30, Places DEF Sendable
<1>2. \A k \in 1 .. n : Stepped(b, pos, opts, k)
  BY <1>30, Places
<1>3. nums[0] = 0 /\ \A k \in 1 .. n : nums[k] = nums[k - 1] + opts[k].num
  BY DEF Absolute
<1>4. pos[n] > m \/ b[pos[n]] = 255
  BY DEF Framed
<1> HIDE DEF n, m
<1>21. list[0] = <<>>
  BY <1>1
<1>22. list[n] = [j \in 1 .. n |-> opt[j]]
  BY <1>1
<1>23. \A k \in 0 .. n : list[k] = [j \in 1 .. k |-> opt[j]]
  OBVIOUS
<1> HIDE DEF list
<1>5. \A k \in 0 .. n : R[k] = [at |-> pos[k], num |-> nums[k], options |-> list[k]]
  OBVIOUS
<1>24. \A k \in 0 .. n : R[k].at = pos[k] /\ R[k].num = nums[k] /\ R[k].options = list[k]
  OBVIOUS
<1>6. \A k \in 1 .. n : opt[k] = [num |-> nums[k], val |-> opts[k].val]
  OBVIOUS
<1>7. opt = [k \in 1 .. n |-> opt[k]]
  OBVIOUS
<1> HIDE DEF R, opt
<1>8. Step(R[n]) = R[n]
  <2>1. R[n].at = pos[n]
    BY <1>1, <1>24
  <2> QED
    BY <1>4, <2>1
<1>9. ASSUME NEW k \in 1 .. n PROVE Step(R[k - 1]) = R[k]
  <2> DEFINE r == R[k - 1]
             S == {opt[j] : j \in 1 .. n}
             less == [j \in 1 .. k - 1 |-> opt[j]]
             more == [j \in 1 .. k |-> opt[j]]
  <2>1. k - 1 \in 0 .. n /\ k \in 0 .. n
    BY <1>1
  <2>2. r.at = pos[k - 1] /\ r.num = nums[k - 1] /\ r.options = less
    BY <1>23, <1>24, <2>1
  <2>10. Stepped(b, pos, opts, k)
    BY <1>2
  <2> HIDE DEF r
  <2>3. r.at <= m /\ r.at \in Nat /\ b[r.at] # 255
    BY <2>2, <2>10 DEF Stepped, m
  <2>4. Step(r) = NextOption(b, r)
    BY <1>1, <2>3
  <2>5. NextOption(b, r) =
          [at |-> pos[k], num |-> r.num + opts[k].num,
           options |-> Append(r.options, [num |-> r.num + opts[k].num, val |-> opts[k].val])]
    BY <2>2, <2>10 DEF Stepped
  <2>6. r.num + opts[k].num = nums[k] /\ [num |-> nums[k], val |-> opts[k].val] = opt[k]
    <3>1. nums[k] = nums[k - 1] + opts[k].num /\ opt[k] = [num |-> nums[k], val |-> opts[k].val]
      BY <1>3, <1>6
    <3> QED
      BY <2>2, <3>1
  <2>7. Append(less, opt[k]) = more
    <3>1. less \in Seq(S) /\ Len(less) = k - 1 /\ opt[k] \in S
      BY <1>1, <2>1
    <3>2. more \in Seq(S) /\ Len(more) = k
      <4>1. \A j \in 1 .. k : j \in 1 .. n /\ opt[j] \in S
        BY <1>1
      <4>2. k \in Nat
        BY <1>1
      <4> HIDE DEF S
      <4> QED
        BY <4>1, <4>2
    <3>3. \A j \in 1 .. k - 1 : less[j] = opt[j]
      OBVIOUS
    <3>4. \A j \in 1 .. k : more[j] = opt[j]
      OBVIOUS
    <3> DEFINE app == Append(less, opt[k])
    <3> HIDE DEF less, more, S
    <3>5. app \in Seq(S) /\ Len(app) = k /\ (\A j \in 1 .. k - 1 : app[j] = less[j]) /\ app[k] = opt[k]
      BY <1>1, <3>1
    <3> HIDE DEF app
    <3>6. \A j \in 1 .. k : app[j] = more[j]
      BY <1>1, <3>3, <3>4, <3>5
    <3>7. app = more
      BY <3>2, <3>5, <3>6, SeqEqual
    <3> QED
      BY <3>7 DEF app
  <2>8. R[k] = [at |-> pos[k], num |-> nums[k], options |-> more]
    BY <1>5, <1>23, <2>1
  <2> HIDE DEF Step, less, more
  <2>11. Append(r.options, [num |-> r.num + opts[k].num, val |-> opts[k].val]) = more
    BY <2>2, <2>6, <2>7
  <2>9. Step(r) = R[k]
    BY <2>4, <2>5, <2>6, <2>8, <2>11
  <2> QED
    BY <2>9 DEF r
<1> HIDE DEF Step
<1>10. \A k \in 0 .. m : v[k] = R[IF k < n THEN k ELSE n]
  OBVIOUS
<1>11. v[0] = start /\ v[m] = R[n]
  <2>1. v[0] = R[0] /\ v[m] = R[n]
    BY <1>1, <1>10
  <2>2. R[0] = [at |-> pos[0], num |-> 0, options |-> <<>>]
    BY <1>1, <1>3, <1>5, <1>21
  <2> QED
    BY <2>1, <2>2
<1> DEFINE V == v
<1>12. V = [k \in 0 .. m |-> V[k]]
  OBVIOUS
<1> HIDE DEF v, start
<1>13. ASSUME NEW k \in 1 .. m PROVE v[k] = Step(v[k - 1])
  <2>1. k \in 0 .. m /\ k - 1 \in 0 .. m
    BY <1>1
  <2>2. CASE k <= n
    <3>1. v[k - 1] = R[k - 1] /\ v[k] = R[k] /\ k \in 1 .. n
      BY <1>1, <1>10, <2>1, <2>2
    <3> QED
      BY <1>9, <3>1
  <2>3. CASE k > n
    <3>1. v[k - 1] = R[n] /\ v[k] = R[n]
      BY <1>1, <1>10, <2>1, <2>3
    <3> QED
      BY <1>8, <3>1
  <2> QED
    BY <1>1, <2>2, <2>3
<1>14. Is(v)
  <2>1. ASSUME NEW k \in 0 .. m PROVE v[k] = IF k = 0 THEN start ELSE Step(v[k - 1])
    BY <1>1, <1>11, <1>13
  <2> QED
    BY <1>12, <2>1
<1> HIDE DEF Is
<1>15. Is(chosen)
  BY <1>14, Zenon
<1>16. ServerReads(b).options = chosen[m].options
       /\ ServerReads(b).payload = SubSeq(b, chosen[m].at + 1, m)
  BY DEF ServerReads, Step, m, start, Is
<1> HIDE DEF chosen
<1>17. chosen[0] = start /\ \A k \in 1 .. m : chosen[k] = Step(chosen[k - 1])
  BY <1>1, <1>15 DEF Is
<1> DEFINE P == [k \in 0 .. m |-> {v[k]}]
<1>18. \A k \in 0 .. m : chosen[k] \in P[k]
  <2>1. chosen[0] \in P[0]
    BY <1>1, <1>11, <1>17
  <2>2. ASSUME NEW k \in 1 .. m, chosen[k - 1] \in P[k - 1] PROVE chosen[k] \in P[k]
    <3>1. P[k] = {v[k]} /\ P[k - 1] = {v[k - 1]}
      BY <1>1
    <3> HIDE DEF P
    <3> QED
      BY <1>13, <1>17, <2>2, <3>1
  <2>3. m \in Nat
    BY <1>1
  <2> HIDE DEF P
  <2>4. Kept(chosen, P, m)
    BY <2>1, <2>2, <2>3 DEF Kept
  <2> QED
    BY <2>4, Stays
<1>19. chosen[m] = R[n]
  BY <1>1, <1>11, <1>18
<1>20. R[n].options = opt /\ R[n].at = pos[n]
  <2>1. R[n].options = list[n] /\ R[n].at = pos[n]
    BY <1>1, <1>24
  <2>2. list[n] = opt
    BY <1>7, <1>22, Zenon
  <2> QED
    BY <2>1, <2>2
<1> QED
  BY <1>16, <1>19, <1>20 DEF n, m, opt

-----------------------------------------------------------------------------
(* A message as bytes, and read back.                                      *)

(* What is before the options.                                             *)
Lead(type, code, id, token) == <<64 + 16 * type + Len(token), code>> \o TwoBytes(id) \o token

LEMMA TypeBits == \A t \in 0 .. 3 : (4 + t) % 4 = t
OBVIOUS

LeadOf(type, code, id, token) ==
  /\ type \in 0 .. 3 /\ code \in Nat /\ id \in Word /\ token \in Seq(Nat) /\ Len(token) \in 0 .. 8

BeginsWith(b, type, code, id, token) ==
  /\ b[1] % 16 = Len(token) /\ (b[1] \div 16) % 4 = type /\ b[2] = code
  /\ 256 * b[3] + b[4] = id /\ SubSeq(b, 5, 4 + Len(token)) = token

LEMMA LeadRead ==
  ASSUME NEW type, NEW code, NEW id, NEW token, LeadOf(type, code, id, token), NEW rest \in Seq(Nat)
  PROVE  LET front == Lead(type, code, id, token)
         IN  /\ front \in Seq(Nat) /\ Len(front) = 4 + Len(token)
             /\ BeginsWith(front \o rest, type, code, id, token)
<1> USE DEF LeadOf
<1> DEFINE len == Len(token)
           x == <<64 + 16 * type + len, code>>
           y == TwoBytes(id)
           xy == x \o y
           front == xy \o token
           b == front \o rest
           two == 2
           four == two + 2
           n == four + len
           m == n + Len(rest)
<1>1. Lead(type, code, id, token) = front
  BY DEF Lead
<1>2. len \in 0 .. 8 /\ len \in Nat /\ Len(token) = len /\ Len(rest) \in Nat
  OBVIOUS
<1>3. /\ y \in Seq(Nat) /\ Len(y) = 2 /\ y[1] \in Nat /\ y[2] \in Nat /\ 256 * y[1] + y[2] = id
  BY TwoBytesRead
<1> HIDE DEF y, len
<1>4. x \in Seq(Nat) /\ Len(x) = 2 /\ x[1] = 64 + 16 * type + len /\ x[2] = code
  BY <1>2
<1> HIDE DEF x
<1>5. Joint(Nat, xy, x, y, two, four)
  BY <1>3, <1>4, Joined DEF Ends
<1> HIDE DEF xy
<1>6. Joint(Nat, front, xy, token, four, n)
  <2>1. Ends(Nat, xy, token, four, n)
    BY <1>2, <1>5 DEF Ends, Joint
  <2> QED
    BY <2>1, Joined
<1> HIDE DEF front, n
<1>7. Joint(Nat, b, front, rest, n, m)
  <2>1. Ends(Nat, front, rest, n, m)
    BY <1>6 DEF Ends, Joint
  <2> QED
    BY <2>1, Joined
<1> HIDE DEF b, m
<1>8. two = 2 /\ four = 4 /\ n = 4 + len
  BY <1>2 DEF n
<1>9. ASSUME NEW i \in 1 .. 4 PROVE b[i] = xy[i]
  <2>1. i \in 1 .. n
    BY <1>2, <1>8
  <2>2. b[i] = front[i]
    BY <1>7, <2>1 DEF Joint
  <2>3. front[i] = xy[i]
    BY <1>6, <1>8 DEF Joint
  <2> QED
    BY <2>2, <2>3
<1>10. b[1] = x[1] /\ b[2] = x[2] /\ b[3] = y[1] /\ b[4] = y[2]
  <2>1. xy[1] = x[1] /\ xy[2] = x[2] /\ xy[3] = y[3 - 2] /\ xy[4] = y[4 - 2]
    BY <1>5, <1>8 DEF Joint
  <2> QED
    BY <1>9, <2>1
<1>11. ASSUME NEW i \in 1 .. len PROVE b[4 + i] = token[i]
  <2> DEFINE j == 4 + i
  <2>1. j \in 1 .. n /\ j \in four + 1 .. n /\ j - four = i
    BY <1>2, <1>8
  <2> HIDE DEF j
  <2>2. b[j] = front[j]
    BY <1>7, <2>1 DEF Joint
  <2>3. front[j] = token[j - four]
    BY <1>6, <2>1 DEF Joint
  <2> QED
    BY <2>1, <2>2, <2>3 DEF j
<1>12. SubSeq(b, 5, 4 + len) = token
  <2>1. b \in Seq(Nat) /\ Len(b) = m /\ n <= m /\ m \in Nat
    BY <1>2, <1>7, <1>8 DEF Joint, m
  <2>2. \A i \in 1 .. len : 5 + i - 1 = 4 + i
    BY <1>2
  <2>3. 5 + len <= Len(b) + 1 /\ 4 + len = 5 + len - 1
    BY <1>2, <1>8, <2>1
  <2>4. At(b, 5, token)
    BY <1>2, <1>11, <2>2, <2>3 DEF At
  <2> QED
    BY <1>2, <2>1, <2>3, <2>4, Cut
<1>13. b[1] % 16 = len /\ (b[1] \div 16) % 4 = type
  <2> DEFINE v == 64 + 16 * type + len
  <2>1. v % 16 = len /\ (v \div 16) % 4 = type
    <3>1. v = 16 * (4 + type) + len /\ 4 + type \in Nat
      BY <1>2
    <3>2. v % 16 = len /\ v \div 16 = 4 + type
      BY <1>2, <3>1
    <3> HIDE DEF v
    <3>3. (4 + type) % 4 = type
      BY TypeBits
    <3> QED
      BY <3>2, <3>3
  <2> HIDE DEF v
  <2> QED
    BY <1>4, <1>10, <2>1 DEF v
<1>14. front \in Seq(Nat) /\ Len(front) = 4 + len
  BY <1>6, <1>8 DEF Joint
<1>15. 256 * b[3] + b[4] = id /\ b[2] = code
  BY <1>3, <1>4, <1>10
<1>16. BeginsWith(b, type, code, id, token)
  BY <1>2, <1>12, <1>13, <1>15 DEF BeginsWith
<1> QED
  BY <1>1, <1>2, <1>14, <1>16 DEF b

(* The end of a message: the payload after its mark, if there is one.      *)
Marked(payload) == IF payload = <<>> THEN <<>> ELSE <<255>> \o payload
Datagram(front, opts, payload) == (front \o CoAPSerialize_Options(opts)) \o Marked(payload)

(* What the server makes of the bytes b.                                   *)
Understood(b, type, code, id, token, opts, payload) ==
  /\ b \in Seq(Nat)
  /\ \A nums : Absolute(nums, opts) =>
       ServerReads(b) =
         [type |-> type, code |-> code, msgid |-> id, token |-> token,
          options |-> [k \in 1 .. Len(opts) |-> [num |-> nums[k], val |-> opts[k].val]],
          payload |-> payload]

(* Client and server read a message as it was written.                     *)
LEMMA DatagramRead ==
  ASSUME NEW type, NEW code, NEW id, NEW token, LeadOf(type, code, id, token),
         NEW opts, Sendable(opts), NEW payload \in Seq(Nat)
  PROVE  LET b == Datagram(Lead(type, code, id, token), opts, payload)
         IN  /\ b \in Seq(Nat)
             /\ Len(b) = 4 + Len(token) + Len(CoAPSerialize_Options(opts)) + Len(Marked(payload))
             /\ CoAPDeserialize_Message(b) =
                  [type |-> type, code |-> code, msgid |-> id, token |-> token, payload |-> payload]
             /\ Understood(b, type, code, id, token, opts, payload)
             /\ ServerReads(b).msgid = id /\ ServerReads(b).token = token
<1> DEFINE front == Lead(type, code, id, token)
           o == CoAPSerialize_Options(opts)
           tail == Marked(payload)
           b == (front \o o) \o tail
           len == Len(token)
<1>1. tail \in Seq(Nat) /\ (payload = <<>> => tail = <<>>)
      /\ (payload # <<>> => tail = <<255>> \o payload)
  BY DEF Marked
<1>2. front \in Seq(Nat) /\ Len(front) = 4 + len
  BY LeadRead, <<>> \in Seq(Nat)
<1>3. len \in 0 .. 8 /\ len \in Nat /\ Len(token) = len
  BY DEF LeadOf
<1> HIDE DEF front, tail, len
<1>4. o \in Seq(Nat) /\ b \in Seq(Nat) /\ Len(b) = Len(front) + Len(o) + Len(tail)
  BY <1>1, <1>2, OptionsLaid
<1>5. PICK pos : Laid(b, pos, opts) /\ pos[0] = Len(front) + 1 /\ pos[Len(opts)] = Len(front) + 1 + Len(o)
  BY <1>1, <1>2, OptionsLaid
<1> DEFINE rest == o \o tail
           last == pos[Len(opts)]
<1> HIDE DEF o
<1>6. BeginsWith(b, type, code, id, token)
  <2>1. b = front \o rest
    <3>1. front \in Seq(Nat) /\ o \in Seq(Nat) /\ tail \in Seq(Nat)
      BY <1>1, <1>2, <1>4
    <3> QED
      BY <3>1, Regrouped
  <2>2. rest \in Seq(Nat)
    BY <1>1, <1>4
  <2> HIDE DEF b, rest
  <2> QED
    BY <2>1, <2>2, LeadRead DEF front
<1> HIDE DEF b
<1>7. /\ Len(front) \in Nat /\ Len(o) \in Nat /\ Len(tail) \in Nat /\ Len(b) \in Nat
      /\ last = Len(front) + 1 + Len(o) /\ last <= Len(b) + 1
  BY <1>1, <1>2, <1>4, <1>5
<1>8. (last > Len(b) \/ b[last] = 255) /\ SubSeq(b, last + 1, Len(b)) = payload
  <2>1. CASE payload = <<>>
    <3>1. Len(tail) = 0
      BY <1>1, <2>1
    <3>2. last = Len(b) + 1
      BY <1>4, <1>7, <3>1
    <3>3. SubSeq(b, last + 1, Len(b)) = <<>>
      BY <1>4, <1>7, <3>2
    <3> QED
      BY <1>7, <2>1, <3>2, <3>3
  <2>2. CASE payload # <<>>
    <3> DEFINE p == Len(payload)
               fo == front \o o
               nf == Len(front) + Len(o)
               nb == nf + Len(tail)
               sub == SubSeq(b, last + 1, Len(b))
    <3>1. tail = <<255>> \o payload /\ p \in Nat
      BY <1>1, <2>2
    <3>2. Len(tail) = 1 + p /\ tail[1] = 255 /\ \A i \in 1 .. p : tail[1 + i] = payload[i]
      BY <3>1
    <3>9. fo \in Seq(Nat) /\ Len(fo) = nf
      BY <1>2, <1>4, AtEnd
    <3> HIDE DEF fo, nf
    <3>3. Ends(Nat, fo, tail, nf, nb)
      BY <1>1, <3>9 DEF Ends
    <3> HIDE DEF nb, p
    <3>4. Joint(Nat, b, fo, tail, nf, nb)
      BY <3>3, Joined DEF b, fo
    <3>5. last = nf + 1 /\ nf \in Nat /\ nb = nf + 1 + p /\ Len(b) = nb
      <4>1. nf \in Nat /\ last = nf + 1 /\ Len(b) = nf + Len(tail)
        BY <1>4, <1>7 DEF nf
      <4>2. Len(tail) = 1 + p
        BY <3>2
      <4>3. p \in Nat
        BY <3>1
      <4> HIDE DEF last
      <4> QED
        BY <4>1, <4>2, <4>3 DEF nb
    <3> HIDE DEF last
    <3>6. b[last] = 255
      <4>1. last \in nf + 1 .. nb /\ last - nf = 1
        BY <3>1, <3>5
      <4> QED
        BY <3>2, <3>4, <4>1 DEF Joint
    <3>7. ASSUME NEW i \in 1 .. p PROVE b[last + i] = payload[i]
      <4>1. last + i \in nf + 1 .. nb /\ (last + i) - nf = 1 + i
        BY <3>1, <3>5
      <4>2. b[last + i] = tail[(last + i) - nf]
        BY <3>4, <4>1 DEF Joint
      <4> QED
        BY <3>2, <4>1, <4>2
    <3>8. sub = payload
      <4>1. last + 1 \in Nat \ {0} /\ (last + 1) + p <= Len(b) + 1 /\ Len(b) = (last + 1) + p - 1
        BY <3>1, <3>5
      <4>2. \A i \in 1 .. p : (last + 1) + i - 1 = last + i
        BY <3>1, <3>5
      <4>3. Len(payload) = p
        BY DEF p
      <4>4. At(b, last + 1, payload)
        BY <3>7, <4>1, <4>2, <4>3 DEF At
      <4> QED
        BY <1>4, <4>1, <4>3, <4>4, Cut
    <3> QED
      BY <3>6, <3>8
  <2> QED
    BY <2>1, <2>2
<1>14. Framed(b, pos, opts)
  BY <1>4, <1>5, <1>7, <1>8 DEF Framed
<1>9. pos[0] = 5 + (b[1] % 16) /\ pos[0] = 5 + len
  BY <1>2, <1>3, <1>5, <1>6 DEF BeginsWith
<1>10. CoAPDeserialize_Options(b, 5 + len) = last
  BY <1>9, <1>14, OptionsSkipped
<1>11. CoAPDeserialize_Message(b) =
         [type |-> type, code |-> code, msgid |-> id, token |-> token, payload |-> payload]
  BY <1>3, <1>6, <1>8, <1>10 DEF CoAPDeserialize_Message, BeginsWith
<1>12. /\ ServerReads(b).type = type /\ ServerReads(b).code = code /\ ServerReads(b).msgid = id
       /\ ServerReads(b).token = token
       /\ ServerReads(b) = [type |-> ServerReads(b).type, code |-> ServerReads(b).code,
                            msgid |-> ServerReads(b).msgid, token |-> ServerReads(b).token,
                            options |-> ServerReads(b).options, payload |-> ServerReads(b).payload]
  BY <1>3, <1>6 DEF ServerReads, BeginsWith
<1>13. ASSUME NEW nums, Absolute(nums, opts)
       PROVE  ServerReads(b) =
                    [type |-> type, code |-> code, msgid |-> id, token |-> token,
                     options |-> [k \in 1 .. Len(opts) |-> [num |-> nums[k], val |-> opts[k].val]],
                     payload |-> payload]
  <2>1. ServerReads(b).options = [k \in 1 .. Len(opts) |-> [num |-> nums[k], val |-> opts[k].val]]
        /\ ServerReads(b).payload = SubSeq(b, last + 1, Len(b))
    BY <1>9, <1>13, <1>14, OptionsRead
  <2> QED
    BY <1>8, <1>12, <2>1
<1>15. Understood(b, type, code, id, token, opts, payload)
  <2> HIDE DEF b
  <2> QED
    BY <1>4, <1>13, Zenon DEF Understood
<1> QED
  BY <1>2, <1>4, <1>11, <1>12, <1>15 DEF Datagram, b, front, o, tail, len

-----------------------------------------------------------------------------
(* What CoAPSerialize_MessageLength counts is what is written.             *)
LEMMA OptionCounted ==
  ASSUME NEW o \in OptionType, Len(o.val) \in Word
  PROVE  CoAPSerialize_OptionLen(o) = Len(Enc(o)) /\ Len(Enc(o)) \in Nat
<1> DEFINE len == Len(o.val)
<1>1. Len(Enc(o)) = 1 + Size(o.num) + Size(len) + len
  BY OptionParts
<1>2. CoAPSerialize_OptionLen(o) = 1 + Size(o.num) + Size(len) + len
  BY DEF CoAPSerialize_OptionLen, Size
<1>3. Size(o.num) \in Nat /\ Size(len) \in Nat /\ len \in Nat
  BY BytesAndWords DEF Size
<1> HIDE DEF len
<1> QED
  BY <1>1, <1>2, <1>3

LEMMA OptionsCounted ==
  ASSUME NEW opts, Sendable(opts)
  PROVE  CoAPSerialize_OptionsLen(opts) = Len(CoAPSerialize_Options(opts))
<1> DEFINE n == Len(opts)
           len == [k \in 1 .. n |-> CoAPSerialize_OptionLen(opts[k])]
           Is(h) == h = [k \in 0 .. n |-> IF k = 0 THEN 0
                                          ELSE h[k - 1] + CoAPSerialize_OptionLen(opts[k])]
           chosen == CHOOSE h : Is(h)
<1>1. n \in Nat
  BY DEF Sendable
<1>2. PICK f : Encoded(f, opts) /\ CoAPSerialize_Options(opts) = f[n]
  BY OptionsEncoded
<1> DEFINE v == [k \in 0 .. n |-> Len(f[k])]
<1>3. v[0] = 0
  <2>1. f[0] = <<>>
    BY <1>2 DEF Encoded
  <2> QED
    BY <1>1, <2>1
<1>4. ASSUME NEW k \in 1 .. n
      PROVE  v[k] = v[k - 1] + CoAPSerialize_OptionLen(opts[k])
  <2>1. k \in 0 .. n /\ k - 1 \in 0 .. n
    BY <1>1
  <2>2. Enc(opts[k]) \in Seq(Nat) /\ CoAPSerialize_OptionLen(opts[k]) = Len(Enc(opts[k]))
    BY EncIsBytes, OptionCounted
  <2>3. f[k - 1] \in Seq(Nat) /\ f[k] = f[k - 1] \o Enc(opts[k])
    BY <1>2, <2>1 DEF Encoded
  <2>4. Len(f[k]) = Len(f[k - 1]) + Len(Enc(opts[k]))
    BY <2>2, <2>3, AtEnd
  <2>5. v[k] = Len(f[k]) /\ v[k - 1] = Len(f[k - 1])
    BY <2>1
  <2> HIDE DEF v
  <2> QED
    BY <2>2, <2>4, <2>5
<1> DEFINE V == v
<1>5. V = [k \in 0 .. n |-> V[k]]
  OBVIOUS
<1>6. v[n] = Len(CoAPSerialize_Options(opts))
  BY <1>1, <1>2
<1> HIDE DEF v
<1>7. Is(v)
  <2>1. ASSUME NEW k \in 0 .. n
        PROVE  v[k] = IF k = 0 THEN 0 ELSE v[k - 1] + CoAPSerialize_OptionLen(opts[k])
    BY <1>1, <1>3, <1>4
  <2> QED
    BY <1>5, <2>1
<1> HIDE DEF Is
<1>8. Is(chosen)
  BY <1>7, Zenon
<1>9. CoAPSerialize_OptionsLen(opts) = chosen[n]
  BY DEF CoAPSerialize_OptionsLen, Is
<1> HIDE DEF chosen, n
<1>10. chosen[0] = 0 /\ \A k \in 1 .. n : chosen[k] = chosen[k - 1] + CoAPSerialize_OptionLen(opts[k])
  BY <1>1, <1>8 DEF Is
<1> DEFINE P == [k \in 0 .. n |-> {v[k]}]
<1>11. \A k \in 0 .. n : chosen[k] \in P[k]
  <2>1. chosen[0] \in P[0]
    BY <1>1, <1>3, <1>10
  <2>2. ASSUME NEW k \in 1 .. n, chosen[k - 1] \in P[k - 1] PROVE chosen[k] \in P[k]
    <3>1. P[k] = {v[k]} /\ P[k - 1] = {v[k - 1]}
      BY <1>1
    <3> HIDE DEF P
    <3> QED
      BY <1>4, <1>10, <2>2, <3>1
  <2> HIDE DEF P
  <2>9. Kept(chosen, P, n)
    BY <1>1, <2>1, <2>2 DEF Kept
  <2> QED
    BY <2>9, Stays
<1>12. chosen[n] = v[n]
  BY <1>1, <1>11
<1> QED
  BY <1>6, <1>9, <1>12

-----------------------------------------------------------------------------
(* The parts of a text are texts no longer than it.                        *)
LEMMA PiecesTyped ==
  ASSUME NEW s \in Seq(Byte), NEW separator
  PROVE  /\ Pieces(s, separator) \in Seq(Seq(Byte))
         /\ \A k \in 1 .. Len(Pieces(s, separator)) : Len(Pieces(s, separator)[k]) <= Len(s)
<1> DEFINE n == Len(s)
           Part(k) == {t \in Seq(Byte) : Len(t) <= k}
           short == Part(n)
           W(k) == [parts : Seq(short), part : Part(k)]
           start == [parts |-> <<>>, part |-> <<>>]
           Turn(k, w) == IF s[k] = separator THEN [parts |-> Closed(w), part |-> <<>>]
                         ELSE [w EXCEPT !.part = Append(@, s[k])]
           Is(h) == h = [k \in 0 .. n |-> IF k = 0 THEN start ELSE Turn(k, h[k - 1])]
           chosen == CHOOSE h : Is(h)
<1>1. n \in Nat /\ \A k \in 1 .. n : s[k] \in Byte
  OBVIOUS
<1> HIDE DEF n
<1>2. ASSUME NEW k \in 0 .. n PROVE Part(k) \subseteq short
  BY <1>1
<1>3. \A k \in 0 .. n : <<>> \in Part(k)
  BY <1>1
<1>4. ASSUME NEW t \in short PROVE t \in Seq(Byte) /\ Len(t) <= n
  OBVIOUS
<1>5. ASSUME NEW k \in 0 .. n, NEW w \in W(k) PROVE Closed(w) \in Seq(short)
  <2>1. w.parts \in Seq(short) /\ w.part \in short
    BY <1>2
  <2> HIDE DEF short
  <2> QED
    BY <2>1 DEF Closed
<1>6. ASSUME NEW k \in 1 .. n, NEW w \in W(k - 1) PROVE Turn(k, w) \in W(k)
  <2>1. k - 1 \in 0 .. n /\ k \in 0 .. n
    BY <1>1
  <2>2. CASE s[k] = separator
    <3>1. Closed(w) \in Seq(short) /\ <<>> \in Part(k)
      BY <1>3, <1>5, <2>1
    <3> HIDE DEF short, Part
    <3> QED
      BY <2>2, <3>1
  <2>3. CASE s[k] # separator
    <3>1. w.parts \in Seq(short) /\ w.part \in Seq(Byte) /\ Len(w.part) <= k - 1 /\ s[k] \in Byte
      BY <1>1
    <3>2. Append(w.part, s[k]) \in Part(k)
      <4> HIDE DEF short
      <4> QED
        BY <2>1, <3>1
    <3>3. Turn(k, w) = [parts |-> w.parts, part |-> Append(w.part, s[k])]
      <4> HIDE DEF short, Part
      <4> QED
        BY <2>3
    <3> HIDE DEF short, Part, Turn
    <3> QED
      BY <3>1, <3>2, <3>3
  <2> QED
    BY <2>2, <2>3
<1>7. start \in W(0)
  <2>1. <<>> \in Part(0) /\ <<>> \in Seq(short)
    BY <1>1, <1>3
  <2> HIDE DEF Part, short
  <2> QED
    BY <2>1
<1> HIDE DEF Turn, start
<1> DEFINE Any == UNION {W(k) : k \in 0 .. n}
           g == [x \in (1 .. n) \X Any |-> Turn(x[1], x[2])]
           P == [k \in 0 .. n |-> W(k)]
<1>8. \A k \in 0 .. n : W(k) \subseteq Any
  OBVIOUS
<1>9. \A k \in 0 .. n : P[k] = W(k)
  OBVIOUS
<1> HIDE DEF Any, W
<1>10. \A k \in 1 .. n, y \in Any : g[<<k, y>>] = Turn(k, y)
  OBVIOUS
<1> HIDE DEF g, P
<1>11. PICK f : Loop(f, n, start, g)
  BY <1>1, LoopExists
<1>12. f = [k \in 0 .. n |-> IF k = 0 THEN start ELSE g[<<k, f[k - 1]>>]]
  BY <1>11 DEF Loop
<1>13. \A k \in 0 .. n : f[k] \in P[k]
  <2>1. f[0] \in P[0]
    <3>1. f[0] = start /\ P[0] = W(0)
      BY <1>1, <1>9, <1>12
    <3> QED
      BY <1>7, <3>1
  <2>2. ASSUME NEW k \in 1 .. n, f[k - 1] \in P[k - 1] PROVE f[k] \in P[k]
    <3>1. k \in 0 .. n /\ k - 1 \in 0 .. n /\ k # 0
      BY <1>1
    <3>2. f[k - 1] \in W(k - 1) /\ f[k - 1] \in Any /\ P[k] = W(k)
      BY <1>8, <1>9, <2>2, <3>1
    <3>3. f[k] = g[<<k, f[k - 1]>>]
      BY <1>12, <3>1
    <3>4. f[k] = Turn(k, f[k - 1])
      BY <1>10, <3>2, <3>3
    <3> QED
      BY <1>6, <3>2, <3>4
  <2>9. Kept(f, P, n)
    BY <1>1, <2>1, <2>2 DEF Kept
  <2> QED
    BY <2>9, Stays
<1>14. Is(f)
  <2>1. ASSUME NEW k \in 0 .. n, k # 0 PROVE g[<<k, f[k - 1]>>] = Turn(k, f[k - 1])
    <3>1. k \in 1 .. n /\ k - 1 \in 0 .. n
      BY <1>1, <2>1
    <3>2. f[k - 1] \in Any
      BY <1>8, <1>9, <1>13, <3>1
    <3> QED
      BY <1>10, <3>1, <3>2
  <2> QED
    BY <1>12, <2>1
<1> HIDE DEF Is
<1>15. Is(chosen)
  BY <1>14, Zenon
<1>16. Pieces(s, separator) = Closed(chosen[n])
  BY DEF Pieces, Is, Turn, start, n
<1> HIDE DEF chosen
<1>17. chosen[0] = start /\ \A k \in 1 .. n : chosen[k] = Turn(k, chosen[k - 1])
  BY <1>1, <1>15 DEF Is
<1>18. \A k \in 0 .. n : chosen[k] \in P[k]
  <2>1. chosen[0] \in P[0]
    BY <1>1, <1>7, <1>9, <1>17
  <2>2. ASSUME NEW k \in 1 .. n, chosen[k - 1] \in P[k - 1] PROVE chosen[k] \in P[k]
    <3>1. k \in 0 .. n /\ k - 1 \in 0 .. n
      BY <1>1
    <3>2. chosen[k - 1] \in W(k - 1) /\ P[k] = W(k)
      BY <1>9, <2>2, <3>1
    <3>3. chosen[k] = Turn(k, chosen[k - 1])
      BY <1>17
    <3> QED
      BY <1>6, <3>2, <3>3
  <2>9. Kept(chosen, P, n)
    BY <1>1, <2>1, <2>2 DEF Kept
  <2> QED
    BY <2>9, Stays
<1>19. chosen[n] \in W(n) /\ n \in 0 .. n
  BY <1>1, <1>9, <1>18
<1>20. Closed(chosen[n]) \in Seq(short)
  BY <1>5, <1>19
<1> DEFINE all == Pieces(s, separator)
<1>21. all \in Seq(short)
  BY <1>16, <1>20
<1> HIDE DEF all
<1>22. short \subseteq Seq(Byte)
  BY <1>4
<1>23. ASSUME NEW k \in 1 .. Len(all) PROVE Len(all[k]) <= n
  <2>1. all[k] \in short
    <3> HIDE DEF short
    <3> QED
      BY <1>21
  <2> QED
    BY <1>4, <2>1
<1> HIDE DEF short
<1>24. all \in Seq(Seq(Byte))
  BY <1>21, <1>22, SeqOfMore
<1> QED
  BY <1>23, <1>24 DEF all, n

-----------------------------------------------------------------------------
(* The requests of the communication interface are bytes, cut to 127.      *)
Text(s) == s \in Seq(Byte) /\ Len(s) <= 127

LEMMA TextsAreBytes ==
  /\ DeviceId \in Seq(Byte) /\ Password \in Seq(Byte) /\ DeviceInfo \in Seq(Byte)
  /\ \A t \in AuthTokens \cup CloudData : t \in Seq(Byte)
<1>1. {DeviceId, Password, DeviceInfo} \cup AuthTokens \cup CloudData \subseteq Seq(Byte)
  BY CoapWireAssumption
<1> QED
  BY <1>1, Zenon

LEMMA PrintedIsText ==
  ASSUME NEW s \in Seq(Byte)
  PROVE  Text(Printed(s))
<1>1. CASE Len(s) > 127
  <2> DEFINE sub == SubSeq(s, 1, 127)
  <2>1. sub \in Seq(Byte) /\ Len(sub) = 127
    <3>1. \A i \in 1 .. 127 : s[i] \in Byte
      BY <1>1
    <3> QED
      BY <3>1, SubSeqProperties
  <2> QED
    BY <1>1, <2>1 DEF Printed, Text
<1>2. CASE ~(Len(s) > 127)
  BY <1>2 DEF Printed, Text
<1> QED
  BY <1>1, <1>2

LEMMA Joinable ==
  ASSUME NEW s \in Seq(Byte), NEW t \in Seq(Byte)
  PROVE  s \o t \in Seq(Byte)
OBVIOUS

LEMMA UriIsText ==
  ASSUME NEW tail \in Seq(Byte)
  PROVE  Text(DeviceUri(tail))
<1> DEFINE a == <<47, 118, 50, 47, 100, 101, 118, 105, 99, 101, 47>>
           c == <<47>>
<1>1. a \in Seq(Byte) /\ c \in Seq(Byte)
  BY DEF Byte
<1>2. DeviceUri(tail) = Printed(((a \o DeviceId) \o c) \o tail)
  BY DEF DeviceUri
<1> HIDE DEF a, c
<1>3. ((a \o DeviceId) \o c) \o tail \in Seq(Byte)
  BY <1>1, TextsAreBytes, Joinable
<1> QED
  BY <1>2, <1>3, PrintedIsText

LEMMA QueryIsText ==
  ASSUME NEW name \in Seq(Byte), NEW value \in Seq(Byte)
  PROVE  Text(Query(name, value))
<1> DEFINE a == <<38>>
           c == <<61>>
<1>1. a \in Seq(Byte) /\ c \in Seq(Byte)
  BY DEF Byte
<1>2. Query(name, value) = Printed(((a \o name) \o c) \o value)
  BY DEF Query
<1> HIDE DEF a, c
<1>3. ((a \o name) \o c) \o value \in Seq(Byte)
  BY <1>1, Joinable
<1> QED
  BY <1>2, <1>3, PrintedIsText

RequestTyped(r) ==
  /\ r.observe \in BOOLEAN /\ r.code \in {GET, POST}
  /\ Text(r.uri) /\ Text(r.query) /\ r.payload \in Seq(Byte)

LEMMA RequestsTyped ==
  ASSUME NEW r \in CoapRequests
  PROVE  RequestTyped(r)
<1>1. /\ Text(DeviceUri(<<97, 117, 116, 104>>)) /\ Text(DeviceUri(<<105, 110, 102, 111>>))
      /\ Text(DeviceUri(<<97, 99, 116, 105, 111, 110>>)) /\ Text(DeviceUri(<<116, 120>>))
      /\ Text(DeviceUri(<<112, 105, 110, 103>>)) /\ Text(DeviceUri(<<114, 101, 112, 108, 121>>))
      /\ Text(DeviceUri(<<114, 120>>))
  <2>1. /\ <<97, 117, 116, 104>> \in Seq(Byte) /\ <<105, 110, 102, 111>> \in Seq(Byte)
        /\ <<97, 99, 116, 105, 111, 110>> \in Seq(Byte) /\ <<116, 120>> \in Seq(Byte)
    BY DEF Byte
  <2>2. /\ <<112, 105, 110, 103>> \in Seq(Byte) /\ <<114, 101, 112, 108, 121>> \in Seq(Byte)
        /\ <<114, 120>> \in Seq(Byte)
    BY DEF Byte
  <2> QED
    BY <2>1, <2>2, UriIsText
<1>2. Text(Query(<<112>>, Password))
  <2>1. <<112>> \in Seq(Byte)
    BY DEF Byte
  <2> QED
    BY <2>1, QueryIsText, TextsAreBytes
<1>3. \A t \in AuthTokens : Text(ByToken(t))
  <2>1. <<115, 114, 116>> \in Seq(Byte)
    BY DEF Byte
  <2> QED
    BY <2>1, QueryIsText, TextsAreBytes DEF ByToken
<1>4. RequestTyped(send_device_auth)
  BY <1>1, <1>2 DEF RequestTyped, send_device_auth
<1>5. ASSUME NEW t \in AuthTokens
      PROVE  /\ RequestTyped(send_mata_info(t)) /\ RequestTyped(sub_action_topic(t))
             /\ RequestTyped(sub_data_topic(t)) /\ RequestTyped(connect_heartbeat(t))
  <2>1. RequestTyped(send_mata_info(t))
    BY <1>1, <1>3, TextsAreBytes DEF RequestTyped, send_mata_info
  <2>2. RequestTyped(sub_action_topic(t))
    BY <1>1, <1>3 DEF RequestTyped, sub_action_topic
  <2>3. RequestTyped(sub_data_topic(t))
    BY <1>1, <1>3 DEF RequestTyped, sub_data_topic
  <2>4. RequestTyped(connect_heartbeat(t))
    BY <1>1, <1>3 DEF RequestTyped, connect_heartbeat
  <2> QED
    BY <2>1, <2>2, <2>3, <2>4
<1>6. ASSUME NEW reply \in BOOLEAN, NEW d \in CloudData, NEW t \in AuthTokens
      PROVE  RequestTyped(iotx_comm_send(reply, d, t))
  BY <1>1, <1>3, TextsAreBytes DEF RequestTyped, iotx_comm_send
<1>7. \/ r = send_device_auth
      \/ \E t \in AuthTokens : \/ r = send_mata_info(t) \/ r = sub_action_topic(t)
                               \/ r = sub_data_topic(t) \/ r = connect_heartbeat(t)
      \/ \E reply \in BOOLEAN, d \in CloudData, t \in AuthTokens : r = iotx_comm_send(reply, d, t)
  <2> DEFINE byToken(t) == {send_mata_info(t), sub_action_topic(t), sub_data_topic(t),
                             connect_heartbeat(t)}
             some == UNION {byToken(t) : t \in AuthTokens}
             sent == {iotx_comm_send(q, d, t) : q \in BOOLEAN, d \in CloudData, t \in AuthTokens}
  <2>1. CoapRequests = {send_device_auth} \cup some \cup sent
    BY DEF CoapRequests
  <2>2. ASSUME r \in some
        PROVE  \E t \in AuthTokens : \/ r = send_mata_info(t) \/ r = sub_action_topic(t)
                                     \/ r = sub_data_topic(t) \/ r = connect_heartbeat(t)
    <3>1. PICK t \in AuthTokens : r \in byToken(t)
      <4> HIDE DEF byToken
      <4> QED
        BY <2>2
    <3> QED
      BY <3>1
  <2>3. ASSUME r \in sent
        PROVE  \E reply \in BOOLEAN, d \in CloudData, t \in AuthTokens : r = iotx_comm_send(reply, d, t)
    BY <2>3
  <2> HIDE DEF some, sent
  <2>4. r = send_device_auth \/ r \in some \/ r \in sent
    BY <2>1
  <2> QED
    BY <2>2, <2>3, <2>4
<1> QED
  BY <1>4, <1>5, <1>6, <1>7

-----------------------------------------------------------------------------
(* The options of a request.  Their numbers never fall, so each distance   *)
(* can be written.                                                         *)
Rising(s, lo, hi) ==
  /\ s \in Seq(OptionType)
  /\ \A k \in 1 .. Len(s) : s[k].num \in lo .. hi /\ Len(s[k].val) \in Word
  /\ \A k \in 2 .. Len(s) : s[k - 1].num <= s[k].num

LEMMA OneRises ==
  ASSUME NEW num \in Word, NEW val \in Seq(Byte), Len(val) \in Word
  PROVE  Rising(<<[num |-> num, val |-> val]>>, num, num)
<1> DEFINE o == [num |-> num, val |-> val]
<1>1. o \in OptionType /\ o.num = num /\ o.val = val /\ num \in Nat
  BY BytesAndWords DEF OptionType
<1> HIDE DEF o
<1> QED
  BY <1>1 DEF Rising, o

LEMMA StrOptionsRise ==
  ASSUME NEW num \in Word, NEW s, Text(s), NEW separator
  PROVE  LET parts == Pieces(s, separator)
             options == StrOptions(num, s, separator)
         IN  /\ Rising(options, num, num) /\ Len(options) = Len(parts)
             /\ options = [k \in DOMAIN parts |-> [num |-> num, val |-> parts[k]]]
<1> DEFINE parts == Pieces(s, separator)
           options == StrOptions(num, s, separator)
           n == Len(parts)
           o == [k \in 1 .. n |-> [num |-> num, val |-> parts[k]]]
<1>1. s \in Seq(Byte) /\ Len(s) <= 127 /\ Len(s) \in Nat
  BY DEF Text
<1>2. parts \in Seq(Seq(Byte)) /\ \A k \in 1 .. n : Len(parts[k]) <= Len(s)
  BY <1>1, PiecesTyped
<1> HIDE DEF parts
<1>3. n \in Nat /\ DOMAIN parts = 1 .. n
  BY <1>2
<1>4. options = [k \in DOMAIN parts |-> [num |-> num, val |-> parts[k]]]
  <2>1. ~(Len(s) > 135)
    BY <1>1
  <2> QED
    BY <2>1 DEF StrOptions, parts
<1>5. options = o
  BY <1>3, <1>4
<1> HIDE DEF options, n
<1>6. ASSUME NEW k \in 1 .. n
      PROVE  o[k] \in OptionType /\ o[k].num = num /\ Len(o[k].val) \in Word
  <2>1. parts[k] \in Seq(Byte) /\ Len(parts[k]) <= 127 /\ Len(parts[k]) \in Nat
    <3>1. parts[k] \in Seq(Byte)
      BY <1>2, <1>3
    <3> HIDE DEF parts
    <3>2. Len(parts[k]) <= Len(s) /\ Len(parts[k]) \in Nat
      BY <1>2, <3>1
    <3> QED
      BY <1>1, <3>1, <3>2
  <2>2. Len(parts[k]) \in Word
    <3> DEFINE z == Len(parts[k])
    <3>1. z \in Nat /\ z <= 127
      BY <2>1
    <3> HIDE DEF z
    <3>2. z \in Word
      BY <3>1, WordBounds
    <3> QED
      BY <3>2 DEF z
  <2>3. o[k] = [num |-> num, val |-> parts[k]]
    OBVIOUS
  <2> HIDE DEF o
  <2> QED
    BY <2>1, <2>2, <2>3 DEF OptionType
<1>7. o \in Seq(OptionType) /\ Len(o) = n
  <2>1. \A k \in 1 .. n : o[k] \in OptionType
    BY <1>6
  <2> QED
    BY <1>3, <2>1
<1>8. num \in Nat
  BY BytesAndWords
<1> HIDE DEF o
<1>9. Rising(o, num, num)
  <2>1. \A k \in 1 .. Len(o) : o[k].num \in num .. num /\ Len(o[k].val) \in Word
    BY <1>6, <1>7, <1>8
  <2>2. ASSUME NEW k \in 2 .. Len(o) PROVE o[k - 1].num <= o[k].num
    <3>1. k - 1 \in 1 .. n /\ k \in 1 .. n
      BY <1>3, <1>7
    <3> QED
      BY <1>6, <1>8, <3>1
  <2> QED
    BY <1>7, <2>1, <2>2 DEF Rising
<1> QED
  BY <1>4, <1>5, <1>7, <1>9 DEF options, parts, n

Follows(s, t, lo, mid, above, hi) ==
  /\ {lo, mid, above, hi} \subseteq Nat /\ lo <= mid /\ mid <= above /\ above <= hi
  /\ Rising(s, lo, mid) /\ Rising(t, above, hi)

LEMMA RisingJoined ==
  ASSUME NEW s, NEW t, NEW lo, NEW mid, NEW above, NEW hi, Follows(s, t, lo, mid, above, hi)
  PROVE  Rising(s \o t, lo, hi) /\ Len(s \o t) = Len(s) + Len(t)
<1>0. /\ lo \in Nat /\ mid \in Nat /\ above \in Nat /\ hi \in Nat /\ lo <= mid /\ mid <= above /\ above <= hi
      /\ Rising(s, lo, mid) /\ Rising(t, above, hi)
  BY DEF Follows
<1> DEFINE c == s \o t
           n == Len(s)
           m == n + Len(t)
<1>1. s \in Seq(OptionType) /\ t \in Seq(OptionType)
  BY <1>0 DEF Rising
<1>2. Joint(OptionType, c, s, t, n, m)
  BY <1>1, Joined DEF Ends
<1>3. n \in Nat /\ Len(t) \in Nat
  BY <1>1
<1>4. /\ \A k \in 1 .. n : s[k].num \in lo .. mid /\ Len(s[k].val) \in Word
      /\ \A k \in 2 .. n : s[k - 1].num <= s[k].num
      /\ \A k \in 1 .. Len(t) : t[k].num \in above .. hi /\ Len(t[k].val) \in Word
      /\ \A k \in 2 .. Len(t) : t[k - 1].num <= t[k].num
  BY <1>0 DEF Rising
<1> HIDE DEF c
<1>5. c \in Seq(OptionType) /\ Len(c) = m
      /\ (\A k \in 1 .. n : c[k] = s[k]) /\ \A k \in n + 1 .. m : c[k] = t[k - n]
  BY <1>2 DEF Joint
<1> HIDE DEF n
<1>6. ASSUME NEW k \in 1 .. m PROVE c[k].num \in lo .. hi /\ Len(c[k].val) \in Word
  <2>1. CASE k <= n
    <3>1. k \in 1 .. n
      BY <1>3, <2>1
    <3>2. c[k] = s[k] /\ s[k].num \in lo .. mid /\ Len(s[k].val) \in Word
      BY <1>4, <1>5, <3>1
    <3> QED
      BY <1>0, <3>2
  <2>2. CASE k > n
    <3>1. k \in n + 1 .. m /\ k - n \in 1 .. Len(t)
      BY <1>3, <2>2
    <3>2. c[k] = t[k - n] /\ t[k - n].num \in above .. hi /\ Len(t[k - n].val) \in Word
      BY <1>4, <1>5, <3>1
    <3> QED
      BY <1>0, <3>2
  <2> QED
    BY <1>3, <2>1, <2>2
<1>7. ASSUME NEW k \in 2 .. m PROVE c[k - 1].num <= c[k].num
  <2>1. CASE k <= n
    <3>1. k \in 1 .. n /\ k - 1 \in 1 .. n /\ k \in 2 .. n
      BY <1>3, <2>1
    <3> QED
      BY <1>4, <1>5, <3>1
  <2>2. CASE k = n + 1
    <3>1. k - 1 \in 1 .. n /\ k \in n + 1 .. m /\ k - n \in 1 .. Len(t)
      BY <1>3, <2>2
    <3>2. c[k - 1].num \in lo .. mid /\ c[k].num \in above .. hi
      BY <1>4, <1>5, <3>1
    <3> QED
      BY <1>0, <3>2
  <2>3. CASE k > n + 1
    <3>1. k - 1 \in n + 1 .. m /\ k \in n + 1 .. m /\ k - n \in 2 .. Len(t) /\ (k - 1) - n = (k - n) - 1
      BY <1>3, <2>3
    <3>2. c[k - 1] = t[(k - n) - 1] /\ c[k] = t[k - n]
      BY <1>5, <3>1
    <3> QED
      BY <1>4, <3>1, <3>2
  <2> QED
    BY <1>3, <2>1, <2>2, <2>3
<1>8. Rising(c, lo, hi)
  BY <1>5, <1>6, <1>7 DEF Rising
<1> QED
  BY <1>5, <1>8 DEF c, n

(* What the communication interface asked for, as options.                 *)
Wanted(r) ==
  (IF r.observe THEN <<[num |-> OBSERVE, val |-> <<>>]>> ELSE <<>>)
    \o [k \in DOMAIN Pieces(r.uri, 47) |-> [num |-> URI_PATH, val |-> Pieces(r.uri, 47)[k]]]
    \o <<[num |-> CONTENT_FORMAT, val |-> <<50>>]>>
    \o [k \in DOMAIN Pieces(r.query, 38) |-> [num |-> URI_QUERY, val |-> Pieces(r.query, 38)[k]]]
    \o <<[num |-> ACCEPT, val |-> <<42>>]>>

LEMMA WantedRises ==
  ASSUME NEW r \in CoapRequests
  PROVE  /\ Rising(Wanted(r), 6, 17)
         /\ Len(Wanted(r)) <= Len(Pieces(r.uri, 47)) + Len(Pieces(r.query, 38)) + 3
         /\ Wanted(r) =
              ((IF r.observe THEN UintOption(OBSERVE, 0) ELSE <<>>) \o StrOptions(URI_PATH, r.uri, 47))
                \o ((UintOption(CONTENT_FORMAT, 50) \o StrOptions(URI_QUERY, r.query, 38))
                      \o UintOption(ACCEPT, 42))
<1> DEFINE o == IF r.observe THEN UintOption(OBSERVE, 0) ELSE <<>>
           path == StrOptions(URI_PATH, r.uri, 47)
           format == UintOption(CONTENT_FORMAT, 50)
           query == StrOptions(URI_QUERY, r.query, 38)
           accept == UintOption(ACCEPT, 42)
           up == Len(Pieces(r.uri, 47))
           uq == Len(Pieces(r.query, 38))
<1>1. RequestTyped(r)
  BY RequestsTyped
<1>2. 6 \in Word /\ 11 \in Word /\ 12 \in Word /\ 15 \in Word /\ 17 \in Word /\ 0 \in Word /\ 1 \in Word
  BY WordBounds
<1>3. Rising(path, 11, 11) /\ Len(path) = up
      /\ path = [k \in DOMAIN Pieces(r.uri, 47) |-> [num |-> URI_PATH, val |-> Pieces(r.uri, 47)[k]]]
  BY <1>1, <1>2, StrOptionsRise DEF RequestTyped, URI_PATH
<1>4. Rising(query, 15, 15) /\ Len(query) = uq
      /\ query = [k \in DOMAIN Pieces(r.query, 38) |-> [num |-> URI_QUERY, val |-> Pieces(r.query, 38)[k]]]
  BY <1>1, <1>2, StrOptionsRise DEF RequestTyped, URI_QUERY
<1>5. format = <<[num |-> CONTENT_FORMAT, val |-> <<50>>]>> /\ accept = <<[num |-> ACCEPT, val |-> <<42>>]>>
  BY DEF UintOption
<1>6. o = IF r.observe THEN <<[num |-> OBSERVE, val |-> <<>>]>> ELSE <<>>
  BY DEF UintOption
<1>7. /\ <<50>> \in Seq(Byte) /\ Len(<<50>>) = 1 /\ <<42>> \in Seq(Byte) /\ Len(<<42>>) = 1
      /\ <<>> \in Seq(Byte) /\ Len(<<>>) = 0
  BY DEF Byte
<1> HIDE DEF path, query, format, accept, o
<1>8. Rising(format, 12, 12) /\ Len(format) = 1
  <2>1. Rising(<<[num |-> 12, val |-> <<50>>]>>, 12, 12)
    <3> DEFINE x == <<50>>
    <3>1. x \in Seq(Byte) /\ Len(x) \in Word
      BY <1>2, <1>7
    <3> HIDE DEF x
    <3>2. Rising(<<[num |-> 12, val |-> x]>>, 12, 12)
      BY <1>2, <3>1, OneRises
    <3> QED
      BY <3>2 DEF x
  <2> QED
    BY <1>5, <2>1 DEF CONTENT_FORMAT
<1>9. Rising(accept, 17, 17) /\ Len(accept) = 1
  <2>1. Rising(<<[num |-> 17, val |-> <<42>>]>>, 17, 17)
    <3> DEFINE x == <<42>>
    <3>1. x \in Seq(Byte) /\ Len(x) \in Word
      BY <1>2, <1>7
    <3> HIDE DEF x
    <3>2. Rising(<<[num |-> 17, val |-> x]>>, 17, 17)
      BY <1>2, <3>1, OneRises
    <3> QED
      BY <3>2 DEF x
  <2> QED
    BY <1>5, <2>1 DEF ACCEPT
<1>10. Rising(o, 6, 6) /\ Len(o) \in Nat /\ Len(o) <= 1
  <2>1. CASE r.observe
    <3> DEFINE x == <<>>
    <3>1. x \in Seq(Byte) /\ Len(x) \in Word
      BY <1>2, <1>7
    <3> HIDE DEF x
    <3>2. Rising(<<[num |-> 6, val |-> x]>>, 6, 6)
      BY <1>2, <3>1, OneRises
    <3>3. o = <<[num |-> 6, val |-> x]>>
      BY <1>6, <2>1 DEF x, OBSERVE
    <3> QED
      BY <3>2, <3>3
  <2>2. CASE ~r.observe
    <3>1. o = <<>>
      BY <1>6, <2>2
    <3>2. Rising(<<>>, 6, 6)
      BY DEF Rising
    <3> QED
      BY <3>1, <3>2
  <2> QED
    BY <2>1, <2>2
<1> DEFINE front == o \o path
           fq == format \o query
           back == fq \o accept
           all == front \o back
<1>11. Rising(front, 6, 11) /\ Len(front) = Len(o) + Len(path)
  <2>1. Follows(o, path, 6, 6, 11, 11)
    BY <1>3, <1>10 DEF Follows
  <2> QED
    BY <2>1, RisingJoined
<1>12. Rising(fq, 12, 15) /\ Len(fq) = Len(format) + Len(query)
  <2>1. Follows(format, query, 12, 12, 15, 15)
    BY <1>4, <1>8 DEF Follows
  <2> QED
    BY <2>1, RisingJoined
<1> HIDE DEF fq
<1>13. Rising(back, 12, 17) /\ Len(back) = Len(fq) + Len(accept)
  <2>1. Follows(fq, accept, 12, 15, 17, 17)
    BY <1>9, <1>12 DEF Follows
  <2> QED
    BY <2>1, RisingJoined
<1> HIDE DEF front, back
<1>14. Rising(all, 6, 17) /\ Len(all) = Len(front) + Len(back)
  <2>1. Follows(front, back, 6, 11, 12, 17)
    BY <1>11, <1>13 DEF Follows
  <2> QED
    BY <2>1, RisingJoined
<1>15. up \in Nat /\ uq \in Nat
  <2>1. path \in Seq(OptionType) /\ query \in Seq(OptionType)
    BY <1>3, <1>4 DEF Rising
  <2> QED
    BY <1>3, <1>4, <2>1
<1> HIDE DEF all, up, uq
<1>16. Len(all) <= up + uq + 3
  <2>1. Len(all) = Len(front) + Len(back) /\ Len(front) = Len(o) + up
    BY <1>3, <1>11, <1>14
  <2>2. Len(back) = (1 + uq) + 1
    BY <1>4, <1>8, <1>9, <1>12, <1>13
  <2> DEFINE lo == Len(o)
             la == Len(all)
             lf == Len(front)
             lb == Len(back)
  <2>3. lo \in Nat /\ lo <= 1
    BY <1>10
  <2>4. la = lf + lb /\ lf = lo + up /\ lb = (1 + uq) + 1
    BY <2>1, <2>2
  <2> HIDE DEF lo, la, lf, lb
  <2>5. la <= up + uq + 3
    BY <1>15, <2>3, <2>4
  <2> QED
    BY <2>5 DEF la
<1>17. Wanted(r) = all
  <2>1. Wanted(r) = (((o \o path) \o format) \o query) \o accept
    BY <1>3, <1>4, <1>5, <1>6 DEF Wanted
  <2>2. /\ front \in Seq(OptionType) /\ format \in Seq(OptionType) /\ query \in Seq(OptionType)
        /\ accept \in Seq(OptionType) /\ fq \in Seq(OptionType)
    BY <1>4, <1>8, <1>9, <1>11, <1>12 DEF Rising
  <2>3. (front \o format) \o query = front \o fq
    <3>1. (front \o format) \o query = front \o (format \o query)
      BY <2>2, OptionsRegrouped, SMTT(20)
    <3> QED
      BY <3>1 DEF fq
  <2>4. (front \o fq) \o accept = front \o back
    <3>1. (front \o fq) \o accept = front \o (fq \o accept)
      BY <2>2, OptionsRegrouped, SMTT(20)
    <3> QED
      BY <3>1 DEF back
  <2> QED
    BY <2>1, <2>3, <2>4 DEF front, all
<1> QED
  BY <1>14, <1>16, <1>17 DEF all, front, back, fq, o, path, format, query, accept, up, uq

LEMMA RequestOptions ==
  ASSUME NEW r \in CoapRequests
  PROVE  /\ Sendable(Options(r))
         /\ \E nums : /\ Absolute(nums, Options(r))
                      /\ [k \in 1 .. Len(Options(r)) |-> [num |-> nums[k], val |-> Options(r)[k].val]] = Wanted(r)
<1> DEFINE all == Wanted(r)
           n == Len(all)
           opts == [k \in DOMAIN all |->
                      [num |-> all[k].num - (IF k = 1 THEN 0 ELSE all[k - 1].num), val |-> all[k].val]]
           nums == [k \in 0 .. n |-> IF k = 0 THEN 0 ELSE all[k].num]
<1>1. Rising(all, 6, 17)
  BY WantedRises
<1>2. n \in Nat /\ n <= 16 /\ all \in Seq(OptionType)
  <2>1. all \in Seq(OptionType)
    BY <1>1 DEF Rising
  <2>2. n <= Len(Pieces(r.uri, 47)) + Len(Pieces(r.query, 38)) + 3
    BY WantedRises
  <2>3. Len(Pieces(r.uri, 47)) + Len(Pieces(r.query, 38)) + 3 <= 16
    BY RequestsFit DEF MaxOptions
  <2>4. Len(Pieces(r.uri, 47)) \in Nat /\ Len(Pieces(r.query, 38)) \in Nat
    <3>1. r.uri \in Seq(Byte) /\ r.query \in Seq(Byte)
      BY RequestsTyped DEF RequestTyped, Text
    <3>2. Pieces(r.uri, 47) \in Seq(Seq(Byte)) /\ Pieces(r.query, 38) \in Seq(Seq(Byte))
      BY <3>1, PiecesTyped
    <3> QED
      BY <3>2
  <2>5. n \in Nat
    BY <2>1
  <2> HIDE DEF n
  <2> QED
    BY <2>1, <2>2, <2>3, <2>4, <2>5
<1>3. Options(r) = opts
  <2>1. ~(n > MaxOptions)
    BY <1>2 DEF MaxOptions
  <2>2. all = ((IF r.observe THEN UintOption(OBSERVE, 0) ELSE <<>>) \o StrOptions(URI_PATH, r.uri, 47))
                \o ((UintOption(CONTENT_FORMAT, 50) \o StrOptions(URI_QUERY, r.query, 38))
                      \o UintOption(ACCEPT, 42))
    BY WantedRises
  <2> DEFINE joined == ((IF r.observe THEN UintOption(OBSERVE, 0) ELSE <<>>) \o StrOptions(URI_PATH, r.uri, 47))
                \o ((UintOption(CONTENT_FORMAT, 50) \o StrOptions(URI_QUERY, r.query, 38))
                      \o UintOption(ACCEPT, 42))
             kept == IF Len(joined) > MaxOptions THEN SubSeq(joined, 1, MaxOptions) ELSE joined
  <2>3. Options(r) = [k \in DOMAIN kept |->
                        [num |-> kept[k].num - (IF k = 1 THEN 0 ELSE kept[k - 1].num), val |-> kept[k].val]]
    BY Zenon DEF Options
  <2>4. kept = all
    <3>1. joined = all
      BY <2>2
    <3> HIDE DEF joined
    <3> QED
      BY <2>1, <3>1
  <2> HIDE DEF kept
  <2> QED
    BY <2>3, <2>4
<1> HIDE DEF all
<1>4. DOMAIN all = 1 .. n
  BY <1>2
<1>5. /\ \A k \in 1 .. n : all[k].num \in 6 .. 17 /\ Len(all[k].val) \in Word
      /\ \A k \in 2 .. n : all[k - 1].num <= all[k].num
      /\ \A k \in 1 .. n : all[k].val \in Seq(Byte) /\ all[k] = [num |-> all[k].num, val |-> all[k].val]
  <2>1. \A k \in 1 .. n : all[k] \in OptionType
    BY <1>2
  <2>2. \A k \in 1 .. n : all[k].val \in Seq(Byte) /\ all[k] = [num |-> all[k].num, val |-> all[k].val]
    BY <2>1 DEF OptionType
  <2> QED
    BY <1>1, <2>2 DEF Rising
<1> HIDE DEF n
<1>6. ASSUME NEW k \in 1 .. n
      PROVE  /\ opts[k] = [num |-> all[k].num - (IF k = 1 THEN 0 ELSE all[k - 1].num), val |-> all[k].val]
             /\ opts[k].num \in Word /\ opts[k].val = all[k].val
             /\ nums[k] = nums[k - 1] + opts[k].num /\ nums[k] = all[k].num
  <2>1. opts[k] = [num |-> all[k].num - (IF k = 1 THEN 0 ELSE all[k - 1].num), val |-> all[k].val]
    BY <1>4
  <2>2. k \in 0 .. n /\ k - 1 \in 0 .. n
    BY <1>2
  <2>3. nums[k] = all[k].num /\ nums[k - 1] = IF k = 1 THEN 0 ELSE all[k - 1].num
    BY <1>2, <2>2
  <2> DEFINE before == IF k = 1 THEN 0 ELSE all[k - 1].num
             here == all[k].num
  <2>4. before \in Nat /\ here \in Nat /\ before <= here /\ here <= 17
    <3>1. here \in 6 .. 17
      BY <1>5
    <3>2. k # 1 => k - 1 \in 1 .. n /\ k \in 2 .. n
      BY <1>2
    <3>3. k # 1 => all[k - 1].num \in 6 .. 17 /\ all[k - 1].num <= all[k].num
      BY <1>5, <3>2
    <3> QED
      BY <3>1, <3>3
  <2> HIDE DEF before, here, opts, nums
  <2>5. here - before \in Nat /\ here - before <= 65535 /\ before + (here - before) = here
    BY <2>4
  <2>6. here - before \in Word
    BY <2>5, WordBounds
  <2>7. opts[k].num = here - before /\ opts[k].val = all[k].val
    BY <2>1 DEF here, before
  <2> QED
    BY <2>1, <2>3, <2>5, <2>6, <2>7 DEF here, before
<1>7. opts \in Seq(OptionType) /\ Len(opts) = n
  <2>1. \A k \in 1 .. n : opts[k] \in OptionType
    <3> HIDE DEF opts
    <3>1. ASSUME NEW k \in 1 .. n PROVE opts[k] \in OptionType
      <4> DEFINE here == all[k].num - (IF k = 1 THEN 0 ELSE all[k - 1].num)
      <4>1. opts[k] = [num |-> here, val |-> all[k].val] /\ opts[k].num \in Word
        BY <1>6
      <4> DEFINE val == all[k].val
      <4> HIDE DEF here
      <4>2. val \in Seq(Byte)
        BY <1>5
      <4> HIDE DEF val
      <4>3. opts[k] = [num |-> here, val |-> val] /\ here \in Word
        BY <4>1 DEF val
      <4> QED
        BY <4>2, <4>3 DEF OptionType
    <3> QED
      BY <3>1
  <2> QED
    BY <1>2, <1>4, <2>1
<1> HIDE DEF opts
<1>8. Sendable(opts)
  BY <1>5, <1>6, <1>7 DEF Sendable
<1>9. nums[0] = 0
  BY <1>2
<1>10. Absolute(nums, opts)
  <2> HIDE DEF nums
  <2> QED
    BY <1>6, <1>7, <1>9 DEF Absolute
<1>11. [k \in 1 .. n |-> [num |-> nums[k], val |-> opts[k].val]] = all
  <2>1. all = [k \in 1 .. n |-> all[k]]
    BY <1>2, <1>4
  <2>2. \A k \in 1 .. n : [num |-> nums[k], val |-> opts[k].val] = all[k]
    <3> HIDE DEF nums
    <3> QED
      BY <1>5, <1>6
  <2> HIDE DEF nums
  <2> QED
    BY <2>1, <2>2
<1> HIDE DEF nums
<1> QED
  BY <1>3, <1>7, <1>8, <1>10, <1>11 DEF all

-----------------------------------------------------------------------------
(* A request and an answer on the network.                                 *)
LEMMA TokenTyped ==
  ASSUME NEW c \in Nat
  PROVE  Token(c) \in Seq(Nat) /\ Len(Token(c)) = 4
<1>1. c % 256 \in Nat /\ (c \div 256) % 256 \in Nat /\ (c \div 65536) % 256 \in Nat /\ c \div 16777216 \in Nat
  OBVIOUS
<1> DEFINE w == c % 256
           x == (c \div 256) % 256
           y == (c \div 65536) % 256
           z == c \div 16777216
<1>2. Token(c) = <<w, x, y, z>>
  BY DEF Token
<1> HIDE DEF w, x, y, z
<1>3. w \in Nat /\ x \in Nat /\ y \in Nat /\ z \in Nat
  BY <1>1 DEF w, x, y, z
<1> QED
  BY <1>2, <1>3

LEMMA TokensDiffer ==
  ASSUME NEW c \in Nat, NEW d \in Nat, Token(c) = Token(d)
  PROVE  c = d
<1>1. /\ c % 256 = d % 256 /\ (c \div 256) % 256 = (d \div 256) % 256
      /\ (c \div 65536) % 256 = (d \div 65536) % 256 /\ c \div 16777216 = d \div 16777216
  BY DEF Token
<1>2. \A n \in Nat : /\ n \div 65536 = 256 * (n \div 16777216) + ((n \div 65536) % 256)
                     /\ n \div 256 = 256 * (n \div 65536) + ((n \div 256) % 256)
                     /\ n = 256 * (n \div 256) + (n % 256)
  OBVIOUS
<1>3. c \div 65536 = d \div 65536
  BY <1>1, <1>2
<1>4. c \div 256 = d \div 256
  BY <1>1, <1>2, <1>3
<1> QED
  BY <1>1, <1>2, <1>4

MessageOf(r, id, token) ==
  [type |-> CON, code |-> r.code, msgid |-> id, token |-> token, options |-> Options(r),
   payload |-> r.payload]

(* The bytes b are the message of the request r.                           *)
Carries(b, r, id, token) ==
  /\ b \in Seq(Nat) /\ Len(b) <= MaxPdu
  /\ ServerReads(b) = [type |-> CON, code |-> r.code, msgid |-> id, token |-> token,
                       options |-> Wanted(r), payload |-> r.payload]

LEMMA RequestWritten ==
  ASSUME NEW r \in CoapRequests, NEW id \in Word, NEW token \in Seq(Nat), Len(token) = 4,
         CoAPSerialize_MessageLength(MessageOf(r, id, token)) <= MaxPdu
  PROVE  Carries(CoAPSerialize_Message(MessageOf(r, id, token)), r, id, token)
<1> DEFINE m == MessageOf(r, id, token)
           opts == Options(r)
           o == CoAPSerialize_Options(opts)
           head == Lead(CON, r.code, id, token)
           payload == r.payload
           b == CoAPSerialize_Message(m)
<1>1. Sendable(opts)
  BY RequestOptions
<1>2. LeadOf(CON, r.code, id, token) /\ payload \in Seq(Nat)
  <2>1. r.code \in Nat /\ payload \in Seq(Byte)
    BY RequestsTyped DEF RequestTyped, GET, POST
  <2>2. payload \in Seq(Nat)
    <3> HIDE DEF payload
    <3> QED
      BY <2>1, SeqOfMore, BytesAndWords
  <2> QED
    BY <2>1, <2>2 DEF LeadOf, CON
<1>3. head \in Seq(Nat) /\ Len(head) = 8
  <2>1. <<>> \in Seq(Nat)
    OBVIOUS
  <2>2. head \in Seq(Nat) /\ Len(head) = 4 + Len(token)
    BY <1>2, <2>1, LeadRead
  <2> QED
    BY <2>2
<1>4. o \in Seq(Nat) /\ CoAPSerialize_OptionsLen(opts) = Len(o)
  <2>1. <<>> \in Seq(Nat)
    OBVIOUS
  <2> QED
    BY <1>1, <2>1, OptionsLaid, OptionsCounted
<1>5. m.options = opts /\ m.token = token /\ m.payload = payload /\ m.msgid = id /\ m.type = CON /\ m.code = r.code
  BY DEF MessageOf
<1> HIDE DEF m
<1>6. CoAPSerialize_Header(m) \o m.token = head
  BY <1>5 DEF CoAPSerialize_Header, Lead
<1>8. MaxPdu \in Nat
  BY PduBound
<1>9. (payload = <<>> => 8 + Len(o) < MaxPdu) /\ 9 + Len(o) + Len(payload) <= 65535
  <2>1. /\ payload = <<>> => 8 + CoAPSerialize_OptionsLen(opts) < MaxPdu
        /\ 9 + CoAPSerialize_OptionsLen(opts) + Len(payload) <= MaxWord
    BY RequestsFit
  <2> HIDE DEF o, opts, payload
  <2>2. MaxWord = 65535
    BY WordBounds
  <2> QED
    BY <1>4, <2>1, <2>2
<1> HIDE DEF head, o, opts, payload
<1>7. 4 + Len(token) + Len(o) + (IF payload = <<>> THEN 0 ELSE Len(payload) + 1) <= MaxPdu
  <2> DEFINE lo == Len(o)
             lp == Len(payload)
             lt == Len(token)
             extra == IF payload = <<>> THEN 0 ELSE lp + 1
             n == 4 + lt + lo + extra
  <2>1. lo \in Nat /\ lp \in Nat /\ lt = 4 /\ 9 + lo + lp <= 65535
    BY <1>2, <1>4, <1>9
  <2>2. n \in Nat /\ n < 65536
    <3> HIDE DEF lo, lp, lt
    <3>1. extra \in Nat /\ extra <= lp + 1
      BY <2>1
    <3> HIDE DEF extra
    <3> QED
      BY <2>1, <3>1
  <2>3. CoAPSerialize_MessageLength(m) = n % 65536
    <3>1. CoAPSerialize_OptionsLen(m.options) = lo /\ Len(m.token) = lt
          /\ (IF m.payload = <<>> THEN 0 ELSE Len(m.payload) + 1) = extra
      BY <1>4, <1>5
    <3> HIDE DEF m, lo, lt, extra
    <3> QED
      BY <3>1 DEF CoAPSerialize_MessageLength
  <2>4. CoAPSerialize_MessageLength(m) <= MaxPdu
    BY DEF m
  <2> HIDE DEF n
  <2>5. n % 65536 = n
    BY <2>2
  <2>6. n <= MaxPdu
    BY <2>3, <2>4, <2>5
  <2> QED
    BY <2>6 DEF n, extra, lo, lp, lt
<1> DEFINE front == head \o o
<1>10. front \in Seq(Nat) /\ Len(front) = 8 + Len(o) /\ Len(o) \in Nat
  <2>1. front \in Seq(Nat) /\ Len(front) = Len(head) + Len(o)
    BY <1>3, <1>4, AtEnd
  <2>2. Len(o) \in Nat
    BY <1>4
  <2> HIDE DEF front
  <2> QED
    BY <1>3, <2>1, <2>2
<1>11. b = IF Len(payload) + 1 > MaxPdu - Len(front) THEN SubSeq(front, 1, Len(front) - 1)
           ELSE IF payload = <<>> THEN front ELSE front \o <<255>> \o payload
  BY <1>5, <1>6 DEF CoAPSerialize_Message, o
<1> HIDE DEF front, b
<1>12. b = front \o Marked(payload) /\ Len(b) <= MaxPdu
  <2>1. CASE payload = <<>>
    <3>1. ~(Len(payload) + 1 > MaxPdu - Len(front)) /\ Len(front) <= MaxPdu
      <4>1. Len(payload) = 0
        BY <2>1
      <4> QED
        BY <1>8, <1>9, <1>10, <2>1, <4>1
    <3>2. b = front
      BY <1>11, <2>1, <3>1
    <3>3. Marked(payload) = <<>>
      BY <2>1 DEF Marked
    <3>4. front \o <<>> = front
      BY <1>10, ConcatEmptySeq
    <3> QED
      BY <1>8, <1>10, <3>1, <3>2, <3>3, <3>4
  <2>2. CASE payload # <<>>
    <3> DEFINE mark == <<255>>
    <3>1. mark \in Seq(Nat) /\ Len(mark) = 1
      OBVIOUS
    <3>7. Len(payload) \in Nat /\ 8 + Len(o) + (Len(payload) + 1) <= MaxPdu
      BY <1>2, <1>7, <2>2
    <3>8. ~(Len(payload) + 1 > MaxPdu - Len(front))
      BY <1>8, <1>10, <3>7
    <3>2. b = (front \o mark) \o payload
      BY <1>11, <2>2, <3>8
    <3>3. Marked(payload) = mark \o payload
      BY <2>2 DEF Marked
    <3> HIDE DEF mark
    <3>4. b = front \o (mark \o payload)
      <4>1. (front \o mark) \o payload = front \o (mark \o payload)
        BY <1>2, <1>10, <3>1, Regrouped
      <4> QED
        BY <3>2, <4>1
    <3>5. Len(front \o mark) = Len(front) + 1 /\ front \o mark \in Seq(Nat)
      BY <1>10, <3>1, AtEnd
    <3>6. Len(b) = Len(front) + 1 + Len(payload)
      BY <1>2, <3>2, <3>5, AtEnd
    <3> QED
      BY <1>8, <1>10, <3>3, <3>4, <3>6, <3>7
  <2> QED
    BY <2>1, <2>2
<1>13. b = Datagram(head, opts, payload)
  BY <1>12 DEF Datagram, front, o
<1>14. PICK nums : /\ Absolute(nums, opts)
                   /\ [k \in 1 .. Len(opts) |-> [num |-> nums[k], val |-> opts[k].val]] = Wanted(r)
  BY RequestOptions DEF opts
<1>15. b \in Seq(Nat) /\ ServerReads(b) =
                    [type |-> CON, code |-> r.code, msgid |-> id, token |-> token,
                     options |-> [k \in 1 .. Len(opts) |-> [num |-> nums[k], val |-> opts[k].val]],
                     payload |-> payload]
  <2>1. Understood(Datagram(Lead(CON, r.code, id, token), opts, payload), CON, r.code, id, token, opts, payload)
    BY <1>1, <1>2, DatagramRead
  <2>2. Understood(b, CON, r.code, id, token, opts, payload)
    BY <1>13, <2>1 DEF head
  <2> QED
    BY <1>14, <2>2, Zenon DEF Understood
<1> QED
  BY <1>12, <1>14, <1>15 DEF Carries, b, m, payload

AnswerTo(a, q) ==
  [type |-> a.type, code |-> a.code, msgid |-> IF a.type = ACK THEN q.msgid ELSE a.msgid,
   token |-> IF a.code = 0 THEN <<>> ELSE q.token, options |-> a.options, payload |-> a.payload]

LEMMA AnswerWritten ==
  ASSUME NEW a \in CoapAnswers, NEW q, q.msgid \in Word, q.token \in Seq(Nat), Len(q.token) = 4
  PROVE  CoAPDeserialize_Message(ServerWrites(AnswerTo(a, q))) =
           [type |-> a.type, code |-> a.code, msgid |-> IF a.type = ACK THEN q.msgid ELSE a.msgid,
            token |-> IF a.code = 0 THEN <<>> ELSE q.token, payload |-> a.payload]
<1> DEFINE id == IF a.type = ACK THEN q.msgid ELSE a.msgid
           token == IF a.code = 0 THEN <<>> ELSE q.token
           opts == a.options
           payload == a.payload
           head == Lead(a.type, a.code, id, token)
           m == AnswerTo(a, q)
<1>1. /\ a.type \in 0 .. 3 /\ a.code \in Byte /\ a.msgid \in Word
      /\ a.payload \in Seq(Byte) /\ a.options \in Seq(OptionType)
      /\ \A k \in DOMAIN a.options : Len(a.options[k].val) <= MaxPdu
  BY CoapWireAssumption
<1>2. Sendable(opts)
  <2>1. MaxPdu \in Nat /\ MaxPdu <= 65535
    BY PduBound
  <2>2. ASSUME NEW k \in 1 .. Len(opts) PROVE Len(opts[k].val) \in Word
    <3>1. opts[k] \in OptionType /\ k \in DOMAIN opts
      BY <1>1
    <3>2. opts[k].val \in Seq(Byte)
      BY <3>1 DEF OptionType
    <3> DEFINE len == Len(opts[k].val)
    <3>3. len \in Nat /\ len <= MaxPdu
      BY <1>1, <3>1, <3>2
    <3> HIDE DEF len
    <3>4. len \in Word
      BY <2>1, <3>3, WordBounds
    <3> QED
      BY <3>4 DEF len
  <2> QED
    BY <1>1, <2>2 DEF Sendable
<1>3. payload \in Seq(Nat)
  <2>1. payload \in Seq(Byte)
    BY <1>1
  <2> HIDE DEF payload
  <2> QED
    BY <2>1, SeqOfMore, BytesAndWords
<1>4. LeadOf(a.type, a.code, id, token)
  <2>1. id \in Word /\ a.code \in Nat
    BY <1>1, BytesAndWords
  <2>2. token \in Seq(Nat) /\ Len(token) \in 0 .. 8
    OBVIOUS
  <2> HIDE DEF id, token
  <2> QED
    BY <1>1, <2>1, <2>2 DEF LeadOf
<1>5. /\ m.type = a.type /\ m.code = a.code /\ m.msgid = id /\ m.token = token
      /\ m.options = opts /\ m.payload = payload
  BY DEF AnswerTo
<1> HIDE DEF m, id, token, opts, payload
<1>6. ServerWrites(m) = Datagram(head, opts, payload)
  BY <1>5 DEF ServerWrites, Datagram, Lead, Marked
<1> HIDE DEF head
<1>7. CoAPDeserialize_Message(Datagram(head, opts, payload)) =
        [type |-> a.type, code |-> a.code, msgid |-> id, token |-> token, payload |-> payload]
  BY <1>2, <1>3, <1>4, DatagramRead DEF head
<1> QED
  BY <1>6, <1>7 DEF m, id, token, payload

-----------------------------------------------------------------------------
(* The messages that were written, the list and the answers.               *)
EntryType == [request : CoapRequests, msgid : Nat, token : Seq(Nat), bytes : Seq(Nat)]
NodeType == [n : Nat, msgid : Nat, token : Seq(Nat), observer : BOOLEAN, acked : BOOLEAN]

(* A message written before the id and the token came to these.            *)
Known(e, id, counted) ==
  /\ 1 <= e.msgid /\ e.msgid < MaxWord /\ e.msgid < id
  /\ \E c \in Nat : c < counted /\ e.token = Token(c)
  /\ Carries(e.bytes, e.request, e.msgid, e.token)

(* A message and a later one.                                              *)
Apart(e, f, id) ==
  /\ e.token # f.token
  /\ e.msgid # f.msgid \/ (f.msgid = 1 /\ id = MaxWord)

RequestsKnown ==
  /\ message_id \in Nat /\ 1 <= message_id /\ message_id <= MaxWord /\ coap_token \in Nat
  /\ requested \in Seq(EntryType)
  /\ \A i \in 1 .. Len(requested) : Known(requested[i], message_id, coap_token)
  /\ \A i, j \in 1 .. Len(requested) : i < j => Apart(requested[i], requested[j], message_id)

(* A node of the list is for a message that was written.                   *)
Owned(pending, written) ==
  /\ pending.n \in 1 .. Len(written)
  /\ pending.msgid = written[pending.n].msgid /\ pending.token = written[pending.n].token

NodesKnown ==
  /\ sendlist \in Seq(NodeType)
  /\ \A k \in 1 .. Len(sendlist) : Owned(sendlist[k], requested)

(* An answer reads as it was written, with the id and the token of the     *)
(* request it is for.                                                      *)
Answers(a, written) ==
  /\ a.n \in 1 .. Len(written) /\ a.answer \in CoapAnswers
  /\ CoAPDeserialize_Message(a.bytes) =
       [type |-> a.answer.type, code |-> a.answer.code,
        msgid |-> IF a.answer.type = ACK THEN written[a.n].msgid ELSE a.answer.msgid,
        token |-> IF a.answer.code = 0 THEN <<>> ELSE written[a.n].token,
        payload |-> a.answer.payload]

AnswersKnown == \A a \in answered : Answers(a, requested)

(* The two parts of AnswerFindsItsRequest, of one handled answer and of    *)
(* one node.                                                               *)
Meant(h, answers) ==
  \E a \in answers : a.n = h.n /\ a.answer.code = h.code /\ a.answer.payload = h.payload
Earned(pending, answers, id) ==
  pending.acked /\ (pending.msgid # 1 \/ id # MaxWord) =>
    \E a \in answers : a.n = pending.n /\ a.answer.type = ACK /\ a.answer.code = 0

HandledMeant == \A h \in handled : Meant(h, answered)
AcksEarned == \A k \in 1 .. Len(sendlist) : Earned(sendlist[k], answered, message_id)

(* The inductive invariant.                                                *)
WireInv == RequestsKnown /\ NodesKnown /\ AnswersKnown /\ HandledMeant /\ AcksEarned

LEMMA MaxWordBig == MaxWord \in Nat /\ MaxWord > 2
  BY DEF MaxWord

(* What a node or an answer is for stays when more is written.             *)
LEMMA MoreWritten ==
  ASSUME NEW S, NEW s \in Seq(S), NEW e \in S
  PROVE  /\ Append(s, e) \in Seq(S) /\ Len(Append(s, e)) = Len(s) + 1 /\ Len(s) \in Nat
         /\ \A i \in 1 .. Len(s) : Append(s, e)[i] = s[i]
         /\ Append(s, e)[Len(s) + 1] = e
  BY AppendProperties

LEMMA StillOwned ==
  ASSUME NEW s \in Seq(EntryType), NEW e \in EntryType, NEW pending, Owned(pending, s)
  PROVE  Owned(pending, Append(s, e))
<1> DEFINE t == Append(s, e)
<1>1. Len(t) = Len(s) + 1 /\ Len(s) \in Nat /\ \A i \in 1 .. Len(s) : t[i] = s[i]
  BY MoreWritten
<1> HIDE DEF t
<1>2. pending.n \in 1 .. Len(s) /\ pending.n \in 1 .. Len(t)
  BY <1>1 DEF Owned
<1>3. Owned(pending, t)
  BY <1>1, <1>2 DEF Owned
<1> QED
  BY <1>3 DEF t

LEMMA StillAnswers ==
  ASSUME NEW s \in Seq(EntryType), NEW e \in EntryType, NEW a, Answers(a, s)
  PROVE  Answers(a, Append(s, e))
<1> DEFINE t == Append(s, e)
<1>1. Len(t) = Len(s) + 1 /\ Len(s) \in Nat /\ \A i \in 1 .. Len(s) : t[i] = s[i]
  BY MoreWritten
<1> HIDE DEF t
<1>2. a.n \in 1 .. Len(s) /\ a.n \in 1 .. Len(t) /\ t[a.n] = s[a.n]
  BY <1>1 DEF Answers
<1>3. Answers(a, t)
  BY <1>2 DEF Answers
<1> QED
  BY <1>3 DEF t

LEMMA WithoutOne ==
  ASSUME NEW S, NEW list \in Seq(S), NEW k \in 1 .. Len(list)
  PROVE  /\ Without(list, k) \in Seq(S)
         /\ \A j \in 1 .. Len(Without(list, k)) : \E i \in 1 .. Len(list) : Without(list, k)[j] = list[i]
<1> DEFINE n == Len(list)
           w == Without(list, k)
<1>1. n \in Nat /\ k \in 1 .. n /\ n - 1 \in Nat
  OBVIOUS
<1>2. \A i \in 1 .. n : list[i] \in S
  OBVIOUS
<1>3. w = [j \in 1 .. n - 1 |-> list[IF j < k THEN j ELSE j + 1]]
  BY DEF Without
<1> HIDE DEF n, w
<1>4. \A j \in 1 .. n - 1 : (IF j < k THEN j ELSE j + 1) \in 1 .. n
  BY <1>1
<1>5. w \in Seq(S) /\ Len(w) = n - 1
  BY <1>1, <1>2, <1>3, <1>4
<1>6. \A j \in 1 .. n - 1 : w[j] = list[IF j < k THEN j ELSE j + 1]
  BY <1>3
<1>7. \A j \in 1 .. n - 1 : \E i \in 1 .. n : w[j] = list[i]
  BY <1>4, <1>6
<1> QED
  BY <1>5, <1>7 DEF n, w

(* The next message has an id and a token of its own, until the ids are    *)
(* used up.                                                                *)
LEMMA NextIsKnown ==
  ASSUME RequestsKnown, NEW r \in CoapRequests,
         CoAPSerialize_MessageLength(Message(r)) <= MaxPdu
  PROVE  LET e == [request |-> r, msgid |-> CoAPMessageId_gen, token |-> Token(coap_token),
                   bytes |-> CoAPSerialize_Message(Message(r))]
         IN  /\ e \in EntryType
             /\ Known(e, NextMessageId, coap_token + 1)
             /\ \A i \in 1 .. Len(requested) : Apart(requested[i], e, NextMessageId)
<1> DEFINE id == CoAPMessageId_gen
           token == Token(coap_token)
           b == CoAPSerialize_Message(Message(r))
           e == [request |-> r, msgid |-> id, token |-> token, bytes |-> b]
<1>1. /\ message_id \in Nat /\ 1 <= message_id /\ message_id <= MaxWord /\ coap_token \in Nat
      /\ \A i \in 1 .. Len(requested) : Known(requested[i], message_id, coap_token)
  BY DEF RequestsKnown
<1>2. id \in Nat /\ 1 <= id /\ id < MaxWord /\ id < NextMessageId
  BY <1>1, MaxWordBig DEF CoAPMessageId_gen, NextMessageId
<1>3. id \in Word
  BY <1>2, MaxWordBig DEF Word
<1>4. token \in Seq(Nat) /\ Len(token) = 4
  BY <1>1, TokenTyped
<1>5. Message(r) = MessageOf(r, id, token)
  BY DEF Message, MessageOf
<1> HIDE DEF id, token
<1>6. Carries(b, r, id, token)
  BY <1>3, <1>4, <1>5, RequestWritten
<1>7. b \in Seq(Nat)
  BY <1>6 DEF Carries
<1> HIDE DEF b
<1>8. e \in EntryType
  BY <1>2, <1>4, <1>7 DEF EntryType
<1>9. e.request = r /\ e.msgid = id /\ e.token = token /\ e.bytes = b
  OBVIOUS
<1> HIDE DEF e
<1>10. Known(e, NextMessageId, coap_token + 1)
  <2>1. coap_token < coap_token + 1 /\ token = Token(coap_token)
    BY <1>1 DEF token
  <2> QED
    BY <1>1, <1>2, <1>6, <1>9, <2>1 DEF Known
<1>11. ASSUME NEW i \in 1 .. Len(requested) PROVE Apart(requested[i], e, NextMessageId)
  <2>1. Known(requested[i], message_id, coap_token)
    BY <1>1
  <2>2. PICK c \in Nat : c < coap_token /\ requested[i].token = Token(c)
    BY <2>1 DEF Known
  <2>3. Token(c) # Token(coap_token)
    BY <1>1, <2>2, TokensDiffer
  <2>4. requested[i].token # e.token
    BY <1>9, <2>2, <2>3 DEF token
  <2>5. requested[i].msgid < message_id
    BY <2>1 DEF Known
  <2>6. CASE message_id = MaxWord
    BY <1>9, <2>4, <2>6 DEF Apart, NextMessageId, CoAPMessageId_gen, id
  <2>7. CASE message_id # MaxWord
    <3>1. e.msgid = message_id
      BY <1>9, <2>7 DEF id, CoAPMessageId_gen
    <3>2. requested[i].msgid # message_id
      BY <1>1, <2>5
    <3> QED
      BY <2>4, <3>1, <3>2 DEF Apart
  <2> QED
    BY <2>6, <2>7
<1> QED
  BY <1>8, <1>10, <1>11 DEF e, id, token, b

-----------------------------------------------------------------------------
(* Each action preserves the invariant.                                    *)
LEMMA WireInvAtFirst == CoapWireInit => WireInv
<1> SUFFICES ASSUME CoapWireInit PROVE WireInv
  OBVIOUS
<1>1. message_id \in 1 .. MaxWord
  BY CoapWireAssumption DEF CoapWireInit
<1>2. message_id \in Nat /\ 1 <= message_id /\ message_id <= MaxWord
  BY <1>1, MaxWordBig
<1>3. coap_token \in Nat
  BY <1>2 DEF CoapWireInit, FirstToken
<1>4. requested = <<>> /\ sendlist = <<>> /\ answered = {} /\ handled = {}
  BY DEF CoapWireInit
<1>5. RequestsKnown
  BY <1>2, <1>3, <1>4 DEF RequestsKnown
<1>6. NodesKnown /\ AcksEarned
  BY <1>4 DEF NodesKnown, AcksEarned
<1>7. AnswersKnown /\ HandledMeant
  BY <1>4 DEF AnswersKnown, HandledMeant
<1> QED
  BY <1>5, <1>6, <1>7 DEF WireInv

LEMMA GiveUpKeeps ==
  ASSUME WireInv, NEW k, CoapGivesUp(k)
  PROVE  WireInv'
<1>1. /\ k \in 1 .. Len(sendlist) /\ sendlist' = Without(sendlist, k)
      /\ UNCHANGED <<message_id, coap_token, requested, answered, handled>>
  BY DEF CoapGivesUp, WireInv, NodesKnown
<1>2. /\ sendlist' \in Seq(NodeType)
      /\ \A j \in 1 .. Len(sendlist') : \E i \in 1 .. Len(sendlist) : sendlist'[j] = sendlist[i]
  BY <1>1, WithoutOne DEF WireInv, NodesKnown
<1>3. NodesKnown'
  BY <1>1, <1>2 DEF WireInv, NodesKnown
<1>4. AcksEarned'
  BY <1>1, <1>2 DEF WireInv, AcksEarned
<1>5. RequestsKnown' /\ AnswersKnown' /\ HandledMeant'
  BY <1>1 DEF WireInv, RequestsKnown, AnswersKnown, HandledMeant
<1> QED
  BY <1>3, <1>4, <1>5 DEF WireInv

LEMMA SendKeeps ==
  ASSUME WireInv, NEW r \in CoapRequests, CoapSends(r)
  PROVE  WireInv'
<1> DEFINE e == [request |-> r, msgid |-> CoAPMessageId_gen, token |-> Token(coap_token),
                 bytes |-> CoAPSerialize_Message(Message(r))]
           pending == Node(Len(requested) + 1)
<1>1. message_id' = NextMessageId /\ coap_token' = coap_token + 1 /\ UNCHANGED <<answered, handled>>
  BY DEF CoapSends
<1>2. \/ UNCHANGED <<requested, sendlist>>
      \/ /\ CoAPSerialize_MessageLength(Message(r)) <= MaxPdu
         /\ requested' = Append(requested, e) /\ sendlist' = Append(sendlist, pending)
  BY DEF CoapSends
<1>3. /\ message_id \in Nat /\ 1 <= message_id /\ message_id <= MaxWord /\ coap_token \in Nat
      /\ requested \in Seq(EntryType)
  BY DEF WireInv, RequestsKnown
<1>4. /\ message_id' \in Nat /\ message_id <= message_id' /\ message_id' <= MaxWord
      /\ message_id = MaxWord => message_id' = MaxWord
  BY <1>1, <1>3, MaxWordBig DEF NextMessageId
<1>5. coap_token' \in Nat /\ coap_token < coap_token'
  BY <1>1, <1>3
<1>6. ASSUME NEW f, f \in EntryType, Known(f, message_id, coap_token)
      PROVE  Known(f, message_id', coap_token')
  <2>1. f.msgid \in Nat
    BY <1>6 DEF EntryType
  <2>2. f.msgid < message_id'
    BY <1>3, <1>4, <1>6, <2>1 DEF Known
  <2>3. \E c \in Nat : c < coap_token' /\ f.token = Token(c)
    BY <1>3, <1>5, <1>6 DEF Known
  <2> QED
    BY <1>6, <2>2, <2>3 DEF Known
<1>7. ASSUME NEW i \in 1 .. Len(requested)
      PROVE  Known(requested[i], message_id', coap_token')
  <2>1. requested[i] \in EntryType
    BY <1>3
  <2> QED
    BY <1>6, <2>1 DEF WireInv, RequestsKnown
<1>8. \A f, g : Apart(f, g, message_id) => Apart(f, g, message_id')
  BY <1>4 DEF Apart
<1>9. \A i, j \in 1 .. Len(requested) : i < j => Apart(requested[i], requested[j], message_id')
  BY <1>8 DEF WireInv, RequestsKnown
<1>10. \A p : Earned(p, answered, message_id) => Earned(p, answered, message_id')
  BY <1>4 DEF Earned
<1>11. HandledMeant'
  BY <1>1 DEF WireInv, HandledMeant
<1>12. CASE UNCHANGED <<requested, sendlist>>
  <2>1. RequestsKnown'
    BY <1>3, <1>4, <1>5, <1>7, <1>9, <1>12 DEF RequestsKnown
  <2>2. NodesKnown' /\ AnswersKnown'
    BY <1>1, <1>12 DEF WireInv, NodesKnown, AnswersKnown
  <2>3. AcksEarned'
    BY <1>1, <1>10, <1>12 DEF WireInv, AcksEarned
  <2> QED
    BY <1>11, <2>1, <2>2, <2>3 DEF WireInv
<1>13. CASE /\ CoAPSerialize_MessageLength(Message(r)) <= MaxPdu
            /\ requested' = Append(requested, e) /\ sendlist' = Append(sendlist, pending)
  <2> DEFINE n == Len(requested)
  <2>1. /\ e \in EntryType /\ Known(e, message_id', coap_token')
        /\ \A i \in 1 .. n : Apart(requested[i], e, message_id')
    BY <1>1, <1>13, NextIsKnown DEF WireInv
  <2>2. e.request = r /\ e.msgid = CoAPMessageId_gen /\ e.token = Token(coap_token)
    OBVIOUS
  <2>3. /\ pending.n = n + 1 /\ pending.msgid = CoAPMessageId_gen /\ pending.token = Token(coap_token)
        /\ pending.acked = FALSE
        /\ pending = [n |-> pending.n, msgid |-> pending.msgid, token |-> pending.token,
                   observer |-> pending.observer, acked |-> pending.acked]
        /\ pending.observer = requested'[n + 1].request.observe
    BY DEF Node
  <2> HIDE DEF e, pending
  <2>4. /\ requested' \in Seq(EntryType) /\ Len(requested') = n + 1 /\ n \in Nat
        /\ \A i \in 1 .. n : requested'[i] = requested[i]
        /\ requested'[n + 1] = e
    BY <1>3, <1>13, <2>1, MoreWritten
  <2> HIDE DEF n
  <2>5. RequestsKnown'
    <3>1. \A i \in 1 .. n + 1 : Known(requested'[i], message_id', coap_token')
      <4>1. \A i \in 1 .. n : Known(requested'[i], message_id', coap_token')
        BY <1>7, <2>4 DEF n
      <4>2. Known(requested'[n + 1], message_id', coap_token')
        BY <2>1, <2>4
      <4> QED
        BY <2>4, <4>1, <4>2
    <3>2. ASSUME NEW i \in 1 .. n + 1, NEW j \in 1 .. n + 1, i < j
          PROVE  Apart(requested'[i], requested'[j], message_id')
      <4>1. i \in 1 .. n /\ (j \in 1 .. n \/ j = n + 1)
        BY <2>4, <3>2
      <4>2. CASE j \in 1 .. n
        BY <1>9, <2>4, <3>2, <4>1, <4>2 DEF n
      <4>3. CASE j = n + 1
        BY <2>1, <2>4, <4>1, <4>3
      <4> QED
        BY <4>1, <4>2, <4>3
    <3> QED
      BY <1>3, <1>4, <1>5, <2>4, <3>1, <3>2 DEF RequestsKnown
  <2>6. pending \in NodeType
    <3>1. r.observe \in BOOLEAN
      BY RequestsTyped DEF RequestTyped
    <3>2. pending.observer \in BOOLEAN
      BY <2>2, <2>3, <2>4, <3>1
    <3>3. e.msgid \in Nat /\ e.token \in Seq(Nat)
      BY <2>1 DEF EntryType
    <3>4. pending.n \in Nat /\ pending.msgid = e.msgid /\ pending.token = e.token
      BY <2>2, <2>3, <2>4
    <3>5. pending.acked \in BOOLEAN
      <4>1. pending.acked = FALSE
        BY <2>3
      <4> QED
        BY <4>1, Zenon
    <3> QED
      BY <2>3, <3>2, <3>3, <3>4, <3>5 DEF NodeType
  <2>7. Owned(pending, requested')
    BY <2>2, <2>3, <2>4 DEF Owned
  <2>8. \A p : Owned(p, requested) => Owned(p, requested')
    BY <1>3, <1>13, <2>1, StillOwned
  <2>9. sendlist \in Seq(NodeType) /\ \A k \in 1 .. Len(sendlist) : Owned(sendlist[k], requested)
    BY DEF WireInv, NodesKnown
  <2>10. /\ sendlist' \in Seq(NodeType) /\ Len(sendlist') = Len(sendlist) + 1 /\ Len(sendlist) \in Nat
         /\ \A i \in 1 .. Len(sendlist) : sendlist'[i] = sendlist[i]
         /\ sendlist'[Len(sendlist) + 1] = pending
    BY <1>13, <2>6, <2>9, MoreWritten
  <2> DEFINE m == Len(sendlist)
  <2>11. \A k \in 1 .. m : Earned(sendlist[k], answered, message_id')
    BY <1>10 DEF WireInv, AcksEarned
  <2>12. m \in Nat /\ Len(sendlist') = m + 1
    BY <2>10
  <2>13. ASSUME NEW k \in 1 .. m + 1
         PROVE  Owned(sendlist'[k], requested') /\ Earned(sendlist'[k], answered', message_id')
    <3>1. CASE k \in 1 .. m
      BY <1>1, <2>8, <2>9, <2>10, <2>11, <3>1
    <3>2. CASE k = m + 1
      <4>1. sendlist'[k] = pending
        BY <2>10, <3>2
      <4>2. Earned(pending, answered', message_id')
        BY <2>3 DEF Earned
      <4> QED
        BY <2>7, <4>1, <4>2
    <3> HIDE DEF m
    <3> QED
      BY <2>12, <3>1, <3>2
  <2>14. NodesKnown'
    BY <2>10, <2>13 DEF NodesKnown
  <2>15. AcksEarned'
    BY <2>10, <2>13 DEF AcksEarned
  <2>16. \A a : Answers(a, requested) => Answers(a, requested')
    BY <1>3, <1>13, <2>1, StillAnswers
  <2>17. AnswersKnown'
    BY <1>1, <2>16 DEF WireInv, AnswersKnown
  <2> QED
    BY <1>11, <2>5, <2>14, <2>15, <2>17 DEF WireInv
<1> QED
  BY <1>2, <1>12, <1>13

LEMMA ConnectKeeps == WireInv /\ CoapConnects => WireInv'
<1> SUFFICES ASSUME WireInv, CoapConnects PROVE WireInv'
  OBVIOUS
<1>1. UNCHANGED <<message_id, coap_token, sendlist, requested, answered, handled>>
  BY DEF CoapConnects
<1> QED
  BY <1>1 DEF WireInv, RequestsKnown, NodesKnown, AnswersKnown, HandledMeant, AcksEarned

LEMMA AnswerKeeps ==
  ASSUME WireInv, NEW n \in DOMAIN requested, NEW a \in CoapAnswers, ServerAnswers(n, a)
  PROVE  WireInv'
<1> DEFINE q == ServerReads(requested[n].bytes)
           b == ServerWrites(AnswerTo(a, q))
           new == [n |-> n, answer |-> a, bytes |-> b]
<1>1. /\ answered' = answered \cup {new}
      /\ UNCHANGED <<message_id, coap_token, sendlist, requested, handled>>
  BY DEF ServerAnswers, AnswerTo
<1>2. n \in 1 .. Len(requested) /\ requested[n] \in EntryType
  BY DEF WireInv, RequestsKnown
<1>3. Known(requested[n], message_id, coap_token)
  BY <1>2 DEF WireInv, RequestsKnown
<1>4. q.msgid = requested[n].msgid /\ q.token = requested[n].token
  BY <1>3 DEF Known, Carries
<1>5. requested[n].msgid \in Word /\ requested[n].token \in Seq(Nat) /\ Len(requested[n].token) = 4
  <2>1. requested[n].msgid \in Nat /\ requested[n].token \in Seq(Nat)
    BY <1>2 DEF EntryType
  <2>2. requested[n].msgid < MaxWord
    BY <1>3 DEF Known
  <2>3. PICK c \in Nat : requested[n].token = Token(c)
    BY <1>3 DEF Known
  <2> QED
    BY <2>1, <2>2, <2>3, MaxWordBig, TokenTyped DEF Word
<1>6. CoAPDeserialize_Message(b) =
        [type |-> a.type, code |-> a.code, msgid |-> IF a.type = ACK THEN q.msgid ELSE a.msgid,
         token |-> IF a.code = 0 THEN <<>> ELSE q.token, payload |-> a.payload]
  <2> HIDE DEF q
  <2> QED
    BY <1>4, <1>5, AnswerWritten
<1> HIDE DEF q, b
<1>7. Answers(new, requested)
  BY <1>2, <1>4, <1>6 DEF Answers
<1> HIDE DEF new
<1>8. AnswersKnown'
  BY <1>1, <1>7 DEF WireInv, AnswersKnown
<1>9. HandledMeant'
  BY <1>1 DEF WireInv, HandledMeant, Meant
<1>10. AcksEarned'
  BY <1>1 DEF WireInv, AcksEarned, Earned
<1> QED
  BY <1>1, <1>8, <1>9, <1>10 DEF WireInv, RequestsKnown, NodesKnown

(* What the client reads of an answer on the network.                      *)
LEMMA AnswerReads ==
  ASSUME AnswersKnown, NEW a \in answered
  PROVE  LET m == CoAPDeserialize_Message(a.bytes)
         IN  /\ a.n \in 1 .. Len(requested)
             /\ m.type = a.answer.type /\ m.code = a.answer.code /\ m.payload = a.answer.payload
             /\ a.answer.type = ACK => m.msgid = requested[a.n].msgid
             /\ a.answer.code # 0 => m.token = requested[a.n].token
<1> DEFINE m == CoAPDeserialize_Message(a.bytes)
           type == a.answer.type
           code == a.answer.code
           payload == a.answer.payload
           msgid == IF type = ACK THEN requested[a.n].msgid ELSE a.answer.msgid
           token == IF code = 0 THEN <<>> ELSE requested[a.n].token
<1>1. Answers(a, requested)
  BY DEF AnswersKnown
<1>2. m = [type |-> type, code |-> code, msgid |-> msgid, token |-> token, payload |-> payload]
  BY <1>1 DEF Answers
<1>3. (type = ACK => msgid = requested[a.n].msgid) /\ (code # 0 => token = requested[a.n].token)
  OBVIOUS
<1>4. a.n \in 1 .. Len(requested)
  BY <1>1 DEF Answers
<1> HIDE DEF m, type, code, payload, msgid, token
<1>5. m.type = type /\ m.code = code /\ m.payload = payload /\ m.msgid = msgid /\ m.token = token
  BY <1>2
<1> QED
  BY <1>3, <1>4, <1>5 DEF m, type, code, payload, msgid, token

(* The node that an acknowledgement finds by its id, and that a response   *)
(* finds by its token, is the one of the request that was answered.        *)
LEMMA FoundById ==
  ASSUME WireInv, NEW a \in answered, NEW k \in 1 .. Len(sendlist),
         a.answer.type = ACK, sendlist[k].msgid = CoAPDeserialize_Message(a.bytes).msgid,
         sendlist[k].msgid # 1 \/ message_id # MaxWord
  PROVE  a.n = sendlist[k].n
<1> DEFINE n == sendlist[k].n
<1>1. /\ n \in 1 .. Len(requested) /\ sendlist[k].msgid = requested[n].msgid
  BY DEF WireInv, NodesKnown, Owned
<1>2. a.n \in 1 .. Len(requested) /\ sendlist[k].msgid = requested[a.n].msgid
  BY AnswerReads DEF WireInv
<1> HIDE DEF n
<1>3. \A i, j \in 1 .. Len(requested) : i < j =>
        requested[i].msgid # requested[j].msgid \/ (requested[j].msgid = 1 /\ message_id = MaxWord)
  BY DEF WireInv, RequestsKnown, Apart
<1>4. ~(a.n < n) /\ ~(n < a.n)
  BY <1>1, <1>2, <1>3
<1>5. a.n \in Int /\ n \in Int
  BY <1>1, <1>2
<1> QED
  BY <1>4, <1>5 DEF n

LEMMA FoundByToken ==
  ASSUME WireInv, NEW a \in answered, NEW k \in 1 .. Len(sendlist),
         a.answer.code # 0, sendlist[k].token = CoAPDeserialize_Message(a.bytes).token
  PROVE  a.n = sendlist[k].n
<1> DEFINE n == sendlist[k].n
<1>1. /\ n \in 1 .. Len(requested) /\ sendlist[k].token = requested[n].token
  BY DEF WireInv, NodesKnown, Owned
<1>2. a.n \in 1 .. Len(requested) /\ sendlist[k].token = requested[a.n].token
  BY AnswerReads DEF WireInv
<1> HIDE DEF n
<1>3. \A i, j \in 1 .. Len(requested) : i < j => requested[i].token # requested[j].token
  BY DEF WireInv, RequestsKnown, Apart
<1>4. ~(a.n < n) /\ ~(n < a.n)
  BY <1>1, <1>2, <1>3
<1>5. a.n \in Int /\ n \in Int
  BY <1>1, <1>2
<1> QED
  BY <1>4, <1>5 DEF n

LEMMA FirstIsThere ==
  ASSUME NEW N, N \subseteq Nat, N # {}
  PROVE  First(N) \in N
<1>1. \E k \in N : \A j \in N : k <= j
  BY LeastOf
<1> QED
  BY <1>1 DEF First

LEMMA AckKeeps ==
  ASSUME WireInv, NEW a \in answered, ReceivesAck(CoAPDeserialize_Message(a.bytes)),
         UNCHANGED <<message_id, coap_token, requested, answered>>
  PROVE  WireInv'
<1> DEFINE m == CoAPDeserialize_Message(a.bytes)
           same == {k \in DOMAIN sendlist : sendlist[k].msgid = m.msgid}
           at == First(same)
           n == Len(sendlist)
<1>1. /\ m.code = 0 /\ m.type = ACK /\ handled' = handled
      /\ sendlist' = IF same = {} THEN sendlist ELSE [sendlist EXCEPT ![at].acked = TRUE]
  BY Zenon DEF ReceivesAck
<1>2. a.answer.type = ACK /\ a.answer.code = 0
  BY <1>1, AnswerReads DEF WireInv
<1>3. sendlist \in Seq(NodeType) /\ DOMAIN sendlist = 1 .. n /\ n \in Nat
  BY DEF WireInv, NodesKnown
<1>4. RequestsKnown' /\ AnswersKnown' /\ HandledMeant'
  BY <1>1 DEF WireInv, RequestsKnown, AnswersKnown, HandledMeant
<1>5. CASE same = {}
  <2>1. sendlist' = sendlist
    BY <1>1, <1>5
  <2> QED
    BY <1>4, <2>1 DEF WireInv, NodesKnown, AcksEarned
<1>6. CASE same # {}
  <2>1. at \in same
    <3>1. same \subseteq Nat
      BY <1>3
    <3> HIDE DEF same
    <3> QED
      BY <1>6, <3>1, FirstIsThere
  <2>2. at \in 1 .. n /\ sendlist[at].msgid = m.msgid
    BY <1>3, <2>1
  <2>3. sendlist' = [sendlist EXCEPT ![at].acked = TRUE]
    BY <1>1, <1>6
  <2> HIDE DEF at, same
  <2> DEFINE marked == [sendlist[at] EXCEPT !.acked = TRUE]
  <2>4. sendlist[at] \in NodeType
    BY <1>3, <2>2
  <2>5. /\ marked \in NodeType /\ marked.n = sendlist[at].n /\ marked.msgid = sendlist[at].msgid
        /\ marked.token = sendlist[at].token
    BY <2>4 DEF NodeType
  <2>6. sendlist' = [sendlist EXCEPT ![at] = marked]
    BY <2>3
  <2> HIDE DEF marked
  <2>7. sendlist' \in Seq(NodeType) /\ Len(sendlist') = n
    BY <1>3, <2>2, <2>5, <2>6
  <2>8. \A k \in 1 .. n : sendlist'[k] = IF k = at THEN marked ELSE sendlist[k]
    BY <1>3, <2>6
  <2>9. \A k \in 1 .. n : Owned(sendlist[k], requested) /\ Earned(sendlist[k], answered, message_id)
    BY DEF WireInv, NodesKnown, AcksEarned
  <2>10. Owned(marked, requested)
    BY <2>2, <2>5, <2>9 DEF Owned
  <2>11. Earned(marked, answered, message_id)
    <3>1. marked.msgid # 1 \/ message_id # MaxWord => a.n = marked.n
      BY <1>2, <2>2, <2>5, FoundById
    <3> QED
      BY <1>2, <3>1 DEF Earned
  <2>12. \A k \in 1 .. n : Owned(sendlist'[k], requested) /\ Earned(sendlist'[k], answered, message_id)
    BY <2>8, <2>9, <2>10, <2>11
  <2>13. NodesKnown' /\ AcksEarned'
    BY <2>7, <2>12 DEF NodesKnown, AcksEarned
  <2> QED
    BY <1>4, <2>13 DEF WireInv
<1> QED
  BY <1>5, <1>6

LEMMA ResponseKeeps ==
  ASSUME WireInv, NEW a \in answered, ReceivesResponse(CoAPDeserialize_Message(a.bytes)),
         UNCHANGED <<message_id, coap_token, requested, answered>>
  PROVE  WireInv'
<1> DEFINE m == CoAPDeserialize_Message(a.bytes)
           same == {k \in DOMAIN sendlist : sendlist[k].token = m.token}
           at == First(same)
           new == [n |-> sendlist[at].n, code |-> m.code, payload |-> m.payload]
<1>1. /\ m.code \in 64 .. 191
      /\ \/ same = {} /\ UNCHANGED <<sendlist, handled>>
         \/ /\ same # {} /\ handled' = handled \cup {new}
            /\ sendlist' = sendlist \/ sendlist' = Without(sendlist, at)
  BY Zenon DEF ReceivesResponse
<1>2. m.code = a.answer.code /\ m.payload = a.answer.payload /\ a.answer.code # 0
  <2>1. m.code = a.answer.code /\ m.payload = a.answer.payload
    BY AnswerReads DEF WireInv
  <2> HIDE DEF m
  <2> QED
    BY <1>1, <2>1
<1>3. sendlist \in Seq(NodeType) /\ DOMAIN sendlist = 1 .. Len(sendlist) /\ Len(sendlist) \in Nat
  BY DEF WireInv, NodesKnown
<1>4. RequestsKnown' /\ AnswersKnown'
  BY DEF WireInv, RequestsKnown, AnswersKnown
<1>5. CASE same = {} /\ UNCHANGED <<sendlist, handled>>
  BY <1>4, <1>5 DEF WireInv, NodesKnown, AcksEarned, HandledMeant
<1>6. CASE /\ same # {} /\ handled' = handled \cup {new}
           /\ sendlist' = sendlist \/ sendlist' = Without(sendlist, at)
  <2>1. at \in same
    <3>1. same \subseteq Nat
      BY <1>3
    <3> HIDE DEF same
    <3> QED
      BY <1>6, <3>1, FirstIsThere
  <2>2. at \in 1 .. Len(sendlist) /\ sendlist[at].token = m.token
    BY <1>3, <2>1
  <2> HIDE DEF at, same
  <2>3. a.n = sendlist[at].n
    BY <1>2, <2>2, FoundByToken
  <2>4. Meant(new, answered)
    BY <1>2, <2>3 DEF Meant
  <2> HIDE DEF new
  <2>5. HandledMeant'
    BY <1>6, <2>4 DEF WireInv, HandledMeant
  <2>6. /\ sendlist' \in Seq(NodeType)
        /\ \A j \in 1 .. Len(sendlist') : \E i \in 1 .. Len(sendlist) : sendlist'[j] = sendlist[i]
    <3>1. CASE sendlist' = sendlist
      BY <1>3, <3>1
    <3>2. CASE sendlist' = Without(sendlist, at)
      BY <1>3, <2>2, <3>2, WithoutOne
    <3> QED
      BY <1>6, <3>1, <3>2
  <2>7. NodesKnown'
    BY <2>6 DEF WireInv, NodesKnown
  <2>8. AcksEarned'
    BY <2>6 DEF WireInv, AcksEarned
  <2> QED
    BY <1>4, <2>5, <2>7, <2>8 DEF WireInv
<1> QED
  BY <1>1, <1>5, <1>6

LEMMA WireInvKept == WireInv /\ [CoapWireNext]_coapWireVars => WireInv'
<1> SUFFICES ASSUME WireInv, [CoapWireNext]_coapWireVars PROVE WireInv'
  OBVIOUS
<1>1. CASE CoapConnects
  BY <1>1, ConnectKeeps
<1>2. ASSUME NEW r \in CoapRequests, CoapSends(r) PROVE WireInv'
  BY <1>2, SendKeeps
<1>3. ASSUME NEW k \in 1 .. CoapSendsMax, CoapGivesUp(k) PROVE WireInv'
  BY <1>3, GiveUpKeeps
<1>4. ASSUME NEW n \in DOMAIN requested, NEW a \in CoapAnswers, ServerAnswers(n, a) PROVE WireInv'
  BY <1>4, AnswerKeeps
<1>5. ASSUME NEW a \in answered, CoapReceives(a) PROVE WireInv'
  <2>1. /\ \/ ReceivesAck(CoAPDeserialize_Message(a.bytes))
           \/ ReceivesResponse(CoAPDeserialize_Message(a.bytes))
        /\ UNCHANGED <<message_id, coap_token, requested, answered>>
    BY <1>5 DEF CoapReceives
  <2> QED
    BY <2>1, AckKeeps, ResponseKeeps
<1>6. CASE UNCHANGED coapWireVars
  BY <1>6 DEF coapWireVars, WireInv, RequestsKnown, NodesKnown, AnswersKnown, HandledMeant, AcksEarned
<1> QED
  BY <1>1, <1>2, <1>3, <1>4, <1>5, <1>6 DEF CoapWireNext

LEMMA WireInvHolds == CoapWireSpec => []WireInv
  BY WireInvAtFirst, WireInvKept, PTL DEF CoapWireSpec

LEMMA WireInvAnswers == WireInv => AnswerFindsItsRequest
<1> SUFFICES ASSUME WireInv PROVE AnswerFindsItsRequest
  OBVIOUS
<1>1. \A h \in handled : Meant(h, answered)
  BY DEF WireInv, HandledMeant
<1>2. DOMAIN sendlist = 1 .. Len(sendlist)
  BY DEF WireInv, NodesKnown
<1>3. \A k \in DOMAIN sendlist : Earned(sendlist[k], answered, message_id)
  BY <1>2 DEF WireInv, AcksEarned
<1> QED
  BY <1>1, <1>3 DEF AnswerFindsItsRequest, Meant, Earned

LEMMA WireInvServer == WireInv => ServerReadsTheRequest
<1> SUFFICES ASSUME WireInv PROVE ServerReadsTheRequest
  OBVIOUS
<1>1. DOMAIN requested = 1 .. Len(requested)
  BY DEF WireInv, RequestsKnown
<1>2. ASSUME NEW i \in DOMAIN requested
      PROVE  LET q == ServerReads(requested[i].bytes)
                 r == requested[i].request
             IN  /\ Len(requested[i].bytes) <= MaxPdu
                 /\ q.type = CON /\ q.code = r.code /\ q.payload = r.payload
                 /\ q.msgid = requested[i].msgid /\ q.token = requested[i].token
                 /\ q.options = Wanted(r)
  <2> DEFINE q == ServerReads(requested[i].bytes)
             e == requested[i]
  <2>1. Known(e, message_id, coap_token)
    BY <1>1 DEF WireInv, RequestsKnown
  <2>2. Carries(e.bytes, e.request, e.msgid, e.token)
    BY <2>1 DEF Known
  <2> HIDE DEF e
  <2>3. Len(e.bytes) <= MaxPdu
    BY <2>2 DEF Carries
  <2>4. ServerReads(e.bytes) = [type |-> CON, code |-> e.request.code, msgid |-> e.msgid, token |-> e.token,
                                options |-> Wanted(e.request), payload |-> e.request.payload]
    BY <2>2 DEF Carries
  <2> QED
    BY <2>3, <2>4 DEF e
<1>3. \A i, j \in DOMAIN requested :
       i < j => /\ requested[i].token # requested[j].token
                /\ requested[i].msgid # requested[j].msgid \/ requested[j].msgid = 1
  BY <1>1 DEF WireInv, RequestsKnown, Apart
<1> QED
  BY <1>2, <1>3 DEF ServerReadsTheRequest, Wanted

(* The server reads of every message what the communication interface      *)
(* asked for, in a datagram that has room, whatever the device's id, its   *)
(* password, the tokens and the payloads: the options that Options puts in *)
(* rising order come out of CoAPSerialize_Option with the numbers and the  *)
(* lengths they went in with.                                              *)
THEOREM RequestsAreRead == CoapWireSpec => []ServerReadsTheRequest
  BY WireInvHolds, WireInvServer, PTL

(* A handler runs only for an answer to its own request and with what the  *)
(* server sent (CoAPRespMessage_handle), and only an acknowledged request  *)
(* stops being sent again (CoAPAckMessage_handle), however many requests   *)
(* there are and in whatever order the answers come and come again.        *)
THEOREM AnswersFindTheirs == CoapWireSpec => []AnswerFindsItsRequest
  BY WireInvHolds, WireInvAnswers, PTL

=============================================================================
