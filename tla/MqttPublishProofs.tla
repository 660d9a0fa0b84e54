------------------------- MODULE MqttPublishProofs -------------------------
(***************************************************************************)
(* Proofs about MqttPublish: the list keeps its type and its limit, no      *)
(* thread uses a freed node, no accepted message is lost, none is resent    *)
(* after its ack, and the client implements AtLeastOnce.                    *)
(*                                                                         *)
(* The argument for the nodes is one of time.  A publisher unlinks a node   *)
(* only while it holds lock_write_buf since the push, for at most one       *)
(* request timeout plus the delay of the thread; the walk gives up its lock *)
(* only on a node older than two request timeouts.  So the node being       *)
(* retransmitted is never the one being unlinked, which is the newest, and  *)
(* the iterator's next, which is older, is not either.                      *)
(*                                                                         *)
(* The argument for the acks needs distinct packet ids, which holds as long *)
(* as the ids have not wrapped: MaxRequests <= PacketIdMax.                 *)
(***************************************************************************)
EXTENDS MqttPublish, FiniteSetTheorems, TLAPS

\* Publisher p has pushed its node and still has to send it or to unlink it.
InFlight(p) == pc[p] \in {"send", "unlink"} /\ req[p].node # Null

\* Publisher p carries a packet id that is not in the list yet.
HoldsId(p) == pc[p] \in {"lock", "push"} /\ req[p].qos = 1

Resending == pc[Yielder] \in {"relock", "resend", "resent", "lost"}

LockInv ==
    /\ \A t \in Threads :
          pc[t] \in {"push", "send", "unlink", "resend"} => lock_write_buf = t
    /\ pc[Yielder] = "iter" => lock_list_pub = Yielder

CallInv ==
    \A p \in Publishers :
        /\ pc[p] \in {"lock", "push"} => req[p].node = Null
        /\ pc[p] = "idle" => req[p] = NoCall
        /\ pc[p] = "push" => req[p].qos = 1
        /\ pc[p] = "send" /\ req[p].qos = 1 => req[p].node # Null
        /\ pc[p] = "unlink" => req[p].node # Null

InFlightInv ==
    \A p \in Publishers : InFlight(p) =>
        /\ req[p].node = pushed
        /\ req[p].node \in list_pub
        /\ node_state[req[p].node] = "NORMANL"
        /\ req[p].node \notin accepted
        /\ pc[p] = "send" => age[req[p].node] + timer[p] <= RequestTimeout
        /\ pc[p] = "unlink" =>
              age[req[p].node] + timer[p] <= RequestTimeout + SchedDelay

IterInv ==
    /\ pc[Yielder] = "iter" \/ Resending =>
          /\ iter.next # Null => iter.next \in list_pub
          /\ iter.temp # Null => /\ iter.temp \in list_pub
                                 /\ node_state[iter.temp] = "INVALID"
                                 /\ iter.next < iter.temp
    /\ Resending => /\ iter.node \in list_pub \cap accepted
                    /\ iter.next < iter.node
                    /\ iter.temp = Null
    /\ pc[Yielder] \in {"relock", "resend"} => node_state[iter.node] = "NORMANL"

AckInv ==
    /\ \A n \in list_pub : node_state[n] = "INVALID" => n \in received
    /\ \A i \in s2c : \E n \in received : msg_id[n] = i

NetInv ==
    /\ c2s \cup received \subseteq accepted
    /\ accepted \subseteq 1 .. pushed
    /\ c2s \subseteq list_pub \cup received
    /\ AcceptedNotLost
    /\ \A n \in list_pub \ accepted : \E p \in Publishers : InFlight(p) /\ req[p].node = n

IdInv ==
    /\ packet_id <= requests
    /\ \A n \in 1 .. pushed : msg_id[n] <= packet_id
    /\ \A m, n \in 1 .. pushed : msg_id[m] = msg_id[n] => m = n
    /\ \A p \in Publishers : HoldsId(p) =>
          /\ req[p].id <= packet_id
          /\ \A n \in 1 .. pushed : msg_id[n] # req[p].id
          /\ \A r \in Publishers : HoldsId(r) /\ req[r].id = req[p].id => r = p

IInv == /\ TypeOK
        /\ LockInv
        /\ CallInv
        /\ InFlightInv
        /\ IterInv
        /\ AckInv
        /\ NetInv
        /\ IdInv
-----------------------------------------------------------------------------
(* Types.                                                                    *)

USE DEF Null

LEMMA ListIsFinite ==
    ASSUME TypeOK
    PROVE  /\ IsFiniteSet(list_pub)
           /\ Cardinality(list_pub) \in Nat
  <1>1. IsFiniteSet(1 .. pushed)
    BY FS_Interval DEF TypeOK
  <1>2. IsFiniteSet(list_pub)
    BY <1>1, FS_Subset DEF TypeOK
  <1> QED
    BY <1>2, FS_CardinalityType

\* Removing a node keeps the list in its bounds.
LEMMA RemoveKeepsLimit ==
    ASSUME TypeOK, NEW n
    PROVE  /\ list_pub \ {n} \in SUBSET (1 .. pushed)
           /\ Cardinality(list_pub \ {n}) <= RepubMax
  <1>1. list_pub \ {n} \in SUBSET (1 .. pushed)
    BY DEF TypeOK
  <1>2. CASE n \in list_pub
    <2>1. Cardinality(list_pub \ {n}) = Cardinality(list_pub) - 1
      BY <1>2, ListIsFinite, FS_RemoveElement
    <2> QED
      BY <1>1, <2>1, ListIsFinite, LimitsAssumption DEF TypeOK
  <1>3. CASE n \notin list_pub
    <2>1. list_pub \ {n} = list_pub
      BY <1>3
    <2> QED
      BY <1>1, <2>1 DEF TypeOK
  <1> QED
    BY <1>2, <1>3

\* A push onto a list that is not full keeps it in its bounds.
LEMMA PushKeepsLimit ==
    ASSUME TypeOK, ~ListFull
    PROVE  /\ list_pub \cup {pushed + 1} \in SUBSET (1 .. pushed + 1)
           /\ Cardinality(list_pub \cup {pushed + 1}) <= RepubMax
  <1>1. list_pub \cup {pushed + 1} \in SUBSET (1 .. pushed + 1)
    BY LimitsAssumption DEF TypeOK
  <1>2. pushed + 1 \notin list_pub
    BY LimitsAssumption DEF TypeOK
  <1>3. Cardinality(list_pub \cup {pushed + 1}) = Cardinality(list_pub) + 1
    BY <1>2, ListIsFinite, FS_AddElement
  <1> QED
    BY <1>1, <1>3, ListIsFinite, LimitsAssumption DEF ListFull, TypeOK

LEMMA NextPacketIdType ==
    ASSUME packet_id \in Ids PROVE NextPacketId \in Ids \ {0}
  BY LimitsAssumption DEF NextPacketId, Ids

LEMMA TypeInit == Init => TypeOK
  <1> SUFFICES ASSUME Init PROVE TypeOK
    OBVIOUS
  <1>1. Cardinality({}) = 0
    BY FS_EmptySet
  <1> QED
    BY <1>1, ThreadsAssumption, LimitsAssumption, TimingAssumption
    DEF Init, TypeOK, NoCall, Ids, Nodes, AgeMax, Threads, PublisherLocs, YielderLocs

LEMMA Bounds ==
    /\ 0 \in 0 .. RequestTimeout
    /\ RequestTimeout \in 0 .. RequestTimeout
    /\ SchedDelay \in 0 .. RequestTimeout
    /\ 0 \in 0 .. AgeMax
  BY TimingAssumption DEF AgeMax

\* The control state, as TypeOK has it.
PcType == /\ pc \in [Threads -> PublisherLocs \cup YielderLocs]
          /\ pc[Yielder] \in YielderLocs
          /\ \A p \in Publishers : pc[p] \in PublisherLocs

LEMMA GotoPublisher ==
    ASSUME TypeOK, NEW p \in Publishers, NEW l \in PublisherLocs, Goto(p, l)
    PROVE  PcType'
  BY ThreadsAssumption DEF TypeOK, Goto, PcType, Threads

LEMMA GotoYielder ==
    ASSUME TypeOK, NEW l \in YielderLocs, Goto(Yielder, l)
    PROVE  PcType'
  BY ThreadsAssumption DEF TypeOK, Goto, PcType, Threads

LEMMA ReturnType ==
    ASSUME TypeOK, NEW p \in Publishers, Return(p)
    PROVE  /\ PcType'
           /\ req' \in [Publishers -> [qos : {0, 1}, id : Ids, node : Nodes \cup {Null}]]
           /\ timer' \in [Threads -> 0 .. RequestTimeout]
  <1>1. PcType'
    BY GotoPublisher DEF Return, PublisherLocs
  <1>2. NoCall \in [qos : {0, 1}, id : Ids, node : Nodes \cup {Null}]
    BY LimitsAssumption DEF NoCall, Ids
  <1>3. req' \in [Publishers -> [qos : {0, 1}, id : Ids, node : Nodes \cup {Null}]]
    BY <1>2 DEF Return, TypeOK
  <1>4. timer' \in [Threads -> 0 .. RequestTimeout]
    BY Bounds DEF Return, TypeOK
  <1> QED
    BY <1>1, <1>3, <1>4

\* Removing a node keeps the heap well typed.
LEMMA ListRemoveType ==
    ASSUME TypeOK, NEW n, ListRemove(n)
    PROVE  /\ list_pub' \in SUBSET (1 .. pushed)
           /\ Cardinality(list_pub') <= RepubMax
           /\ age' \in [Nodes -> 0 .. AgeMax]
           /\ UNCHANGED <<msg_id, node_state, pushed>>
  BY Bounds, RemoveKeepsLimit DEF ListRemove, TypeOK

LEMMA TypePublisher ==
    ASSUME TypeOK, NEW p \in Publishers, PublisherStep(p)
    PROVE  TypeOK'
  <1> USE DEF client, heap, locks, network, counters
  <1>t. Yielder \notin Publishers /\ Publishers \subseteq Threads
    BY ThreadsAssumption DEF Threads
  <1>a. TypeOK => PcType
    BY DEF TypeOK, PcType
  <1>1. ASSUME NEW q \in QosLevels, BeginPublish(p, q) PROVE TypeOK'
    <2>1. req' \in [Publishers -> [qos : {0, 1}, id : Ids, node : Nodes \cup {Null}]]
      BY <1>1, NextPacketIdType DEF BeginPublish, TypeOK
    <2>2. timer' \in [Threads -> 0 .. RequestTimeout]
      BY <1>1, Bounds DEF BeginPublish, TypeOK
    <2>3. PcType'
      BY <1>1, GotoPublisher DEF BeginPublish, PublisherLocs
    <2>4. packet_id' \in Ids /\ requests' \in 0 .. MaxRequests
      BY <1>1, NextPacketIdType, LimitsAssumption DEF BeginPublish, TypeOK
    <2> QED
      BY <1>1, <2>1, <2>2, <2>3, <2>4 DEF BeginPublish, TypeOK, PcType
  <1>2. CASE LockWriteBuf(p)
    <2>1. PcType'
      BY <1>2, GotoPublisher DEF LockWriteBuf, PublisherLocs
    <2> QED
      BY <1>2, <1>t, <2>1 DEF LockWriteBuf, TypeOK, PcType
  <1>3. CASE SerializeFail(p)
    BY <1>3, ReturnType DEF SerializeFail, TypeOK, PcType
  <1>4. CASE PushPubInfo(p)
    <2>1. PcType'
      BY <1>4, GotoPublisher DEF PushPubInfo, PublisherLocs
    <2>2. pushed' = pushed + 1 /\ pushed' \in 1 .. MaxRequests /\ pushed' \in Nodes
      BY <1>4, LimitsAssumption DEF PushPubInfo, TypeOK, Nodes
    <2>3. req' \in [Publishers -> [qos : {0, 1}, id : Ids, node : Nodes \cup {Null}]]
      BY <1>4, <2>2 DEF PushPubInfo, TypeOK
    <2>4. age' \in [Nodes -> 0 .. AgeMax]
      BY <1>4, <2>2, Bounds DEF PushPubInfo, TypeOK
    <2>5. /\ msg_id' \in [Nodes -> Ids]
          /\ node_state' \in [Nodes -> {"NORMANL", "INVALID"}]
      BY <1>4, <2>2 DEF PushPubInfo, TypeOK
    <2>6. /\ list_pub' \in SUBSET (1 .. pushed')
          /\ Cardinality(list_pub') <= RepubMax
      BY <1>4, <2>2, PushKeepsLimit DEF PushPubInfo
    <2> QED
      BY <1>4, <2>1, <2>2, <2>3, <2>4, <2>5, <2>6 DEF PushPubInfo, TypeOK, PcType
  <1>5. CASE PushPubInfoFail(p)
    BY <1>5, ReturnType DEF PushPubInfoFail, TypeOK, PcType
  <1>6. CASE SendPublish(p)
    <2>1. c2s' \in SUBSET Nodes /\ accepted' \in SUBSET Nodes
      BY <1>6 DEF SendPublish, Write, TypeOK
    <2>2. link' \in {"up", "broken", "closed", "tcp"}
      BY <1>6 DEF SendPublish, Write, TypeOK
    <2> QED
      BY <1>6, <2>1, <2>2, ReturnType DEF SendPublish, TypeOK, PcType
  <1>7. CASE SendPublishFail(p)
    <2>1. PcType'
      BY <1>7, GotoPublisher DEF SendPublishFail, PublisherLocs
    <2>2. /\ c2s' \in SUBSET Nodes /\ s2c' \in SUBSET Ids
          /\ link' \in {"up", "broken", "closed", "tcp"}
      BY <1>7 DEF SendPublishFail, WriteFails, DropInFlight, TypeOK
    <2>3. timer' \in [Threads -> 0 .. RequestTimeout]
      BY <1>7, Bounds DEF SendPublishFail, TypeOK
    <2>4. lock_write_buf' \in Threads \cup {Nobody}
      BY <1>7 DEF SendPublishFail, TypeOK
    <2> QED
      BY <1>7, <2>1, <2>2, <2>3, <2>4 DEF SendPublishFail, TypeOK, PcType
  <1>8. CASE UnlinkPublish(p)
    <2>1. PcType'
      BY <1>8, GotoPublisher DEF UnlinkPublish, PublisherLocs
    <2>2. /\ list_pub' \in SUBSET (1 .. pushed)
          /\ Cardinality(list_pub') <= RepubMax
          /\ age' \in [Nodes -> 0 .. AgeMax]
          /\ UNCHANGED <<msg_id, node_state, pushed>>
      BY <1>8, ListRemoveType DEF UnlinkPublish
    <2> QED
      BY <1>8, <2>1, <2>2 DEF UnlinkPublish, TypeOK, PcType
  <1>9. CASE PublishFail(p)
    BY <1>9, ReturnType DEF PublishFail, TypeOK, PcType
  <1> QED
    BY <1>1, <1>2, <1>3, <1>4, <1>5, <1>6, <1>7, <1>8, <1>9
    DEF PublisherStep, PublisherCall

LEMMA AdvanceType ==
    ASSUME TypeOK, NEW t \in Nodes \cup {Null}, Advance(t)
    PROVE  /\ list_pub' \in SUBSET (1 .. pushed)
           /\ Cardinality(list_pub') <= RepubMax
           /\ age' \in [Nodes -> 0 .. AgeMax]
           /\ UNCHANGED <<msg_id, node_state, pushed>>
           /\ iter' \in [next : Nodes \cup {Null}, node : Nodes \cup {Null},
                         temp : Nodes \cup {Null}]
           /\ iter.next \in Nodes
  <1>1. list_pub \subseteq Nodes
    BY LimitsAssumption DEF TypeOK, Nodes
  <1>2. iter' \in [next : Nodes \cup {Null}, node : Nodes \cup {Null},
                   temp : Nodes \cup {Null}]
    BY <1>1 DEF Advance, TypeOK
  <1>3. iter.next \in Nodes
    BY DEF Advance, TypeOK
  <1> QED
    BY <1>2, <1>3, ListRemoveType DEF Advance

LEMMA TypeYielder ==
    ASSUME TypeOK, YielderStep
    PROVE  TypeOK'
  <1> USE DEF client, heap, locks, network, counters
  <1>t. Yielder \in Threads
    BY DEF Threads
  <1>i. iter.next \in Nodes \cup {Null} /\ iter.node \in Nodes \cup {Null}
    BY DEF TypeOK
  <1>1. CASE Keepalive
    <2>1. PcType'
      BY <1>1, GotoYielder DEF Keepalive, KeepaliveIdle, PingFail, KeepaliveDisconnected,
           ReconnectTcp, ReconnectTcpFail, ReconnectSend, ReconnectDone, ReconnectFail,
           YielderLocs, TypeOK, PcType
    <2> QED
      BY <1>1, <2>1 DEF Keepalive, KeepaliveIdle, PingFail, KeepaliveDisconnected,
           ReconnectTcp, ReconnectTcpFail, ReconnectSend, ReconnectDone, ReconnectFail,
           DropInFlight, TypeOK, PcType
  <1>2. CASE Cycle
    <2>1. CASE CycleNotConnected \/ CycleReadFail \/ CycleIdle
      <3>1. PcType'
        BY <2>1, GotoYielder DEF CycleNotConnected, CycleReadFail, CycleIdle, YielderLocs
      <3> QED
        BY <2>1, <3>1 DEF CycleNotConnected, CycleReadFail, CycleIdle, TypeOK, PcType
    <2>2. ASSUME NEW id \in Ids, CyclePuback(id) PROVE TypeOK'
      <3>1. PcType'
        BY <2>2, GotoYielder DEF CyclePuback, YielderLocs
      <3> QED
        BY <2>2, <3>1 DEF CyclePuback, TypeOK, PcType
    <2> QED
      BY <1>2, <2>1, <2>2 DEF Cycle
  <1>3. CASE PubInfoProc
    <2>1. CASE PubInfoStart
      <3>1. PcType'
        BY <2>1, GotoYielder DEF PubInfoStart, YielderLocs
      <3>2. list_pub \subseteq Nodes
        BY LimitsAssumption DEF TypeOK, Nodes
      <3> QED
        BY <1>t, <2>1, <3>1, <3>2 DEF PubInfoStart, TypeOK, PcType
    <2>2. CASE PubInfoAcked
      BY <1>i, <2>2, AdvanceType DEF PubInfoAcked, TypeOK
    <2>3. CASE PubInfoSkip
      BY <2>3, AdvanceType DEF PubInfoSkip, TypeOK
    <2>4. CASE PubInfoTimeout
      <3>1. PcType'
        BY <2>4, GotoYielder DEF PubInfoTimeout, YielderLocs
      <3>2. timer' \in [Threads -> 0 .. RequestTimeout]
        BY <2>4, Bounds DEF PubInfoTimeout, TypeOK
      <3> QED
        BY <2>4, <3>1, <3>2, AdvanceType DEF PubInfoTimeout, TypeOK, PcType
    <2>5. CASE RePublishLock \/ RePublish \/ RePublishFail
      <3>1. PcType'
        BY <2>5, GotoYielder DEF RePublishLock, RePublish, RePublishFail, YielderLocs
      <3>2. timer' \in [Threads -> 0 .. RequestTimeout]
        BY <2>5, Bounds DEF RePublishLock, RePublish, RePublishFail, TypeOK
      <3>3. c2s' \in SUBSET Nodes /\ s2c' \in SUBSET Ids
            /\ link' \in {"up", "broken", "closed", "tcp"}
        BY <1>i, <2>5 DEF RePublishLock, RePublish, RePublishFail, Write, WriteFails,
             DropInFlight, TypeOK
      <3> QED
        BY <1>t, <2>5, <3>1, <3>2, <3>3
        DEF RePublishLock, RePublish, RePublishFail, TypeOK, PcType
    <2>6. CASE PubInfoResume
      <3>1. PcType'
        BY <2>6, GotoYielder DEF PubInfoResume, YielderLocs
      <3>2. age' \in [Nodes -> 0 .. AgeMax]
        BY <2>6, Bounds DEF PubInfoResume, TypeOK
      <3> QED
        BY <1>t, <2>6, <3>1, <3>2 DEF PubInfoResume, TypeOK, PcType
    <2>7. CASE PubInfoEnd
      <3>1. PcType'
        BY <2>7, GotoYielder DEF PubInfoEnd, YielderLocs
      <3> QED
        BY <2>7, <3>1, ListRemoveType DEF PubInfoEnd, TypeOK, PcType
    <2> QED
      BY <1>3, <2>1, <2>2, <2>3, <2>4, <2>5, <2>6, <2>7 DEF PubInfoProc
  <1> QED
    BY <1>1, <1>2, <1>3 DEF YielderStep

LEMMA TypeStep == TypeOK /\ [Next]_vars => TypeOK'
  <1> SUFFICES ASSUME TypeOK, [Next]_vars PROVE TypeOK'
    OBVIOUS
  <1> USE DEF client, heap, locks, network, counters
  <1>1. ASSUME NEW p \in Publishers, PublisherStep(p) PROVE TypeOK'
    BY <1>1, TypePublisher
  <1>2. CASE YielderStep
    BY <1>2, TypeYielder
  <1>3. CASE BrokerReceive
    BY <1>3 DEF BrokerReceive, TypeOK
  <1>4. CASE LinkBreak
    BY <1>4, LimitsAssumption DEF LinkBreak, DropInFlight, TypeOK
  <1>5. CASE Tick
    BY <1>5, TimingAssumption DEF Tick, Older, AgeMax, TypeOK
  <1>6. CASE UNCHANGED vars
    BY <1>6 DEF vars, TypeOK
  <1> QED
    BY <1>1, <1>2, <1>3, <1>4, <1>5, <1>6 DEF Next

\* The list of unacknowledged publishes never grows beyond RepubMax, whatever
\* the threads, the network and the broker do.
THEOREM TypeCorrect == Spec => []TypeOK
  <1>1. Init => TypeOK
    BY TypeInit
  <1>2. TypeOK /\ [Next]_vars => TypeOK'
    BY TypeStep
  <1> QED
    BY <1>1, <1>2, PTL DEF Spec
-----------------------------------------------------------------------------
(* The inductive invariant.                                                  *)

LEMMA TypeFacts ==
    ASSUME TypeOK
    PROVE  /\ pushed \in Nat /\ packet_id \in Nat /\ requests \in Nat
           /\ list_pub \subseteq 1 .. pushed /\ 1 .. pushed \subseteq Nodes
           /\ Nodes \subseteq Nat \ {Null}
           /\ age \in [Nodes -> Nat] /\ timer \in [Threads -> Nat]
           /\ msg_id \in [Nodes -> Nat]
           /\ \A p \in Publishers : req[p].node \in Nat /\ req[p].id \in Nat
           /\ iter.next \in Nat /\ iter.node \in Nat /\ iter.temp \in Nat
           /\ pc[Yielder] \in YielderLocs
           /\ \A p \in Publishers : pc[p] \in PublisherLocs
  <1>1. pushed \in Nat /\ packet_id \in Nat /\ requests \in Nat
    BY LimitsAssumption DEF TypeOK, Ids
  <1>2. list_pub \subseteq 1 .. pushed /\ 1 .. pushed \subseteq Nodes
    BY LimitsAssumption DEF TypeOK, Nodes
  <1>3. Nodes \subseteq Nat \ {Null}
    BY LimitsAssumption DEF Nodes
  <1>4. age \in [Nodes -> Nat] /\ timer \in [Threads -> Nat] /\ msg_id \in [Nodes -> Nat]
    BY LimitsAssumption, TimingAssumption DEF TypeOK, Ids, AgeMax
  <1>a. Nodes \cup {Null} \subseteq Nat /\ Ids \subseteq Nat
    BY <1>3, LimitsAssumption DEF Ids
  <1>5. \A p \in Publishers : req[p].node \in Nat /\ req[p].id \in Nat
    <2>1. \A p \in Publishers : req[p].node \in Nodes \cup {Null} /\ req[p].id \in Ids
      BY DEF TypeOK
    <2> QED
      BY <1>a, <2>1
  <1>6. iter.next \in Nat /\ iter.node \in Nat /\ iter.temp \in Nat
    <2>1. {iter.next, iter.node, iter.temp} \subseteq Nodes \cup {Null}
      BY DEF TypeOK
    <2> QED
      BY <1>a, <2>1
  <1>7. pc[Yielder] \in YielderLocs /\ \A p \in Publishers : pc[p] \in PublisherLocs
    BY DEF TypeOK
  <1> QED
    BY <1>1, <1>2, <1>3, <1>4, <1>5, <1>6, <1>7

\* What a thread that moves leaves to the others.
LEMMA GotoEffect ==
    ASSUME TypeOK, NEW t \in Threads, NEW l, Goto(t, l)
    PROVE  /\ pc'[t] = l
           /\ \A u \in Threads \ {t} : pc'[u] = pc[u]
  BY DEF TypeOK, Goto

LEMMA ReturnEffect ==
    ASSUME TypeOK, NEW p \in Publishers, Return(p)
    PROVE  /\ pc'[p] = "idle" /\ req'[p] = NoCall
           /\ \A u \in Threads \ {p} : pc'[u] = pc[u] /\ timer'[u] = timer[u]
           /\ \A r \in Publishers \ {p} : req'[r] = req[r]
  BY GotoEffect DEF TypeOK, Return, Threads

LEMMA ThreadFacts ==
    /\ Yielder \in Threads /\ Yielder \notin Publishers
    /\ Publishers \subseteq Threads /\ Nobody \notin Threads
    /\ \A t \in Threads : t = Yielder \/ t \in Publishers
  BY ThreadsAssumption DEF Threads

\* Only one publisher has a node in flight: the send buffer is locked.
LEMMA OneInFlight ==
    ASSUME LockInv, NEW p \in Publishers, NEW r \in Publishers, InFlight(p),
           \/ pc[r] \in {"push", "send", "unlink"}
           \/ lock_write_buf \in {r, Nobody, Yielder}
    PROVE  r = p
  BY ThreadFacts DEF LockInv, InFlight

-----------------------------------------------------------------------------
(* A publisher's steps.                                                      *)

\* A publisher that gives up before or after its node is in the list.
LEMMA ReturnKeeps ==
    ASSUME IInv, NEW p \in Publishers, Return(p), ~InFlight(p),
           UNCHANGED <<packet_id, heap, lock_list_pub, iter, network, accepted, requests>>,
           \/ lock_write_buf' = lock_write_buf /\ pc[p] \in {"lock", "fail"}
           \/ lock_write_buf' = Nobody /\ pc[p] = "push"
    PROVE  LockInv' /\ CallInv' /\ InFlightInv' /\ IterInv' /\ AckInv' /\ NetInv' /\ IdInv'
  <1> USE ThreadFacts, ReturnEffect DEF IInv, heap, network
  <1>1. LockInv'
    BY DEF LockInv
  <1>2. CallInv'
    BY DEF CallInv, NoCall
  <1>3. \A r \in Publishers : InFlight(r)' <=> InFlight(r)
    BY DEF InFlight, NoCall
  <1>4. InFlightInv'
    BY <1>3 DEF InFlightInv, InFlight
  <1>5. IterInv'
    BY DEF IterInv, Resending
  <1>6. AckInv'
    BY DEF AckInv
  <1>7. NetInv'
    BY <1>3 DEF NetInv, AcceptedNotLost, InFlight
  <1>8. IdInv'
    BY DEF IdInv, HoldsId
  <1> QED
    BY <1>1, <1>2, <1>4, <1>5, <1>6, <1>7, <1>8

\* BeginPublish hands out an id that no node and no other publisher has.
LEMMA BeginKeeps ==
    ASSUME IInv, NEW p \in Publishers, NEW q \in QosLevels, BeginPublish(p, q),
           MaxRequests <= PacketIdMax
    PROVE  LockInv' /\ CallInv' /\ InFlightInv' /\ IterInv' /\ AckInv' /\ NetInv' /\ IdInv'
  <1> USE ThreadFacts DEF IInv, heap, network, locks, client, counters
  <1>a. /\ pc[p] = "idle" /\ pc'[p] = "lock"
        /\ \A u \in Threads \ {p} : pc'[u] = pc[u]
    BY GotoEffect DEF BeginPublish
  <1>b. /\ \A r \in Publishers \ {p} : req'[r] = req[r]
        /\ \A u \in Threads \ {p} : timer'[u] = timer[u]
    BY DEF BeginPublish, TypeOK
  <1>c. req[p] = NoCall
    BY <1>a DEF CallInv
  <1>d. IF q = 1 THEN req'[p] = [qos |-> 1, id |-> NextPacketId, node |-> Null]
                 ELSE req'[p] = NoCall
    BY <1>c DEF BeginPublish, TypeOK
  <1>e. q \in {0, 1} /\ (q = 1 => packet_id' = packet_id + 1 /\ NextPacketId = packet_id + 1)
        /\ (q = 0 => packet_id' = packet_id) /\ requests' = requests + 1
    BY LimitsAssumption, QosAssumption, TypeFacts DEF BeginPublish, NextPacketId, IdInv, TypeOK
  <1>f. UNCHANGED <<list_pub, msg_id, node_state, age, pushed, lock_list_pub, lock_write_buf,
                    iter, c2s, s2c, received, accepted>>
    BY DEF BeginPublish
  <1>1. LockInv'
    BY <1>a, <1>f DEF LockInv
  <1>2. CallInv'
    BY <1>a, <1>b, <1>d, <1>e DEF CallInv, NoCall
  <1>3. \A r \in Publishers : InFlight(r)' <=> InFlight(r)
    BY <1>a, <1>b DEF InFlight
  <1>4. InFlightInv'
    BY <1>3, <1>a, <1>b, <1>f DEF InFlightInv, InFlight
  <1>5. IterInv'
    BY <1>a, <1>f DEF IterInv, Resending
  <1>6. AckInv'
    BY <1>f DEF AckInv
  <1>7. NetInv'
    BY <1>3, <1>a, <1>b, <1>f DEF NetInv, AcceptedNotLost, InFlight
  <1>8. IdInv'
    <2>1. CASE q = 0
      BY <2>1, <1>a, <1>b, <1>d, <1>e, <1>f, TypeFacts DEF IdInv, HoldsId, NoCall
    <2>2. CASE q = 1
      <3>1. /\ packet_id' <= requests'
            /\ \A n \in 1 .. pushed : msg_id[n] <= packet_id' /\ msg_id[n] # req'[p].id
        BY <2>2, <1>d, <1>e, TypeFacts DEF IdInv
      <3>2. \A r \in Publishers : HoldsId(r)' <=> (r = p \/ HoldsId(r))
        BY <2>2, <1>a, <1>b, <1>d DEF HoldsId
      <3>3. \A r \in Publishers \ {p} :
               HoldsId(r) => /\ req'[r].id <= packet_id'
                             /\ req'[r].id # req'[p].id
                             /\ \A n \in 1 .. pushed : msg_id[n] # req'[r].id
        BY <2>2, <1>b, <1>d, <1>e, TypeFacts DEF IdInv
      <3>4. req'[p].id <= packet_id'
        BY <2>2, <1>d, <1>e, TypeFacts
      <3> QED
        BY <3>1, <3>2, <3>3, <3>4, <1>a, <1>b, <1>f DEF IdInv, HoldsId
    <2> QED
      BY <1>e, <2>1, <2>2
  <1> QED
    BY <1>1, <1>2, <1>4, <1>5, <1>6, <1>7, <1>8

LEMMA LockWriteBufKeeps ==
    ASSUME IInv, NEW p \in Publishers, LockWriteBuf(p)
    PROVE  LockInv' /\ CallInv' /\ InFlightInv' /\ IterInv' /\ AckInv' /\ NetInv' /\ IdInv'
  <1> USE ThreadFacts DEF IInv, heap, network, locks, client, counters
  <1>a. /\ pc[p] = "lock" /\ pc'[p] = IF req[p].qos = 1 THEN "push" ELSE "send"
        /\ \A u \in Threads \ {p} : pc'[u] = pc[u]
    BY GotoEffect DEF LockWriteBuf
  <1>f. /\ UNCHANGED <<list_pub, msg_id, node_state, age, pushed, lock_list_pub, iter, c2s,
                       s2c, received, accepted, req, timer, packet_id, requests>>
        /\ lock_write_buf = Nobody /\ lock_write_buf' = p
    BY DEF LockWriteBuf
  <1>1. LockInv'
    BY <1>a, <1>f DEF LockInv
  <1>2. CallInv'
    BY <1>a, <1>f DEF CallInv
  <1>3. \A r \in Publishers : InFlight(r)' <=> InFlight(r)
    BY <1>a, <1>f DEF InFlight, CallInv
  <1>4. InFlightInv'
    BY <1>3, <1>a, <1>f DEF InFlightInv, InFlight
  <1>5. IterInv'
    BY <1>a, <1>f DEF IterInv, Resending
  <1>6. AckInv'
    BY <1>f DEF AckInv
  <1>7. NetInv'
    BY <1>3, <1>a, <1>f DEF NetInv, AcceptedNotLost, InFlight
  <1>8. IdInv'
    BY <1>a, <1>f DEF IdInv, HoldsId
  <1> QED
    BY <1>1, <1>2, <1>4, <1>5, <1>6, <1>7, <1>8

\* The pushed node is the newest one and the only one in flight.
LEMMA PushKeeps ==
    ASSUME IInv, NEW p \in Publishers, PushPubInfo(p)
    PROVE  LockInv' /\ CallInv' /\ InFlightInv' /\ IterInv' /\ AckInv' /\ NetInv' /\ IdInv'
  <1> USE ThreadFacts DEF IInv, heap, network, locks, client, counters
  <1> DEFINE n == pushed + 1
  <1>a. /\ pc[p] = "push" /\ pc'[p] = "send"
        /\ \A u \in Threads \ {p} : pc'[u] = pc[u]
    BY GotoEffect DEF PushPubInfo
  <1>b. /\ n \in Nodes /\ n \in Nat /\ n # Null /\ pushed' = n /\ list_pub' = list_pub \cup {n}
        /\ n \notin list_pub /\ 1 .. n = (1 .. pushed) \cup {n} /\ n \notin 1 .. pushed
    <2>1. pushed' = n /\ list_pub' = list_pub \cup {n} /\ pushed < MaxRequests
      BY DEF PushPubInfo
    <2>2. pushed \in Nat /\ list_pub \subseteq 1 .. pushed
      BY TypeFacts
    <2>3. n \in Nodes
      BY <2>1, <2>2, LimitsAssumption DEF Nodes
    <2>4. 1 .. n = (1 .. pushed) \cup {n} /\ n \notin 1 .. pushed /\ n \in Nat /\ n # Null
      BY <2>2
    <2> QED
      BY <2>1, <2>2, <2>3, <2>4
  <1>c. /\ msg_id'[n] = req[p].id /\ node_state'[n] = "NORMANL" /\ age'[n] = 0
        /\ \A m \in Nodes \ {n} : /\ msg_id'[m] = msg_id[m]
                                  /\ node_state'[m] = node_state[m]
                                  /\ age'[m] = age[m]
    BY <1>b DEF PushPubInfo, TypeOK
  <1>d. /\ req'[p].node = n /\ req'[p].qos = 1 /\ req'[p].id = req[p].id
        /\ \A r \in Publishers \ {p} : req'[r] = req[r]
    BY <1>a, <1>b DEF PushPubInfo, TypeOK, CallInv
  <1>f. UNCHANGED <<lock_list_pub, lock_write_buf, iter, c2s, s2c, received, accepted, timer,
                    packet_id, requests>>
    BY DEF PushPubInfo
  <1>g. \A r \in Publishers : InFlight(r)' <=> r = p
    <2>1. \A r \in Publishers \ {p} : ~InFlight(r)
      BY <1>a, OneInFlight
    <2> QED
      BY <2>1, <1>a, <1>b, <1>d DEF InFlight
  <1>1. LockInv'
    BY <1>a, <1>f DEF LockInv
  <1>2. CallInv'
    BY <1>a, <1>b, <1>d DEF CallInv
  <1>4. InFlightInv'
    <2>1. n \notin accepted
      BY <1>b DEF NetInv
    <2>2. timer[p] <= RequestTimeout /\ timer[p] \in Nat
      BY TimingAssumption DEF TypeOK
    <2>3. age'[n] + timer'[p] <= RequestTimeout
      BY <1>c, <1>f, <2>2, TimingAssumption
    <2> QED
      BY <1>a, <1>b, <1>c, <1>d, <1>f, <1>g, <2>1, <2>3 DEF InFlightInv
  <1>5. IterInv'
    <2>1. list_pub \subseteq Nodes \ {n}
      BY <1>b, TypeFacts
    <2> QED
      BY <1>a, <1>b, <1>c, <1>f, <2>1 DEF IterInv, Resending
  <1>6. AckInv'
    <2>1. list_pub \subseteq Nodes \ {n} /\ received \subseteq Nodes \ {n}
      BY <1>b, TypeFacts DEF NetInv
    <2> QED
      BY <1>b, <1>c, <1>f, <2>1 DEF AckInv
  <1>7. NetInv'
    <2>1. \A m \in list_pub' \ accepted' : m = n
      <3>1. \A m \in list_pub \ accepted : \E r \in Publishers : InFlight(r)
        BY DEF NetInv
      <3>2. ~\E r \in Publishers : InFlight(r)
        BY <1>a, OneInFlight DEF InFlight
      <3> QED
        BY <1>b, <1>f, <3>1, <3>2
    <2>2. InFlight(p)' /\ req'[p].node = n
      BY <1>d, <1>g
    <2> QED
      BY <1>b, <1>f, <2>1, <2>2 DEF NetInv, AcceptedNotLost
  <1>8. IdInv'
    <2>1. HoldsId(p)
      BY <1>a DEF HoldsId, CallInv
    <2>2. \A r \in Publishers : HoldsId(r)' <=> HoldsId(r) /\ r # p
      BY <1>a, <1>d DEF HoldsId
    <2>3. \A m \in 1 .. pushed : msg_id'[m] = msg_id[m]
      BY <1>b, <1>c, TypeFacts
    <2>4. \A r \in Publishers \ {p} : HoldsId(r) => req[r].id # req[p].id
      BY <2>1 DEF IdInv
    <2> QED
      BY <1>b, <1>c, <1>d, <1>f, <2>1, <2>2, <2>3, <2>4 DEF IdInv
  <1> QED
    BY <1>1, <1>2, <1>4, <1>5, <1>6, <1>7, <1>8

\* The message is on the wire: its node is no longer the publisher's to unlink.
LEMMA SendKeeps ==
    ASSUME IInv, NEW p \in Publishers, SendPublish(p)
    PROVE  LockInv' /\ CallInv' /\ InFlightInv' /\ IterInv' /\ AckInv' /\ NetInv' /\ IdInv'
  <1> USE ThreadFacts DEF IInv, heap, network, locks, client, counters
  <1> DEFINE n == req[p].node
  <1>a. /\ pc[p] = "send" /\ pc'[p] = "idle" /\ req'[p] = NoCall
        /\ \A u \in Threads \ {p} : pc'[u] = pc[u] /\ timer'[u] = timer[u]
        /\ \A r \in Publishers \ {p} : req'[r] = req[r]
    BY ReturnEffect DEF SendPublish
  <1>b. c2s' \subseteq c2s \cup ({n} \ {Null}) /\ accepted' = accepted \cup ({n} \ {Null})
    BY DEF SendPublish, Write
  <1>f. /\ UNCHANGED <<list_pub, msg_id, node_state, age, pushed, lock_list_pub, iter, s2c,
                       received, packet_id, requests>>
        /\ lock_write_buf' = Nobody /\ lock_write_buf = p
    BY <1>a DEF SendPublish, LockInv
  <1>g. \A r \in Publishers : ~InFlight(r)'
    <2>1. \A r \in Publishers \ {p} : pc[r] \notin {"send", "unlink"}
      BY <1>f DEF LockInv
    <2> QED
      BY <2>1, <1>a DEF InFlight, NoCall
  <1>h. n # Null => n \in list_pub
    BY <1>a DEF InFlightInv, InFlight
  <1>1. LockInv'
    BY <1>a, <1>f DEF LockInv
  <1>2. CallInv'
    BY <1>a DEF CallInv, NoCall
  <1>4. InFlightInv'
    BY <1>g DEF InFlightInv
  <1>5. IterInv'
    BY <1>a, <1>b, <1>f DEF IterInv, Resending
  <1>6. AckInv'
    BY <1>f DEF AckInv
  <1>7. NetInv'
    <2>1. \A r \in Publishers : InFlight(r) => r = p
      BY <1>f DEF LockInv, InFlight
    <2>2. \A m \in list_pub \ accepted : m = n /\ m # Null
      BY <2>1 DEF NetInv, InFlight
    <2>3. list_pub' \subseteq accepted'
      BY <2>2, <1>b, <1>f
    <2>4. accepted' \subseteq 1 .. pushed'
      BY <1>b, <1>f, <1>h, TypeFacts DEF NetInv
    <2>5. c2s' \subseteq list_pub' \cup received'
      BY <1>b, <1>f, <1>h DEF NetInv
    <2>6. AcceptedNotLost'
      BY <1>b, <1>f, <1>h DEF NetInv, AcceptedNotLost
    <2>7. c2s' \cup received' \subseteq accepted'
      BY <1>b, <1>f DEF NetInv
    <2> QED
      BY <2>3, <2>4, <2>5, <2>6, <2>7 DEF NetInv
  <1>8. IdInv'
    BY <1>a, <1>f DEF IdInv, HoldsId, NoCall
  <1> QED
    BY <1>1, <1>2, <1>4, <1>5, <1>6, <1>7, <1>8

LEMMA SendFailKeeps ==
    ASSUME IInv, NEW p \in Publishers, SendPublishFail(p)
    PROVE  LockInv' /\ CallInv' /\ InFlightInv' /\ IterInv' /\ AckInv' /\ NetInv' /\ IdInv'
  <1> USE ThreadFacts DEF IInv, heap, network, locks, client, counters
  <1> DEFINE n == req[p].node
  <1>a. /\ pc[p] = "send" /\ pc'[p] = IF n # Null THEN "unlink" ELSE "fail"
        /\ \A u \in Threads \ {p} : pc'[u] = pc[u]
    BY GotoEffect DEF SendPublishFail
  <1>b. /\ n # Null => timer'[p] = SchedDelay /\ lock_write_buf' = lock_write_buf
        /\ n = Null => lock_write_buf' = Nobody
        /\ \A u \in Threads \ {p} : timer'[u] = timer[u]
    BY DEF SendPublishFail, TypeOK
  <1>c. c2s' \subseteq c2s /\ s2c' \subseteq s2c
    BY DEF SendPublishFail, DropInFlight
  <1>f. /\ UNCHANGED <<list_pub, msg_id, node_state, age, pushed, lock_list_pub, iter, req,
                       received, accepted, packet_id, requests>>
        /\ lock_write_buf = p
    BY <1>a DEF SendPublishFail, LockInv
  <1>g. \A r \in Publishers : InFlight(r)' <=> InFlight(r)
    BY <1>a, <1>f DEF InFlight
  <1>1. LockInv'
    BY <1>a, <1>b, <1>f DEF LockInv
  <1>2. CallInv'
    BY <1>a, <1>f DEF CallInv
  <1>4. InFlightInv'
    <2>1. \A r \in Publishers : InFlight(r) => r = p
      BY <1>f DEF LockInv, InFlight
    <2>2. InFlight(p) => age[n] + timer'[p] <= RequestTimeout + SchedDelay
      <3> SUFFICES ASSUME InFlight(p) PROVE age[n] + SchedDelay <= RequestTimeout + SchedDelay
        BY <1>b DEF InFlight
      <3>1. age[n] + timer[p] <= RequestTimeout /\ n \in Nodes
        BY <1>a, TypeFacts DEF InFlightInv
      <3>2. age[n] \in Nat /\ timer[p] \in Nat
        BY <3>1, TypeFacts
      <3> QED
        BY <3>1, <3>2, TimingAssumption
    <2> QED
      BY <1>a, <1>f, <1>g, <2>1, <2>2 DEF InFlightInv
  <1>5. IterInv'
    BY <1>a, <1>f DEF IterInv, Resending
  <1>6. AckInv'
    BY <1>c, <1>f DEF AckInv
  <1>7. NetInv'
    BY <1>c, <1>f, <1>g DEF NetInv, AcceptedNotLost
  <1>8. IdInv'
    BY <1>a, <1>f DEF IdInv, HoldsId
  <1> QED
    BY <1>1, <1>2, <1>4, <1>5, <1>6, <1>7, <1>8

\* The unlinked node was accepted by nobody, is not the one being resent, and is
\* newer than the iterator's next.
LEMMA UnlinkKeeps ==
    ASSUME IInv, NEW p \in Publishers, UnlinkPublish(p)
    PROVE  LockInv' /\ CallInv' /\ InFlightInv' /\ IterInv' /\ AckInv' /\ NetInv' /\ IdInv'
  <1> USE ThreadFacts DEF IInv, heap, network, locks, client, counters
  <1> DEFINE n == req[p].node
  <1>a. /\ pc[p] = "unlink" /\ pc'[p] = "fail" /\ InFlight(p)
        /\ \A u \in Threads \ {p} : pc'[u] = pc[u]
    BY GotoEffect DEF UnlinkPublish, InFlight, CallInv
  <1>b. /\ n = pushed /\ n \in list_pub /\ n \notin accepted /\ list_pub' = list_pub \ {n}
    BY <1>a DEF UnlinkPublish, ListRemove, InFlightInv
  <1>f. /\ UNCHANGED <<msg_id, node_state, pushed, lock_list_pub, iter, req, c2s, s2c,
                       received, accepted, packet_id, requests>>
        /\ lock_write_buf = p /\ lock_write_buf' = Nobody /\ lock_list_pub = Nobody
    BY <1>a DEF UnlinkPublish, ListRemove, LockInv
  <1>g. \A r \in Publishers : ~InFlight(r)'
    <2>1. \A r \in Publishers \ {p} : pc[r] \notin {"send", "unlink"}
      BY <1>f DEF LockInv
    <2> QED
      BY <2>1, <1>a DEF InFlight
  <1>1. LockInv'
    BY <1>a, <1>f DEF LockInv
  <1>2. CallInv'
    BY <1>a, <1>f DEF CallInv
  <1>4. InFlightInv'
    BY <1>g DEF InFlightInv
  <1>5. IterInv'
    <2>1. pc[Yielder] # "iter"
      BY <1>f DEF LockInv
    <2>2. Resending => n # iter.node /\ n # iter.next
      <3> SUFFICES ASSUME Resending PROVE n # iter.node /\ n # iter.next
        OBVIOUS
      <3>1. iter.node \in accepted /\ iter.node \in 1 .. pushed /\ iter.next < iter.node
        BY TypeFacts DEF IterInv
      <3> QED
        BY <3>1, <1>b, TypeFacts
    <2> QED
      BY <1>a, <1>b, <1>f, <2>1, <2>2 DEF IterInv, Resending
  <1>6. AckInv'
    BY <1>b, <1>f DEF AckInv
  <1>7. NetInv'
    <2>1. \A r \in Publishers : InFlight(r) => r = p
      BY <1>f DEF LockInv, InFlight
    <2>2. \A m \in list_pub \ accepted : m = n
      BY <2>1 DEF NetInv
    <2>3. list_pub' \subseteq accepted'
      BY <2>2, <1>b, <1>f
    <2>4. n \notin c2s /\ n \notin received
      BY <1>b DEF NetInv
    <2> QED
      BY <2>3, <2>4, <1>b, <1>f DEF NetInv, AcceptedNotLost
  <1>8. IdInv'
    BY <1>a, <1>f DEF IdInv, HoldsId
  <1> QED
    BY <1>1, <1>2, <1>4, <1>5, <1>6, <1>7, <1>8

LEMMA PublisherKeeps ==
    ASSUME IInv, NEW p \in Publishers, PublisherStep(p), MaxRequests <= PacketIdMax
    PROVE  IInv'
  <1>t. TypeOK'
    BY TypePublisher DEF IInv
  <1>1. ASSUME NEW q \in QosLevels, BeginPublish(p, q) PROVE IInv'
    BY <1>1, <1>t, BeginKeeps DEF IInv
  <1>2. CASE LockWriteBuf(p)
    BY <1>2, <1>t, LockWriteBufKeeps DEF IInv
  <1>3. CASE SerializeFail(p) \/ PushPubInfoFail(p) \/ PublishFail(p)
    <2>1. /\ Return(p) /\ ~InFlight(p)
          /\ UNCHANGED <<packet_id, heap, lock_list_pub, iter, network, accepted, requests>>
          /\ \/ lock_write_buf' = lock_write_buf /\ pc[p] \in {"lock", "fail"}
             \/ lock_write_buf' = Nobody /\ pc[p] = "push"
      BY <1>3 DEF SerializeFail, PushPubInfoFail, PublishFail, InFlight, client, locks, counters
    <2> QED
      BY <1>t, <2>1, ReturnKeeps DEF IInv
  <1>4. CASE PushPubInfo(p)
    BY <1>4, <1>t, PushKeeps DEF IInv
  <1>5. CASE SendPublish(p)
    BY <1>5, <1>t, SendKeeps DEF IInv
  <1>6. CASE SendPublishFail(p)
    BY <1>6, <1>t, SendFailKeeps DEF IInv
  <1>7. CASE UnlinkPublish(p)
    BY <1>7, <1>t, UnlinkKeeps DEF IInv
  <1> QED
    BY <1>1, <1>2, <1>3, <1>4, <1>5, <1>6, <1>7 DEF PublisherStep, PublisherCall
-----------------------------------------------------------------------------
(* The yield thread's steps.                                                 *)

\* Steps that touch neither the list nor what the publishers are doing.
Quiet ==
    /\ UNCHANGED <<packet_id, heap, locks, req, timer, iter, received, accepted, requests>>
    /\ c2s' \subseteq c2s /\ s2c' \subseteq s2c
    /\ \A p \in Publishers : pc'[p] = pc[p]
    /\ \/ pc'[Yielder] = pc[Yielder]
       \/ pc'[Yielder] \in {"keepalive", "connect", "connack", "cycle", "proc"}

LEMMA QuietKeeps ==
    ASSUME IInv, Quiet
    PROVE  LockInv' /\ CallInv' /\ InFlightInv' /\ IterInv' /\ AckInv' /\ NetInv' /\ IdInv'
  <1> USE ThreadFacts DEF IInv, Quiet, heap, locks
  <1>1. LockInv'
    BY DEF LockInv
  <1>2. CallInv'
    BY DEF CallInv
  <1>3. \A r \in Publishers : InFlight(r)' <=> InFlight(r)
    BY DEF InFlight
  <1>4. InFlightInv'
    BY <1>3 DEF InFlightInv
  <1>5. IterInv'
    BY DEF IterInv, Resending
  <1>6. AckInv'
    BY DEF AckInv
  <1>7. NetInv'
    BY <1>3 DEF NetInv, AcceptedNotLost
  <1>8. IdInv'
    BY DEF IdInv, HoldsId
  <1> QED
    BY <1>1, <1>2, <1>4, <1>5, <1>6, <1>7, <1>8

LEMMA KeepaliveIsQuiet ==
    ASSUME TypeOK, Keepalive \/ CycleNotConnected \/ CycleReadFail \/ CycleIdle
    PROVE  Quiet
  <1> USE ThreadFacts DEF client, heap, locks, network, counters
  <1>1. /\ UNCHANGED <<packet_id, heap, locks, req, timer, iter, received, accepted, requests>>
        /\ c2s' \subseteq c2s /\ s2c' \subseteq s2c
    BY DEF Keepalive, KeepaliveIdle, PingFail, KeepaliveDisconnected, ReconnectTcp,
           ReconnectTcpFail, ReconnectSend, ReconnectDone, ReconnectFail, DropInFlight,
           CycleNotConnected, CycleReadFail, CycleIdle
  <1>2. \/ UNCHANGED pc
        \/ \E l \in {"keepalive", "connect", "connack", "cycle", "proc"} : Goto(Yielder, l)
    BY DEF Keepalive, KeepaliveIdle, PingFail, KeepaliveDisconnected, ReconnectTcp,
           ReconnectTcpFail, ReconnectSend, ReconnectDone, ReconnectFail,
           CycleNotConnected, CycleReadFail, CycleIdle
  <1> QED
    BY <1>1, <1>2, GotoEffect DEF Quiet

\* An ack marks a node the broker has received, never one in flight: the ids of
\* the pushed nodes differ.
LEMMA PubackKeeps ==
    ASSUME IInv, NEW id \in Ids, CyclePuback(id)
    PROVE  LockInv' /\ CallInv' /\ InFlightInv' /\ IterInv' /\ AckInv' /\ NetInv' /\ IdInv'
  <1> USE ThreadFacts DEF IInv, heap, locks, network, client, counters
  <1>a. /\ pc[Yielder] = "cycle" /\ pc'[Yielder] = "proc"
        /\ \A u \in Threads \ {Yielder} : pc'[u] = pc[u]
    BY GotoEffect DEF CyclePuback
  <1>f. UNCHANGED <<list_pub, msg_id, age, pushed, lock_list_pub, lock_write_buf, iter, req,
                    c2s, received, accepted, timer, packet_id, requests>>
    BY DEF CyclePuback
  <1>b. \A n \in list_pub : msg_id[n] = id => n \in received
    <2>1. PICK m \in received : msg_id[m] = id
      BY DEF CyclePuback, AckInv
    <2>2. m \in 1 .. pushed /\ list_pub \subseteq 1 .. pushed
      BY TypeFacts DEF NetInv
    <2> QED
      BY <2>1, <2>2 DEF IdInv
  <1>c. \A n \in list_pub : node_state'[n] = node_state[n] \/ n \in received
    BY <1>b, TypeFacts DEF CyclePuback, Acks
  <1>g. \A r \in Publishers : InFlight(r)' <=> InFlight(r)
    BY <1>a, <1>f DEF InFlight
  <1>1. LockInv'
    BY <1>a, <1>f DEF LockInv
  <1>2. CallInv'
    BY <1>a, <1>f DEF CallInv
  <1>4. InFlightInv'
    <2>1. \A r \in Publishers : InFlight(r) => req[r].node \notin received
      BY DEF InFlightInv, NetInv
    <2> QED
      BY <1>a, <1>c, <1>f, <1>g, <2>1 DEF InFlightInv
  <1>5. IterInv'
    BY <1>a DEF IterInv, Resending
  <1>6. AckInv'
    BY <1>c, <1>f DEF AckInv, CyclePuback
  <1>7. NetInv'
    BY <1>a, <1>f, <1>g DEF NetInv, AcceptedNotLost
  <1>8. IdInv'
    BY <1>a, <1>f DEF IdInv, HoldsId
  <1> QED
    BY <1>1, <1>2, <1>4, <1>5, <1>6, <1>7, <1>8

LEMMA StartKeeps ==
    ASSUME IInv, PubInfoStart
    PROVE  LockInv' /\ CallInv' /\ InFlightInv' /\ IterInv' /\ AckInv' /\ NetInv' /\ IdInv'
  <1> USE ThreadFacts DEF IInv, heap, locks, network, client, counters
  <1>a. /\ pc[Yielder] = "proc" /\ pc'[Yielder] \in {"keepalive", "iter"}
        /\ \A u \in Threads \ {Yielder} : pc'[u] = pc[u]
    BY GotoEffect DEF PubInfoStart
  <1>b. pc'[Yielder] = "iter" => /\ lock_list_pub' = Yielder
                                 /\ iter'.next \in list_pub /\ iter'.temp = Null
    BY GotoEffect DEF PubInfoStart
  <1>f. UNCHANGED <<list_pub, msg_id, node_state, age, pushed, lock_write_buf, req, c2s, s2c,
                    received, accepted, timer, packet_id, requests>>
    BY DEF PubInfoStart
  <1>g. \A r \in Publishers : InFlight(r)' <=> InFlight(r)
    BY <1>a, <1>f DEF InFlight
  <1>1. LockInv'
    BY <1>a, <1>b, <1>f DEF LockInv
  <1>2. CallInv'
    BY <1>a, <1>f DEF CallInv
  <1>4. InFlightInv'
    BY <1>a, <1>f, <1>g DEF InFlightInv
  <1>5. IterInv'
    BY <1>a, <1>b, <1>f DEF IterInv, Resending
  <1>6. AckInv'
    BY <1>f DEF AckInv
  <1>7. NetInv'
    BY <1>a, <1>f, <1>g DEF NetInv, AcceptedNotLost
  <1>8. IdInv'
    BY <1>a, <1>f DEF IdInv, HoldsId
  <1> QED
    BY <1>1, <1>2, <1>4, <1>5, <1>6, <1>7, <1>8

\* The condemned node may go: the broker has received its message.
LEMMA RemoveTempKeeps ==
    ASSUME IInv, pc[Yielder] = "iter", ListRemove(iter.temp),
           UNCHANGED <<lock_write_buf, req, c2s, s2c, received, accepted, packet_id, requests>>,
           \A u \in Publishers : pc'[u] = pc[u] /\ timer'[u] = timer[u],
           pc'[Yielder] \in {"iter", "relock", "keepalive"}
    PROVE  /\ CallInv' /\ InFlightInv' /\ AckInv' /\ NetInv' /\ IdInv'
           /\ \A t \in Threads :
                 pc'[t] \in {"push", "send", "unlink", "resend"} => lock_write_buf' = t
           /\ iter.next # Null => iter.next \in list_pub'
           /\ \A n \in list_pub' : age'[n] = age[n]
           /\ UNCHANGED <<msg_id, node_state, pushed>>
  <1> USE ThreadFacts DEF IInv
  <1>a. /\ list_pub' = list_pub \ {iter.temp}
        /\ \A n \in list_pub' : age'[n] = age[n]
        /\ UNCHANGED <<msg_id, node_state, pushed>>
    BY TypeFacts DEF ListRemove
  <1>b. iter.temp # Null => /\ iter.temp \in list_pub /\ node_state[iter.temp] = "INVALID"
                            /\ iter.temp \in received /\ iter.next # iter.temp
    BY TypeFacts DEF IterInv, AckInv
  <1>c. iter.temp = Null => list_pub' = list_pub
    BY <1>a, TypeFacts
  <1>g. \A r \in Publishers : InFlight(r)' <=> InFlight(r)
    BY DEF InFlight
  <1>2. CallInv'
    BY DEF CallInv
  <1>4. InFlightInv'
    <2>1. \A r \in Publishers : InFlight(r) => req[r].node \in list_pub'
      BY <1>a, <1>b, <1>c DEF InFlightInv
    <2> QED
      BY <1>a, <1>g, <2>1 DEF InFlightInv
  <1>6. AckInv'
    BY <1>a DEF AckInv
  <1>7. NetInv'
    BY <1>a, <1>b, <1>c, <1>g DEF NetInv, AcceptedNotLost
  <1>8. IdInv'
    BY <1>a DEF IdInv, HoldsId
  <1>9. iter.next # Null => iter.next \in list_pub'
    BY <1>a, <1>b, <1>c DEF IterInv
  <1> QED
    BY <1>2, <1>4, <1>6, <1>7, <1>8, <1>9, <1>a DEF LockInv

\* list_iterator_next returns a linked node and prefetches an older one.
LEMMA AdvanceFacts ==
    ASSUME IInv, NEW t, Advance(t)
    PROVE  /\ pc[Yielder] = "iter" /\ ListRemove(iter.temp)
           /\ iter.next \in list_pub \ {iter.temp}
           /\ iter'.node = iter.next /\ iter'.temp = t
           /\ iter'.next # Null => iter'.next \in list_pub \ {iter.temp}
           /\ iter'.next < iter.next
  <1> USE DEF IInv
  <1>1. pc[Yielder] = "iter" /\ ListRemove(iter.temp) /\ iter.next # Null
    BY DEF Advance
  <1>2. iter.next \in list_pub /\ iter.next # iter.temp
    BY <1>1, TypeFacts DEF IterInv
  <1>3. PICK k \in list_pub \cup {Null} :
           IsPrev(k, iter.next) /\ iter' = [next |-> k, node |-> iter.next, temp |-> t]
    BY DEF Advance
  <1>4. k < iter.next
    BY <1>2, <1>3, TypeFacts DEF IsPrev
  <1>5. k # Null => k \in list_pub \ {iter.temp}
    <2>1. iter.temp # Null => iter.next < iter.temp
      BY <1>1, <1>2 DEF IterInv
    <2> QED
      BY <1>3, <1>4, <2>1, TypeFacts
  <1> QED
    BY <1>1, <1>2, <1>3, <1>4, <1>5

LEMMA WalkKeeps ==
    ASSUME IInv, PubInfoAcked \/ PubInfoSkip
    PROVE  LockInv' /\ CallInv' /\ InFlightInv' /\ IterInv' /\ AckInv' /\ NetInv' /\ IdInv'
  <1> USE ThreadFacts DEF IInv, locks, network, client, counters
  <1>a. PICK t \in {Null, iter.next} :
           /\ Advance(t)
           /\ t # Null => ~WaitsForAck(iter.next)
    BY DEF PubInfoAcked, PubInfoSkip
  <1>f. UNCHANGED <<pc, lock_list_pub, lock_write_buf, req, c2s, s2c, received, accepted, timer,
                    packet_id, requests>>
    BY DEF PubInfoAcked, PubInfoSkip
  <1>b. /\ pc[Yielder] = "iter" /\ ListRemove(iter.temp)
        /\ iter.next \in list_pub \ {iter.temp}
        /\ iter'.node = iter.next /\ iter'.temp = t
        /\ iter'.next # Null => iter'.next \in list_pub \ {iter.temp}
        /\ iter'.next < iter.next
    BY <1>a, AdvanceFacts
  <1>c. /\ CallInv' /\ InFlightInv' /\ AckInv' /\ NetInv' /\ IdInv'
        /\ \A u \in Threads :
              pc'[u] \in {"push", "send", "unlink", "resend"} => lock_write_buf' = u
        /\ UNCHANGED <<msg_id, node_state, pushed>>
    BY <1>b, <1>f, RemoveTempKeeps
  <1>1. LockInv'
    BY <1>b, <1>c, <1>f DEF LockInv
  <1>2. t # Null => node_state[t] = "INVALID"
    BY <1>a, <1>b, TypeFacts DEF WaitsForAck, TypeOK
  <1>5. IterInv'
    BY <1>b, <1>c, <1>f, <1>2 DEF IterInv, Resending, ListRemove
  <1> QED
    BY <1>1, <1>5, <1>c

\* A node old enough to be resent has been accepted: one in flight is younger.
LEMMA TimeoutKeeps ==
    ASSUME IInv, PubInfoTimeout
    PROVE  LockInv' /\ CallInv' /\ InFlightInv' /\ IterInv' /\ AckInv' /\ NetInv' /\ IdInv'
  <1> USE ThreadFacts DEF IInv, locks, network, client, counters
  <1>b. /\ pc[Yielder] = "iter" /\ ListRemove(iter.temp)
        /\ iter.next \in list_pub \ {iter.temp}
        /\ iter'.node = iter.next /\ iter'.temp = Null
        /\ iter'.next # Null => iter'.next \in list_pub \ {iter.temp}
        /\ iter'.next < iter.next
    BY AdvanceFacts DEF PubInfoTimeout
  <1>a. /\ pc'[Yielder] = "relock"
        /\ \A u \in Threads \ {Yielder} : pc'[u] = pc[u] /\ timer'[u] = timer[u]
    BY GotoEffect DEF PubInfoTimeout, TypeOK
  <1>f. UNCHANGED <<lock_write_buf, req, c2s, s2c, received, accepted, packet_id, requests>>
    BY DEF PubInfoTimeout
  <1>c. /\ CallInv' /\ InFlightInv' /\ AckInv' /\ NetInv' /\ IdInv'
        /\ \A u \in Threads :
              pc'[u] \in {"push", "send", "unlink", "resend"} => lock_write_buf' = u
        /\ UNCHANGED <<msg_id, node_state, pushed>>
    BY <1>a, <1>b, <1>f, RemoveTempKeeps
  <1>1. LockInv'
    BY <1>a, <1>c DEF LockInv
  <1>2. iter.next \in accepted
    <2> SUFFICES ASSUME iter.next \notin accepted PROVE FALSE
      OBVIOUS
    <2>1. PICK p \in Publishers : InFlight(p) /\ req[p].node = iter.next
      BY <1>b DEF NetInv
    <2>2. age[iter.next] + timer[p] <= RequestTimeout + SchedDelay
      BY <2>1, <1>b, TypeFacts, TimingAssumption DEF InFlightInv, InFlight
    <2>3. age[iter.next] \in Nat /\ timer[p] \in Nat
      BY <1>b, TypeFacts
    <2>4. age[iter.next] > 2 * RequestTimeout
      BY DEF PubInfoTimeout, AckTimedOut
    <2> QED
      BY <2>2, <2>3, <2>4, TimingAssumption
  <1>3. node_state[iter.next] = "NORMANL"
    BY DEF PubInfoTimeout, WaitsForAck
  <1>5. IterInv'
    BY <1>a, <1>b, <1>c, <1>f, <1>2, <1>3 DEF IterInv, Resending, ListRemove
  <1> QED
    BY <1>1, <1>5, <1>c

\* A retransmission: what it writes has been accepted and is still in the list.
LEMMA RePublishKeeps ==
    ASSUME IInv, RePublishLock \/ RePublish \/ RePublishFail
    PROVE  LockInv' /\ CallInv' /\ InFlightInv' /\ IterInv' /\ AckInv' /\ NetInv' /\ IdInv'
  <1> USE ThreadFacts DEF IInv, heap, locks, network, client, counters
  <1>a. /\ Resending /\ pc'[Yielder] \in {"resend", "resent", "lost"}
        /\ pc'[Yielder] = "resend" => pc[Yielder] = "relock"
        /\ \A u \in Threads \ {Yielder} : pc'[u] = pc[u] /\ timer'[u] = timer[u]
    BY GotoEffect DEF RePublishLock, RePublish, RePublishFail, TypeOK, Resending
  <1>b. \/ pc'[Yielder] = "resend" /\ lock_write_buf = Nobody /\ lock_write_buf' = Yielder
        \/ /\ pc'[Yielder] \in {"resent", "lost"} /\ lock_write_buf = Yielder
           /\ lock_write_buf' = Nobody
    BY GotoEffect DEF RePublishLock, RePublish, RePublishFail, LockInv
  <1>c. c2s' \subseteq c2s \cup {iter.node} /\ s2c' \subseteq s2c
    BY DEF RePublishLock, RePublish, RePublishFail, Write, DropInFlight
  <1>d. iter.node \in list_pub \cap accepted
    BY <1>a DEF IterInv
  <1>f. UNCHANGED <<list_pub, msg_id, node_state, age, pushed, lock_list_pub, req, iter,
                    received, accepted, packet_id, requests>>
    BY DEF RePublishLock, RePublish, RePublishFail
  <1>g. \A r \in Publishers : InFlight(r)' <=> InFlight(r)
    BY <1>a, <1>f DEF InFlight
  <1>1. LockInv'
    BY <1>a, <1>b, <1>f DEF LockInv
  <1>2. CallInv'
    BY <1>a, <1>f DEF CallInv
  <1>4. InFlightInv'
    BY <1>a, <1>f, <1>g DEF InFlightInv
  <1>5. IterInv'
    BY <1>a, <1>b, <1>f DEF IterInv, Resending
  <1>6. AckInv'
    BY <1>c, <1>f DEF AckInv
  <1>7. NetInv'
    BY <1>c, <1>d, <1>f, <1>g DEF NetInv, AcceptedNotLost
  <1>8. IdInv'
    BY <1>a, <1>f DEF IdInv, HoldsId
  <1> QED
    BY <1>1, <1>2, <1>4, <1>5, <1>6, <1>7, <1>8

LEMMA ResumeKeeps ==
    ASSUME IInv, PubInfoResume
    PROVE  LockInv' /\ CallInv' /\ InFlightInv' /\ IterInv' /\ AckInv' /\ NetInv' /\ IdInv'
  <1> USE ThreadFacts DEF IInv, heap, locks, network, client, counters
  <1>a. /\ Resending /\ pc'[Yielder] \in {"keepalive", "iter"}
        /\ pc'[Yielder] = "iter" => lock_list_pub' = Yielder
        /\ \A u \in Threads \ {Yielder} : pc'[u] = pc[u]
    BY GotoEffect DEF PubInfoResume, Resending
  <1>b. iter.node \in accepted /\ \A n \in Nodes \ {iter.node} : age'[n] = age[n]
    BY <1>a DEF PubInfoResume, TypeOK, IterInv
  <1>f. UNCHANGED <<list_pub, msg_id, node_state, pushed, lock_write_buf, req, iter, timer,
                    c2s, s2c, received, accepted, packet_id, requests>>
    BY DEF PubInfoResume
  <1>g. \A r \in Publishers : InFlight(r)' <=> InFlight(r)
    BY <1>a, <1>f DEF InFlight
  <1>1. LockInv'
    BY <1>a, <1>f DEF LockInv
  <1>2. CallInv'
    BY <1>a, <1>f DEF CallInv
  <1>4. InFlightInv'
    <2>1. \A r \in Publishers : InFlight(r) => req[r].node \in Nodes \ {iter.node}
      BY <1>b, TypeFacts DEF InFlightInv
    <2> QED
      BY <1>a, <1>b, <1>f, <1>g, <2>1 DEF InFlightInv
  <1>5. IterInv'
    BY <1>a, <1>f DEF IterInv, Resending
  <1>6. AckInv'
    BY <1>f DEF AckInv
  <1>7. NetInv'
    BY <1>f, <1>g DEF NetInv, AcceptedNotLost
  <1>8. IdInv'
    BY <1>a, <1>f DEF IdInv, HoldsId
  <1> QED
    BY <1>1, <1>2, <1>4, <1>5, <1>6, <1>7, <1>8

LEMMA EndKeeps ==
    ASSUME IInv, PubInfoEnd
    PROVE  LockInv' /\ CallInv' /\ InFlightInv' /\ IterInv' /\ AckInv' /\ NetInv' /\ IdInv'
  <1> USE ThreadFacts DEF IInv, locks, network, client, counters
  <1>a. /\ pc[Yielder] = "iter" /\ pc'[Yielder] = "keepalive" /\ ListRemove(iter.temp)
        /\ \A u \in Threads \ {Yielder} : pc'[u] = pc[u]
    BY GotoEffect DEF PubInfoEnd
  <1>f. UNCHANGED <<lock_write_buf, req, c2s, s2c, received, accepted, timer, packet_id,
                    requests>>
    BY DEF PubInfoEnd
  <1>c. /\ CallInv' /\ InFlightInv' /\ AckInv' /\ NetInv' /\ IdInv'
        /\ \A u \in Threads :
              pc'[u] \in {"push", "send", "unlink", "resend"} => lock_write_buf' = u
    BY <1>a, <1>f, RemoveTempKeeps
  <1>1. LockInv'
    BY <1>a, <1>c DEF LockInv
  <1>5. IterInv'
    BY <1>a DEF IterInv, Resending
  <1> QED
    BY <1>1, <1>5, <1>c

LEMMA YielderKeeps ==
    ASSUME IInv, YielderStep
    PROVE  IInv'
  <1>t. TypeOK'
    BY TypeYielder DEF IInv
  <1>1. CASE Keepalive \/ CycleNotConnected \/ CycleReadFail \/ CycleIdle
    BY <1>1, <1>t, KeepaliveIsQuiet, QuietKeeps DEF IInv
  <1>2. ASSUME NEW id \in Ids, CyclePuback(id) PROVE IInv'
    BY <1>2, <1>t, PubackKeeps DEF IInv
  <1>3. CASE PubInfoStart
    BY <1>3, <1>t, StartKeeps DEF IInv
  <1>4. CASE PubInfoAcked \/ PubInfoSkip
    BY <1>4, <1>t, WalkKeeps DEF IInv
  <1>5. CASE PubInfoTimeout
    BY <1>5, <1>t, TimeoutKeeps DEF IInv
  <1>6. CASE RePublishLock \/ RePublish \/ RePublishFail
    BY <1>6, <1>t, RePublishKeeps DEF IInv
  <1>7. CASE PubInfoResume
    BY <1>7, <1>t, ResumeKeeps DEF IInv
  <1>8. CASE PubInfoEnd
    BY <1>8, <1>t, EndKeeps DEF IInv
  <1> QED
    BY <1>1, <1>2, <1>3, <1>4, <1>5, <1>6, <1>7, <1>8 DEF YielderStep, Cycle, PubInfoProc
-----------------------------------------------------------------------------
(* The network, time, and the whole.                                         *)

LEMMA ReceiveKeeps ==
    ASSUME IInv, BrokerReceive
    PROVE  LockInv' /\ CallInv' /\ InFlightInv' /\ IterInv' /\ AckInv' /\ NetInv' /\ IdInv'
  <1> USE DEF IInv, heap, locks, network, client, counters
  <1>1. PICK n \in c2s : /\ c2s' = c2s \ {n}
                         /\ received' = received \cup {n}
                         /\ s2c' = s2c \cup {msg_id[n]}
    BY DEF BrokerReceive
  <1>f. UNCHANGED <<list_pub, msg_id, node_state, age, pushed, lock_list_pub, lock_write_buf,
                    pc, req, timer, iter, accepted, packet_id, requests>>
    BY DEF BrokerReceive
  <1>2. LockInv' /\ CallInv' /\ InFlightInv'
    BY <1>f DEF LockInv, CallInv, InFlightInv, InFlight
  <1>3. IterInv' /\ IdInv'
    BY <1>f DEF IterInv, Resending, IdInv, HoldsId
  <1>4. AckInv'
    BY <1>1, <1>f DEF AckInv
  <1>5. NetInv'
    <2>1. \A r \in Publishers : InFlight(r)' <=> InFlight(r)
      BY <1>f DEF InFlight
    <2> QED
      BY <1>1, <1>f, <2>1 DEF NetInv, AcceptedNotLost
  <1> QED
    BY <1>2, <1>3, <1>4, <1>5

\* A node in flight ages as fast as the timer of its publisher runs down, and a
\* tick does not pass a timer that has run out.
LEMMA TickKeeps ==
    ASSUME IInv, Tick
    PROVE  LockInv' /\ CallInv' /\ InFlightInv' /\ IterInv' /\ AckInv' /\ NetInv' /\ IdInv'
  <1> USE DEF IInv, heap, locks, network, client, counters
  <1>f. UNCHANGED <<list_pub, msg_id, node_state, pushed, lock_list_pub, lock_write_buf, c2s,
                    s2c, received, pc, req, iter, accepted, packet_id, requests>>
    BY DEF Tick
  <1>g. \A r \in Publishers : InFlight(r)' <=> InFlight(r)
    BY <1>f DEF InFlight
  <1>1. ASSUME NEW p \in Publishers, InFlight(p)
        PROVE  /\ age'[req[p].node] <= age[req[p].node] + 1
               /\ timer'[p] = timer[p] - 1
               /\ age[req[p].node] \in Nat /\ timer[p] \in Nat /\ age'[req[p].node] \in Nat
    <2>1. p \in Threads /\ req[p].node \in Nodes
      BY <1>1, ThreadFacts, TypeFacts DEF InFlightInv
    <2>2. timer[p] > 0 /\ timer[p] \in Nat /\ age[req[p].node] \in Nat
      BY <1>1, <2>1, TypeFacts DEF Tick, InFlight
    <2>3. age'[req[p].node] \in {age[req[p].node], age[req[p].node] + 1}
      BY <2>1 DEF Tick, Older
    <2>4. timer'[p] = timer[p] - 1
      BY <2>1, <2>2 DEF Tick
    <2> QED
      BY <2>2, <2>3, <2>4
  <1>2. LockInv' /\ CallInv'
    BY <1>f DEF LockInv, CallInv
  <1>3. InFlightInv'
    <2> SUFFICES ASSUME NEW p \in Publishers, InFlight(p)
                 PROVE  /\ pc[p] = "send" =>
                              age'[req[p].node] + timer'[p] <= RequestTimeout
                        /\ pc[p] = "unlink" =>
                              age'[req[p].node] + timer'[p] <= RequestTimeout + SchedDelay
      BY <1>f, <1>g DEF InFlightInv
    <2>1. age'[req[p].node] + timer'[p] <= age[req[p].node] + timer[p]
      BY <1>1
    <2>2. /\ age'[req[p].node] + timer'[p] \in Int
          /\ age[req[p].node] + timer[p] \in Int
      BY <1>1
    <2> QED
      BY <2>1, <2>2, TimingAssumption DEF InFlightInv
  <1>4. IterInv' /\ AckInv' /\ IdInv'
    BY <1>f DEF IterInv, Resending, AckInv, IdInv, HoldsId
  <1>5. NetInv'
    BY <1>f, <1>g DEF NetInv, AcceptedNotLost
  <1> QED
    BY <1>2, <1>3, <1>4, <1>5

LEMMA InvInit == Init => IInv
  <1> SUFFICES ASSUME Init PROVE IInv
    OBVIOUS
  <1>0. TypeOK
    BY TypeInit
  <1>1. /\ pc[Yielder] = "keepalive" /\ \A p \in Publishers : pc[p] = "idle" /\ req[p] = NoCall
        /\ \A t \in Threads : pc[t] \in {"keepalive", "idle"}
    BY ThreadFacts DEF Init
  <1>2. LockInv /\ CallInv /\ InFlightInv
    BY <1>1 DEF LockInv, CallInv, InFlightInv, InFlight, NoCall
  <1>3. IterInv /\ AckInv /\ NetInv
    BY <1>1 DEF Init, IterInv, Resending, AckInv, NetInv, AcceptedNotLost
  <1>4. IdInv
    BY <1>1 DEF Init, IdInv, HoldsId
  <1> QED
    BY <1>0, <1>2, <1>3, <1>4 DEF IInv

LEMMA InvStep ==
    ASSUME MaxRequests <= PacketIdMax
    PROVE  IInv /\ [Next]_vars => IInv'
  <1> SUFFICES ASSUME IInv, [Next]_vars PROVE IInv'
    OBVIOUS
  <1>t. TypeOK'
    BY TypeStep DEF IInv
  <1>1. ASSUME NEW p \in Publishers, PublisherStep(p) PROVE IInv'
    BY <1>1, PublisherKeeps
  <1>2. CASE YielderStep
    BY <1>2, YielderKeeps
  <1>3. CASE BrokerReceive
    BY <1>3, <1>t, ReceiveKeeps DEF IInv
  <1>4. CASE Tick
    BY <1>4, <1>t, TickKeeps DEF IInv
  <1>5. CASE LinkBreak \/ UNCHANGED vars
    <2>1. Quiet
      BY <1>5 DEF Quiet, LinkBreak, DropInFlight, vars, client, heap, locks, network, counters
    <2> QED
      BY <1>t, <2>1, QuietKeeps DEF IInv
  <1> QED
    BY <1>1, <1>2, <1>3, <1>4, <1>5 DEF Next

THEOREM InvHolds ==
    ASSUME MaxRequests <= PacketIdMax
    PROVE  Spec => []IInv
  <1>1. Init => IInv
    BY InvInit
  <1>2. IInv /\ [Next]_vars => IInv'
    BY InvStep
  <1> QED
    BY <1>1, <1>2, PTL DEF Spec
-----------------------------------------------------------------------------
(* The theorems.                                                             *)

\* MQTTPubInfoProc never follows a freed node: not the one its iterator has
\* prefetched, not the one it condemned, not the one MQTTRePublish writes.
THEOREM NoDanglingIteratorHolds ==
    ASSUME MaxRequests <= PacketIdMax
    PROVE  Spec => []NoDanglingIterator
  <1>1. IInv => NoDanglingIterator
    BY DEF IInv, IterInv, Resending, NoDanglingIterator
  <1>2. Spec => []IInv
    BY InvHolds
  <1> QED
    BY <1>1, <1>2, PTL

\* MQTTPublish's list_remove after a failed send frees a node that is linked.
THEOREM NoDoubleFreeHolds ==
    ASSUME MaxRequests <= PacketIdMax
    PROVE  Spec => []NoDoubleFree
  <1>1. IInv => NoDoubleFree
    BY DEF IInv, CallInv, InFlightInv, InFlight, NoDoubleFree
  <1>2. Spec => []IInv
    BY InvHolds
  <1> QED
    BY <1>1, <1>2, PTL

\* A message whose IOT_MQTT_Publish returned success waits in the list until the
\* broker has received it.
THEOREM AcceptedNotLostHolds ==
    ASSUME MaxRequests <= PacketIdMax
    PROVE  Spec => []AcceptedNotLost
  <1>1. IInv => AcceptedNotLost
    BY DEF IInv, NetInv
  <1>2. Spec => []IInv
    BY InvHolds
  <1> QED
    BY <1>1, <1>2, PTL

LEMMA ResendStep ==
    ASSUME IInv, [Next]_vars
    PROVE  \A n \in c2s' \ c2s : n \in list_pub /\ node_state[n] = "NORMANL"
  <1> USE DEF IInv, heap, locks, network, client, counters
  <1>1. ASSUME NEW p \in Publishers, SendPublish(p)
        PROVE  \A n \in c2s' \ c2s : n \in list_pub /\ node_state[n] = "NORMANL"
    BY <1>1 DEF SendPublish, Write, InFlightInv, InFlight
  <1>2. CASE RePublish
    BY <1>2 DEF RePublish, Write, IterInv, Resending
  <1>3. ASSUME NEW p \in Publishers, PublisherStep(p), ~SendPublish(p)
        PROVE  c2s' \subseteq c2s
    BY <1>3 DEF PublisherStep, PublisherCall, BeginPublish, LockWriteBuf, SerializeFail,
                PushPubInfo, PushPubInfoFail, SendPublishFail, DropInFlight, UnlinkPublish,
                PublishFail
  <1>4. ASSUME YielderStep, ~RePublish PROVE c2s' \subseteq c2s
    <2>1. CASE Keepalive \/ CycleNotConnected \/ CycleReadFail \/ CycleIdle
      BY <2>1, KeepaliveIsQuiet DEF Quiet
    <2>2. CASE PubInfoProc
      BY <1>4, <2>2 DEF PubInfoProc, PubInfoStart, PubInfoAcked, PubInfoSkip, PubInfoTimeout,
                  RePublishLock, RePublishFail, DropInFlight, PubInfoResume, PubInfoEnd
    <2>3. ASSUME NEW id \in Ids, CyclePuback(id) PROVE c2s' \subseteq c2s
      BY <2>3 DEF CyclePuback
    <2> QED
      BY <1>4, <2>1, <2>2, <2>3 DEF YielderStep, Cycle
  <1>5. CASE BrokerReceive \/ LinkBreak \/ Tick \/ UNCHANGED vars
    BY <1>5 DEF BrokerReceive, LinkBreak, DropInFlight, Tick, vars
  <1> QED
    BY <1>1, <1>2, <1>3, <1>4, <1>5 DEF Next

\* What the client writes is a message that is still linked and not acknowledged.
THEOREM NoResendAfterAckHolds ==
    ASSUME MaxRequests <= PacketIdMax
    PROVE  Spec => NoResendAfterAck
  <1>1. IInv /\ [Next]_vars
           => [\A n \in c2s' \ c2s : n \in list_pub /\ node_state[n] = "NORMANL"]_vars
    BY ResendStep
  <1>2. Spec => []IInv
    BY InvHolds
  <1> QED
    BY <1>1, <1>2, PTL DEF Spec, NoResendAfterAck

-----------------------------------------------------------------------------
(* The client implements AtLeastOnce.                                        *)

\* What the walk unlinks has been promised and delivered.
LEMMA RemoveTempRefines ==
    ASSUME IInv, pc[Yielder] = "iter", ListRemove(iter.temp), UNCHANGED <<received, accepted>>
    PROVE  [Service!Next]_(Service!vars)
  <1> USE DEF IInv
  <1>1. CASE iter.temp = Null
    BY <1>1, TypeFacts DEF ListRemove, Service!vars
  <1>2. CASE iter.temp # Null
    <2>1. iter.temp \in Nodes /\ iter.temp \in list_pub \cap accepted \cap received
      BY <1>2, TypeFacts DEF IterInv, AckInv, NetInv
    <2>2. Service!Forget(iter.temp)
      BY <2>1 DEF ListRemove, Service!Forget
    <2> QED
      BY <2>1, <2>2 DEF Service!Next
  <1> QED
    BY <1>1, <1>2

LEMMA PublisherRefines ==
    ASSUME IInv, NEW p \in Publishers, PublisherStep(p)
    PROVE  [Service!Next]_(Service!vars)
  <1> USE DEF IInv, heap, network
  <1>1. CASE PushPubInfo(p)
    <2>1. pushed' \in Nodes /\ pushed' = pushed + 1
      BY <1>1, TypeFacts, LimitsAssumption DEF PushPubInfo, Nodes
    <2>2. pushed' \notin list_pub \cup accepted \cup received
      BY <2>1, TypeFacts DEF NetInv
    <2>3. Service!Queue(pushed')
      BY <1>1, <2>1, <2>2 DEF PushPubInfo, Service!Queue
    <2> QED
      BY <2>1, <2>3 DEF Service!Next
  <1>2. CASE SendPublish(p)
    <2>1. CASE req[p].node = Null
      BY <1>2, <2>1 DEF SendPublish, Service!vars
    <2>2. CASE req[p].node # Null
      <3>1. req[p].node \in list_pub \ accepted /\ req[p].node \in Nodes
        BY <1>2, <2>2, TypeFacts DEF SendPublish, InFlightInv, InFlight
      <3>2. Service!Promise(req[p].node)
        BY <1>2, <2>2, <3>1 DEF SendPublish, Service!Promise
      <3> QED
        BY <3>1, <3>2 DEF Service!Next
    <2> QED
      BY <2>1, <2>2
  <1>3. CASE UnlinkPublish(p)
    <2>1. req[p].node \in list_pub \ accepted /\ req[p].node \in Nodes
      BY <1>3, TypeFacts DEF UnlinkPublish, InFlightInv, InFlight, CallInv
    <2>2. Service!Withdraw(req[p].node)
      BY <1>3, <2>1 DEF UnlinkPublish, ListRemove, Service!Withdraw
    <2> QED
      BY <2>1, <2>2 DEF Service!Next
  <1>4. ASSUME ~PushPubInfo(p), ~SendPublish(p), ~UnlinkPublish(p)
        PROVE  UNCHANGED Service!vars
    BY <1>4 DEF PublisherStep, PublisherCall, BeginPublish, LockWriteBuf, SerializeFail,
                PushPubInfoFail, SendPublishFail, PublishFail, Service!vars
  <1> QED
    BY <1>1, <1>2, <1>3, <1>4

LEMMA YielderRefines ==
    ASSUME IInv, YielderStep
    PROVE  [Service!Next]_(Service!vars)
  <1> USE DEF IInv, heap, network
  <1>1. CASE Keepalive \/ CycleNotConnected \/ CycleReadFail \/ CycleIdle
    BY <1>1, KeepaliveIsQuiet DEF Quiet, Service!vars
  <1>2. ASSUME NEW id \in Ids, CyclePuback(id) PROVE UNCHANGED Service!vars
    BY <1>2 DEF CyclePuback, Service!vars
  <1>3. CASE PubInfoStart \/ RePublishLock \/ RePublish \/ RePublishFail \/ PubInfoResume
    BY <1>3 DEF PubInfoStart, RePublishLock, RePublish, RePublishFail, PubInfoResume,
                Service!vars
  <1>4. CASE PubInfoAcked \/ PubInfoSkip \/ PubInfoTimeout \/ PubInfoEnd
    <2>1. /\ pc[Yielder] = "iter" /\ ListRemove(iter.temp)
          /\ UNCHANGED <<received, accepted>>
      BY <1>4 DEF PubInfoAcked, PubInfoSkip, PubInfoTimeout, PubInfoEnd, Advance
    <2> QED
      BY <2>1, RemoveTempRefines
  <1> QED
    BY <1>1, <1>2, <1>3, <1>4 DEF YielderStep, Cycle, PubInfoProc

LEMMA StepRefines ==
    ASSUME IInv, [Next]_vars
    PROVE  [Service!Next]_(Service!vars)
  <1> USE DEF IInv, heap, network
  <1>1. ASSUME NEW p \in Publishers, PublisherStep(p) PROVE [Service!Next]_(Service!vars)
    BY <1>1, PublisherRefines
  <1>2. CASE YielderStep
    BY <1>2, YielderRefines
  <1>3. CASE BrokerReceive
    <2>1. PICK n \in c2s : received' = received \cup {n}
      BY <1>3 DEF BrokerReceive
    <2>2. CASE n \in received
      BY <1>3, <2>1, <2>2 DEF BrokerReceive, Service!vars
    <2>3. CASE n \notin received
      <3>1. n \in list_pub \ received /\ n \in Nodes
        BY <2>3, TypeFacts DEF NetInv
      <3>2. Service!Deliver(n)
        BY <1>3, <2>1, <3>1 DEF BrokerReceive, Service!Deliver
      <3> QED
        BY <3>1, <3>2 DEF Service!Next
    <2> QED
      BY <2>2, <2>3
  <1>4. CASE LinkBreak \/ Tick \/ UNCHANGED vars
    BY <1>4 DEF LinkBreak, Tick, vars, Service!vars
  <1> QED
    BY <1>1, <1>2, <1>3, <1>4 DEF Next

\* MqttPublish refines AtLeastOnce: queued messages are the linked nodes,
\* promised ones those whose call returned, delivered ones the broker's.
THEOREM ImplementsAtLeastOnceHolds ==
    ASSUME MaxRequests <= PacketIdMax
    PROVE  Spec => ImplementsAtLeastOnce
  <1>1. Init => Service!Init
    BY DEF Init, Service!Init
  <1>2. IInv /\ [Next]_vars => [Service!Next]_(Service!vars)
    BY StepRefines
  <1>3. Spec => []IInv
    BY InvHolds
  <1> QED
    BY <1>1, <1>2, <1>3, PTL DEF Spec, ImplementsAtLeastOnce, Service!Spec
=============================================================================
