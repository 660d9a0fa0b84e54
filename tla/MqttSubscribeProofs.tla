------------------------ MODULE MqttSubscribeProofs -------------------------
(***************************************************************************)
(* Theorems about MqttSubscribe for every number of threads, topics,        *)
(* handlers and requests, table and list of every size, and every timeout.  *)
(* The inductive invariant follows a packet id: taken by one thread, linked *)
(* in the list, on its way to the broker and back, answered once.           *)
(***************************************************************************)
EXTENDS MqttSubscribe, FiniteSetTheorems, SequenceTheorems, TLAPS

\* The ids of the requests and acks that are under way.
OnWay == {id \in Ids : \/ \E i \in DOMAIN c2s : c2s[i] = id
                       \/ \E i \in DOMAIN s2c : s2c[i].id = id}

\* An id whose call has not succeeded is known to nobody but its thread.
Fresh ==
    /\ accepted \subseteq 1 .. packet_id
    /\ OnWay \subseteq accepted
    /\ \A id \in Ids \ accepted : outcome[id] = <<>> /\ node_state[id] = "NORMANL"
    /\ \A id \in list_sub \ accepted :
           \E u \in Users : pc[u] \in {"send", "unlink"} /\ req[u] = id

Owners ==
    /\ \A u \in Users : pc[u] # "idle" => req[u] \in (1 .. packet_id) \ accepted
    /\ \A u, v \in Users :
           pc[u] # "idle" /\ pc[v] # "idle" /\ req[u] = req[v] => u = v
    /\ \A u \in Users : pc[u] \in {"send", "unlink"} => req[u] \in list_sub
    /\ \A u \in Users : pc[u] \in {"lock", "push"} => age[req[u]] = 0
    /\ \A id \in Ids : id > packet_id => age[id] = 0

\* A node cannot be overdue while its thread is sending or unlinking it.
Times ==
    \A u \in Users :
        /\ pc[u] = "send" => age[req[u]] + timer[u] <= RequestTimeout
        /\ pc[u] = "unlink" => age[req[u]] + timer[u] <= RequestTimeout + SchedDelay

Distinct ==
    /\ \A i, j \in DOMAIN c2s : c2s[i] = c2s[j] => i = j
    /\ \A i, j \in DOMAIN s2c : s2c[i].id = s2c[j].id => i = j
    /\ \A i \in DOMAIN c2s : \A j \in DOMAIN s2c : c2s[i] # s2c[j].id

\* The ack of a request has been read: it is the last thing reported of it.
Acked(report) == report \notin {<<>>, <<"TIMEOUT">>}

Answers ==
    /\ \A id \in Ids : Acked(outcome[id]) \/ node_state[id] = "INVALID" => id \notin OnWay
    /\ \A id \in list_sub : outcome[id] # <<>> => node_state[id] = "INVALID"
    /\ AnsweredOnce
    /\ NoRequestForgotten

IInv == /\ TypeOK /\ Fresh /\ Owners /\ Times /\ Distinct /\ Answers
        /\ HandlersMatchSubscriptions
-----------------------------------------------------------------------------
(* What the connection does with the ids that are under way.                 *)

NetworkType == c2s \in Seq(Ids) /\ s2c \in Seq([id : Ids, granted : BOOLEAN])

LEMMA TailOf ==
    ASSUME NEW S, NEW s \in Seq(S), s # <<>>
    PROVE  /\ Tail(s) \in Seq(S)
           /\ DOMAIN s = 1 .. Len(s) /\ Len(s) \in Nat \ {0}
           /\ DOMAIN Tail(s) = 1 .. Len(s) - 1
           /\ \A i \in DOMAIN Tail(s) : Tail(s)[i] = s[i + 1] /\ i + 1 \in DOMAIN s
           /\ \A i \in DOMAIN s : i # 1 => i - 1 \in DOMAIN Tail(s) /\ s[i] = Tail(s)[i - 1]
           /\ Head(s) = s[1] /\ 1 \in DOMAIN s /\ Head(s) \in S
<1>1. /\ Head(s) \in S /\ Tail(s) \in Seq(S) /\ Len(Tail(s)) = Len(s) - 1
      /\ \A i \in 1 .. Len(Tail(s)) : Tail(s)[i] = s[i + 1]
  BY HeadTailProperties
<1>2. DOMAIN s = 1 .. Len(s) /\ Len(s) \in Nat /\ DOMAIN Tail(s) = 1 .. Len(Tail(s))
  BY <1>1
<1>3. Len(s) # 0 /\ Head(s) = s[1]
  BY EmptySeq
<1>4. Len(Tail(s)) = Len(s) - 1
  BY <1>1
<1>5. ASSUME NEW i \in DOMAIN Tail(s)
      PROVE  Tail(s)[i] = s[i + 1] /\ i + 1 \in DOMAIN s
  BY <1>1, <1>2, <1>4
<1>6. ASSUME NEW i \in DOMAIN s, i # 1
      PROVE  i - 1 \in DOMAIN Tail(s) /\ s[i] = Tail(s)[i - 1]
  <2>1. i - 1 \in 1 .. Len(Tail(s)) /\ (i - 1) + 1 = i
    BY <1>2, <1>4, <1>6
  <2> QED
    BY <1>1, <1>2, <2>1
<1>7. /\ Len(s) \in Nat \ {0} /\ 1 \in DOMAIN s
      /\ DOMAIN Tail(s) = 1 .. Len(s) - 1
  BY <1>2, <1>3, <1>4
<1>8. Head(s) \in S
  BY <1>1
<1>9. Tail(s) \in Seq(S)
  BY <1>1
<1> QED
  BY <1>2, <1>3, <1>5, <1>6, <1>7, <1>8, <1>9

LEMMA Sent ==
    ASSUME TypeOK, Distinct, NEW id \in Ids, id \notin OnWay,
           c2s' = Append(c2s, id), s2c' = s2c
    PROVE  Distinct' /\ OnWay' = OnWay \cup {id} /\ NetworkType'
<1>1. /\ DOMAIN c2s = 1 .. Len(c2s) /\ Len(c2s) \in Nat
      /\ DOMAIN c2s' = 1 .. Len(c2s) + 1
      /\ \A i \in DOMAIN c2s : c2s'[i] = c2s[i]
      /\ c2s'[Len(c2s) + 1] = id
  BY DEF TypeOK
<1>2. \A i \in DOMAIN c2s : c2s[i] # id
  BY DEF OnWay
<1>3. \A i \in DOMAIN s2c : s2c[i].id # id
  BY DEF OnWay
<1>4. Distinct'
  BY <1>1, <1>2, <1>3 DEF Distinct
<1>5. OnWay' = OnWay \cup {id}
  BY <1>1 DEF OnWay
<1>6. NetworkType'
  BY DEF NetworkType, TypeOK
<1> QED
  BY <1>4, <1>5, <1>6

LEMMA Read ==
    ASSUME TypeOK, Distinct, s2c # <<>>, AckRead
    PROVE  /\ Distinct' /\ OnWay' = OnWay \ {Head(s2c).id} /\ NetworkType'
           /\ Head(s2c).id \in OnWay /\ Head(s2c).granted \in BOOLEAN
<1>1. /\ DOMAIN s2c = 1 .. Len(s2c) /\ Len(s2c) \in Nat \ {0}
      /\ DOMAIN s2c' = 1 .. Len(s2c) - 1
      /\ \A i \in DOMAIN s2c' : s2c'[i] = s2c[i + 1] /\ i + 1 \in DOMAIN s2c
      /\ \A i \in DOMAIN s2c : i # 1 => i - 1 \in DOMAIN s2c' /\ s2c[i] = s2c'[i - 1]
      /\ Head(s2c) = s2c[1] /\ 1 \in DOMAIN s2c
      /\ c2s' = c2s
  BY TailOf DEF TypeOK, AckRead
<1>2. Head(s2c) \in [id : Ids, granted : BOOLEAN]
  BY TailOf DEF TypeOK
<1>3. Distinct'
  <2>1. ASSUME NEW i \in DOMAIN s2c', NEW j \in DOMAIN s2c', s2c'[i].id = s2c'[j].id
        PROVE  i = j
    BY <1>1, <2>1 DEF Distinct
  <2>2. ASSUME NEW i \in DOMAIN c2s, NEW j \in DOMAIN s2c' PROVE c2s[i] # s2c'[j].id
    BY <1>1 DEF Distinct
  <2> QED
    BY <1>1, <2>1, <2>2 DEF Distinct
<1>4. ASSUME NEW id \in Ids PROVE id \in OnWay' <=> id \in OnWay /\ id # Head(s2c).id
  <2>1. CASE \E i \in DOMAIN c2s : c2s[i] = id
    BY <1>1, <2>1 DEF OnWay, Distinct
  <2>2. CASE ~ \E i \in DOMAIN c2s : c2s[i] = id
    <3>1. id \in OnWay <=> \E i \in DOMAIN s2c : s2c[i].id = id
      BY <2>2 DEF OnWay
    <3>2. id \in OnWay' <=> \E i \in DOMAIN s2c' : s2c'[i].id = id
      BY <1>1, <2>2 DEF OnWay
    <3>3. ASSUME NEW i \in DOMAIN s2c', s2c'[i].id = id
          PROVE  (\E j \in DOMAIN s2c : s2c[j].id = id) /\ id # Head(s2c).id
      BY <1>1, <3>3 DEF Distinct
    <3>4. ASSUME NEW i \in DOMAIN s2c, s2c[i].id = id, id # Head(s2c).id
          PROVE  \E j \in DOMAIN s2c' : s2c'[j].id = id
      BY <1>1, <3>4
    <3> QED
      BY <3>1, <3>2, <3>3, <3>4
  <2> QED
    BY <2>1, <2>2
<1>5. Head(s2c).id \in OnWay
  BY <1>1, <1>2 DEF OnWay
<1>6. OnWay' \subseteq Ids /\ OnWay \subseteq Ids
  BY DEF OnWay
<1>7. NetworkType'
  BY TailOf DEF NetworkType, TypeOK, AckRead
<1> QED
  BY <1>2, <1>3, <1>4, <1>5, <1>6, <1>7

LEMMA Answered ==
    ASSUME TypeOK, Distinct, BrokerAnswers
    PROVE  Distinct' /\ OnWay' = OnWay /\ NetworkType'
<1>1. /\ DOMAIN c2s = 1 .. Len(c2s) /\ Len(c2s) \in Nat \ {0}
      /\ DOMAIN c2s' = 1 .. Len(c2s) - 1
      /\ \A i \in DOMAIN c2s' : c2s'[i] = c2s[i + 1] /\ i + 1 \in DOMAIN c2s
      /\ \A i \in DOMAIN c2s : i # 1 => i - 1 \in DOMAIN c2s' /\ c2s[i] = c2s'[i - 1]
      /\ Head(c2s) = c2s[1] /\ 1 \in DOMAIN c2s
  <2>1. c2s # <<>> /\ c2s' = Tail(c2s) /\ c2s \in Seq(Ids)
    BY DEF TypeOK, BrokerAnswers
  <2> QED
    BY <2>1, TailOf
<1>2. PICK granted \in BOOLEAN : s2c' = Append(s2c, [id |-> Head(c2s), granted |-> granted])
  BY DEF BrokerAnswers
<1>3. /\ DOMAIN s2c = 1 .. Len(s2c) /\ Len(s2c) \in Nat
      /\ DOMAIN s2c' = 1 .. Len(s2c) + 1
      /\ \A i \in DOMAIN s2c : s2c'[i] = s2c[i]
      /\ s2c'[Len(s2c) + 1].id = c2s[1]
  BY <1>1, <1>2 DEF TypeOK
<1>4. Distinct'
  <2>1. ASSUME NEW i \in DOMAIN c2s', NEW j \in DOMAIN c2s', c2s'[i] = c2s'[j] PROVE i = j
    BY <1>1, <2>1 DEF Distinct
  <2>2. ASSUME NEW i \in DOMAIN s2c', NEW j \in DOMAIN s2c', s2c'[i].id = s2c'[j].id
        PROVE  i = j
    BY <1>1, <1>3, <2>2 DEF Distinct
  <2>3. ASSUME NEW i \in DOMAIN c2s', NEW j \in DOMAIN s2c' PROVE c2s'[i] # s2c'[j].id
    BY <1>1, <1>3 DEF Distinct
  <2> QED
    BY <2>1, <2>2, <2>3 DEF Distinct
<1>5. ASSUME NEW id \in Ids, id \in OnWay PROVE id \in OnWay'
  <2>1. CASE \E i \in DOMAIN c2s : c2s[i] = id
    BY <1>1, <1>3, <2>1 DEF OnWay
  <2>2. CASE \E i \in DOMAIN s2c : s2c[i].id = id
    BY <1>3, <2>2 DEF OnWay
  <2> QED
    BY <1>5, <2>1, <2>2 DEF OnWay
<1>6. ASSUME NEW id \in Ids, id \in OnWay' PROVE id \in OnWay
  <2>1. CASE \E i \in DOMAIN c2s' : c2s'[i] = id
    BY <1>1, <2>1 DEF OnWay
  <2>2. CASE \E i \in DOMAIN s2c' : s2c'[i].id = id
    BY <1>1, <1>3, <2>2 DEF OnWay
  <2> QED
    BY <1>6, <2>1, <2>2 DEF OnWay
<1>7. NetworkType'
  <2>1. c2s' \in Seq(Ids)
    BY TailOf DEF TypeOK, BrokerAnswers
  <2>2. [id |-> Head(c2s), granted |-> granted] \in [id : Ids, granted : BOOLEAN]
    <3>1. Head(c2s) \in Ids
      BY <1>1 DEF TypeOK
    <3> QED
      BY <3>1
  <2>3. s2c' \in Seq([id : Ids, granted : BOOLEAN])
    BY <1>2, <2>2 DEF TypeOK
  <2> QED
    BY <2>1, <2>3 DEF NetworkType
<1>8. OnWay' = OnWay
  BY <1>5, <1>6 DEF OnWay
<1> QED
  BY <1>4, <1>7, <1>8

LEMMA ConnectionGone ==
    ASSUME c2s' = <<>>, s2c' = <<>>
    PROVE  Distinct' /\ OnWay' = {} /\ NetworkType'
BY DEF Distinct, OnWay, NetworkType

LEMMA ConnectionSame ==
    ASSUME UNCHANGED <<c2s, s2c>>, Distinct, TypeOK
    PROVE  Distinct' /\ OnWay' = OnWay /\ NetworkType'
BY DEF Distinct, OnWay, NetworkType, TypeOK

\* What MaskSubInfo and Notify do to an id, and to no other.
LEMMA Masked ==
    ASSUME TypeOK, NEW id \in Ids, MaskSubInfo(id)
    PROVE  /\ node_state' \in [Ids -> {"NORMANL", "INVALID"}]
           /\ id \in list_sub => node_state'[id] = "INVALID"
           /\ id \notin list_sub => node_state'[id] = node_state[id]
           /\ \A x \in Ids : x # id => node_state'[x] = node_state[x]
BY DEF MaskSubInfo, TypeOK

LEMMA Notified ==
    ASSUME TypeOK, NEW id \in Ids, NEW event \in Events, Notify(id, event)
    PROVE  /\ outcome' \in [Ids -> Reports]
           /\ outcome'[id] = Append(outcome[id], event)
           /\ \A x \in Ids : x # id => outcome'[x] = outcome[x]
<1>1. \A report \in Reports : Append(report, event) \in Reports
  BY DEF Reports
<1> QED
  BY <1>1 DEF Notify, TypeOK

\* The first report of a request, and the one after its timeout.
LEMMA Reported ==
    ASSUME NEW event \in Events, NEW report \in Reports
    PROVE  /\ Append(report, event) # <<>>
           /\ event # "TIMEOUT" => Acked(Append(report, event))
           /\ ~Acked(report) => report = <<>> \/ report = <<"TIMEOUT">>
           /\ report = <<>> => Append(report, event) = <<event>>
           /\ report = <<"TIMEOUT">> => Append(report, event) = <<"TIMEOUT", event>>
           /\ ~Acked(<<>>) /\ ~Acked(<<"TIMEOUT">>) /\ <<event>> # <<>>
           /\ \A type : OnceOrLate(type, <<event>>) /\ OnceOrLate(type, <<>>)
           /\ OnceOrLate("SUBSCRIBE", <<"TIMEOUT", "NACK">>)
           /\ OnceOrLate("UNSUBSCRIBE", <<"TIMEOUT", "SUCCESS">>)
<1>1. Len(Append(report, event)) = Len(report) + 1 /\ Len(report) \in Nat
  BY DEF Reports
<1>2. Append(report, event) # <<>>
  BY <1>1
<1>3. ASSUME event # "TIMEOUT", Append(report, event) = <<"TIMEOUT">> PROVE FALSE
  <2>1. Append(report, event)[Len(report) + 1] = event
    BY DEF Reports
  <2>2. Len(report) = 0
    BY <1>1, <1>3
  <2> QED
    BY <1>3, <2>1, <2>2
<1>4. ASSUME report = <<"TIMEOUT">> PROVE Append(report, event) = <<"TIMEOUT", event>>
  <2>1. Append(report, event) \in Seq(Events) /\ <<"TIMEOUT", event>> \in Seq(Events)
    BY DEF Events, Reports
  <2>2. Len(Append(report, event)) = 2 /\ Len(<<"TIMEOUT", event>>) = 2
    BY <1>4
  <2>3. /\ Append(report, event)[1] = "TIMEOUT" /\ Append(report, event)[2] = event
        /\ <<"TIMEOUT", event>>[1] = "TIMEOUT" /\ <<"TIMEOUT", event>>[2] = event
    BY <1>4
  <2>4. ASSUME NEW i \in 1 .. 2
        PROVE  Append(report, event)[i] = <<"TIMEOUT", event>>[i]
    <3>1. i = 1 \/ i = 2
      OBVIOUS
    <3> QED
      BY <2>3, <3>1
  <2> QED
    BY <2>1, <2>2, <2>4, SeqEqual
<1>5. ASSUME report = <<>> PROVE Append(report, event) = <<event>>
  BY <1>5
<1>6. Len(<<event>>) = 1 /\ Len(<<>>) = 0
  OBVIOUS
<1> QED
  BY <1>2, <1>3, <1>4, <1>5, <1>6 DEF Acked, OnceOrLate

\* One request is reported on, the others stay as they were.
LEMMA OthersAsBefore ==
    ASSUME 1 .. packet_id \subseteq Ids, accepted \subseteq Ids,
           AnsweredOnce, NoRequestForgotten, NEW id \in Ids,
           UNCHANGED <<info, packet_id, accepted, swallowed, list_sub>>,
           \A x \in Ids : x # id => outcome'[x] = outcome[x] /\ node_state'[x] = node_state[x],
           OnceOrLate(info[id].type, outcome'[id]), outcome'[id] # <<>>
    PROVE  AnsweredOnce' /\ NoRequestForgotten'
BY DEF AnsweredOnce, NoRequestForgotten

LEMMA ListLength ==
    ASSUME TypeOK
    PROVE  /\ IsFiniteSet(list_sub) /\ Cardinality(list_sub) \in Nat
           /\ \A S : S \subseteq list_sub => Cardinality(S) <= SubRequestMax
           /\ ~ListFull => \A id \in Ids : Cardinality(list_sub \cup {id}) <= SubRequestMax
<1>1. IsFiniteSet(Ids)
  BY FS_Interval, SubscribeAssumption DEF Ids
<1>2. IsFiniteSet(list_sub) /\ Cardinality(list_sub) \in Nat
  BY <1>1, FS_Subset, FS_CardinalityType DEF TypeOK
<1>3. ASSUME NEW S, S \subseteq list_sub PROVE Cardinality(S) <= SubRequestMax
  <2>1. IsFiniteSet(S) /\ Cardinality(S) <= Cardinality(list_sub)
    BY <1>2, <1>3, FS_Subset
  <2>2. Cardinality(S) \in Nat
    BY <2>1, FS_CardinalityType
  <2> QED
    BY <1>2, <2>1, <2>2, SubscribeAssumption DEF TypeOK
<1>4. ASSUME ~ListFull, NEW id \in Ids PROVE Cardinality(list_sub \cup {id}) <= SubRequestMax
  <2>1. Cardinality(list_sub \cup {id}) \in {Cardinality(list_sub),
  Cardinality(list_sub) + 1}
    BY <1>2, FS_AddElement
  <2> QED
    BY <1>2, <1>4, <2>1, SubscribeAssumption DEF ListFull
<1> QED
  BY <1>2, <1>3, <1>4
-----------------------------------------------------------------------------
LEMMA InitialState == Init => IInv
<1> SUFFICES ASSUME Init PROVE IInv
  OBVIOUS
<1>1. TypeOK
  <2>1. /\ list_sub \subseteq Ids /\ Cardinality(list_sub) <= SubRequestMax
        /\ info \in Seq(Requests) /\ Len(info) = packet_id
        /\ packet_id \in 0 .. MaxRequests /\ breaks \in 0 .. MaxBreaks
    BY SubscribeAssumption, FS_EmptySet DEF Init
  <2>2. /\ age \in [Ids -> 0 .. AgeMax] /\ timer \in [Users -> 0 .. RequestTimeout]
        /\ node_state \in [Ids -> {"NORMANL", "INVALID"}]
        /\ outcome \in [Ids -> Reports]
    BY SubscribeAssumption DEF Init, AgeMax, Reports
  <2>3. c2s \in Seq(Ids) /\ s2c \in Seq([id : Ids, granted : BOOLEAN])
    BY DEF Init
  <2> QED
    BY <2>1, <2>2, <2>3 DEF Init, TypeOK
<1>2. OnWay = {} /\ Distinct
  BY DEF Init, OnWay, Distinct
<1>3. Fresh /\ Owners /\ Times
  BY <1>2 DEF Init, Fresh, Owners, Times, Ids
<1>4. Answers
  BY <1>2 DEF Init, Answers, AnsweredOnce, NoRequestForgotten, Ids
<1>5. HandlersMatchSubscriptions
  BY DEF Init, HandlersMatchSubscriptions, ConfirmedHasHandler, NoDuplicateHandler, Ids, Indices
<1> QED
  BY <1>1, <1>2, <1>3, <1>4, <1>5 DEF IInv

LEMMA NotListedYet ==
    ASSUME TypeOK, Fresh, Owners
    PROVE  /\ \A u \in Users : pc[u] \in {"lock", "push"} => req[u] \notin list_sub
           /\ \A id \in list_sub : id \in 1 .. packet_id
<1>1. ASSUME NEW id \in list_sub PROVE id \in 1 .. packet_id
  <2>1. CASE id \in accepted
    BY <2>1 DEF Fresh
  <2>2. CASE id \notin accepted
    <3>1. PICK v \in Users : pc[v] \in {"send", "unlink"} /\ req[v] = id
      BY <2>2 DEF Fresh
    <3> QED
      BY <3>1 DEF Owners
  <2> QED
    BY <2>1, <2>2
<1>2. ASSUME NEW u \in Users, pc[u] \in {"lock", "push"}, req[u] \in list_sub PROVE FALSE
  <2>1. req[u] \in list_sub \ accepted
    BY <1>2 DEF Owners
  <2>2. PICK v \in Users : pc[v] \in {"send", "unlink"} /\ req[v] = req[u]
    BY <2>1 DEF Fresh
  <2> QED
    BY <1>2, <2>2 DEF Owners
<1> QED
  BY <1>1, <1>2

\* An entry of the table is its topic and its handler.
LEMMA TableEntry ==
    ASSUME TypeOK, NEW i \in Indices, sub_handle[i] # Empty
    PROVE  /\ sub_handle[i] \in Entries /\ sub_handle[i].handler # NoHandler
           /\ \A e \in Entries : Identical(sub_handle[i], e) <=> sub_handle[i] = e
<1>1. sub_handle[i] \in Entries
  BY DEF TypeOK
<1> QED
  BY <1>1, SubscribeAssumption DEF Entries, Identical

\* An ack changes the node and the outcome of an accepted request only.
LEMMA AckKeepsFresh ==
    ASSUME Fresh, UNCHANGED <<accepted, packet_id, list_sub, pc, req>>, OnWay' \subseteq OnWay,
           \A x \in Ids \ accepted : node_state'[x] = node_state[x] /\ outcome'[x] = outcome[x]
    PROVE  Fresh'
<1>1. accepted' \subseteq 1 .. packet_id' /\ OnWay' \subseteq accepted'
  BY DEF Fresh
<1>2. \A x \in Ids \ accepted' : outcome'[x] = <<>> /\ node_state'[x] = "NORMANL"
  BY DEF Fresh
<1>3. \A x \in list_sub' \ accepted' :
         \E u \in Users : pc'[u] \in {"send", "unlink"} /\ req'[u] = x
  BY DEF Fresh
<1> QED
  BY <1>1, <1>2, <1>3 DEF Fresh, Ids

\* A request that has been made names a topic; one to unsubscribe no handler.
LEMMA RequestMade ==
    ASSUME info \in Seq(Requests), Len(info) = packet_id, NEW id \in 1 .. packet_id
    PROVE  /\ info[id] \in Requests /\ info[id].topic \in Topics
           /\ info[id].type # "SUBSCRIBE" => info[id].handler = NoHandler
<1>1. info[id] \in Requests
  OBVIOUS
<1> QED
  BY <1>1, SubscribeAssumption

LEMMA EntryMade ==
    ASSUME info \in Seq(Requests), Len(info) = packet_id, NEW id \in 1 .. packet_id,
           info[id].type = "SUBSCRIBE"
    PROVE  EntryOf(id) \in Entries
<1>1. info[id] \in Requests /\ info[id].type # "UNSUBSCRIBE"
  BY RequestMade
<1>2. info[id].topic \in Topics /\ info[id].handler \in Handlers
  BY <1>1, SubscribeAssumption
<1> QED
  BY <1>2 DEF EntryOf, Entries

LEMMA Step == IInv /\ [Next]_vars => IInv'
<1> SUFFICES ASSUME IInv, [Next]_vars PROVE IInv'
  OBVIOUS
<1>a. /\ TypeOK /\ Fresh /\ Owners /\ Times /\ Distinct /\ Answers
      /\ HandlersMatchSubscriptions
  BY DEF IInv
<1>b. 1 .. packet_id \subseteq Ids /\ accepted \subseteq Ids /\ list_sub \subseteq Ids
  BY <1>a, SubscribeAssumption DEF TypeOK, Ids
<1> USE <1>a, <1>b, SubscribeAssumption DEF Ids
<1>1. ASSUME NEW u \in Users, Begin(u) PROVE IInv'
  <2>1. Distinct' /\ OnWay' = OnWay /\ NetworkType'
    BY <1>1, ConnectionSame DEF Begin, network
  <2>2. /\ pc[u] = "idle" /\ pc'[u] = "lock"
        /\ pc' \in [Users -> {"idle", "lock", "push", "send", "unlink"}]
        /\ \A v \in Users : v # u => pc'[v] = pc[v]
    BY <1>1 DEF Begin, TypeOK
  <2>3. /\ packet_id' = packet_id + 1 /\ packet_id + 1 \in Ids \ accepted /\ packet_id \in Nat
        /\ outcome[packet_id + 1] = <<>>
    BY <1>1 DEF Begin, TypeOK, Fresh
  <2>4. /\ info' \in Seq(Requests) /\ Len(info') = packet_id + 1
        /\ \A id \in 1 .. packet_id : info'[id] = info[id]
    <3>1. PICK r \in Requests : info' = Append(info, r)
      BY <1>1 DEF Begin
    <3> QED
      BY <3>1 DEF TypeOK
  <2>5. /\ req'[u] = packet_id + 1 /\ \A v \in Users : v # u => req'[v] = req[v]
        /\ req' \in [Users -> Ids \cup {0}]
    BY <1>1, <2>3 DEF Begin, TypeOK
  <2>6. TypeOK'
    <3>1. timer' \in [Users -> 0 .. RequestTimeout]
      BY <1>1 DEF Begin, TypeOK
    <3>2. packet_id' \in 0 .. MaxRequests
      BY <2>3
    <3>3. UNCHANGED <<client_state, list_sub, node_state, age, sub_handle, lock_write_buf,
                      yielder, link, breaks, history>>
      BY <1>1 DEF Begin, network
    <3> QED
      BY <2>1, <2>2, <2>3, <2>4, <2>5, <3>1, <3>2, <3>3
         DEF TypeOK, NetworkType, history
  <2>7. Fresh'
    <3>1. UNCHANGED <<accepted, c2s, s2c, outcome, node_state, list_sub>>
      BY <1>1 DEF Begin, network, history
    <3>2. accepted' \subseteq 1 .. packet_id'
      BY <2>3, <3>1 DEF Fresh
    <3>3. \A id \in list_sub' \ accepted' : \E v \in Users : pc'[v] \in {"send",
    "unlink"} /\ req'[v] = id
      BY <2>2, <2>5, <3>1 DEF Fresh
    <3> QED
      BY <2>1, <3>1, <3>2, <3>3 DEF Fresh
  <2>8. Owners'
    <3>1. UNCHANGED <<accepted, list_sub, age>>
      BY <1>1 DEF Begin, history
    <3>2. \A v \in Users : pc'[v] # "idle" => req'[v] \in (1 .. packet_id') \ accepted'
      <4>1. packet_id + 1 \in (1 .. packet_id') \ accepted'
        BY <2>3, <3>1
      <4>2. 1 .. packet_id \subseteq 1 .. packet_id'
        BY <2>3
      <4> QED
        BY <2>2, <2>5, <3>1, <4>1, <4>2 DEF Owners
    <3>3. \A v \in Users : pc[v] # "idle" => req[v] # packet_id + 1
      BY <2>3 DEF Owners
    <3>4. \A v, w \in Users :
             pc'[v] # "idle" /\ pc'[w] # "idle" /\ req'[v] = req'[w] => v = w
      BY <2>2, <2>5, <3>3 DEF Owners
    <3>5. \A v \in Users : pc'[v] \in {"send", "unlink"} => req'[v] \in list_sub'
      BY <2>2, <2>5, <3>1 DEF Owners
    <3>6. age[packet_id + 1] = 0 /\ \A id \in Ids : id > packet_id' => age[id] = 0
      BY <2>3 DEF Owners
    <3>7. \A v \in Users : pc'[v] \in {"lock", "push"} => age'[req'[v]] = 0
      BY <2>2, <2>5, <3>1, <3>6 DEF Owners
    <3> QED
      BY <3>1, <3>2, <3>4, <3>5, <3>6, <3>7 DEF Owners
  <2>9. Times'
    BY <1>1, <2>1, <2>2, <2>3, <2>4, <2>5
       DEF Begin, Times, TypeOK, Owners, list, calls, network, history
  <2>10. Answers'
    <3>1. UNCHANGED <<accepted, swallowed, outcome, node_state, list_sub>>
      BY <1>1 DEF Begin, history
    <3>2. \A type : OnceOrLate(type, <<>>)
      BY DEF OnceOrLate
    <3>3. AnsweredOnce'
      BY <2>3, <2>4, <3>1, <3>2 DEF Answers, AnsweredOnce
    <3> QED
      BY <2>1, <3>1, <3>3 DEF Answers, NoRequestForgotten
  <2>11. HandlersMatchSubscriptions'
    BY <1>1 DEF Begin, HandlersMatchSubscriptions, ConfirmedHasHandler, NoDuplicateHandler,
                history
  <2> QED
    BY <2>1, <2>2, <2>3, <2>4, <2>5, <2>6, <2>7, <2>8, <2>9, <2>10, <2>11 DEF IInv
<1>2. ASSUME NEW u \in Users, LockWriteBuf(u) PROVE IInv'
  <2>1. Distinct' /\ OnWay' = OnWay /\ NetworkType'
    BY <1>2, ConnectionSame DEF LockWriteBuf, network
  <2>2. /\ pc[u] = "lock" /\ pc'[u] = "push"
        /\ pc' \in [Users -> {"idle", "lock", "push", "send", "unlink"}]
        /\ \A v \in Users : v # u => pc'[v] = pc[v]
    BY <1>2 DEF LockWriteBuf, TypeOK
  <2>3. TypeOK'
    BY <1>2, <2>1, <2>2 DEF LockWriteBuf, TypeOK, NetworkType, list, calls, network, history
  <2>4. Fresh'
    BY <1>2, <2>1, <2>2 DEF LockWriteBuf, Fresh, TypeOK, list, calls, network, history
  <2>5. Owners'
    BY <1>2, <2>1, <2>2
       DEF LockWriteBuf, Owners, TypeOK, Fresh, list, calls, network, history
  <2>6. Times'
    BY <1>2, <2>1, <2>2
       DEF LockWriteBuf, Times, TypeOK, Owners, list, calls, network, history
  <2>7. Answers' /\ HandlersMatchSubscriptions'
    BY <1>2, <2>1, <2>2
       DEF LockWriteBuf, Answers, AnsweredOnce, NoRequestForgotten, Fresh,
           HandlersMatchSubscriptions, ConfirmedHasHandler, NoDuplicateHandler, list, calls, network, history
  <2> QED
    BY <2>1, <2>2, <2>3, <2>4, <2>5, <2>6, <2>7 DEF IInv
<1>3. ASSUME NEW u \in Users, PushSubInfo(u) PROVE IInv'
  <2>1. Distinct' /\ OnWay' = OnWay /\ NetworkType'
    BY <1>3, ConnectionSame DEF PushSubInfo, network
  <2>2. /\ pc[u] = "push" /\ pc'[u] = "send"
        /\ pc' \in [Users -> {"idle", "lock", "push", "send", "unlink"}]
        /\ \A v \in Users : v # u => pc'[v] = pc[v]
    BY <1>3 DEF PushSubInfo, TypeOK
  <2>3. TypeOK'
    <3>1. req[u] \in Ids /\ ~ListFull /\ list_sub' = list_sub \cup {req[u]}
      BY <1>3, <2>2 DEF PushSubInfo, Owners, TypeOK
    <3>2. list_sub' \subseteq Ids /\ Cardinality(list_sub') <= SubRequestMax
      BY <3>1, ListLength DEF TypeOK
    <3> QED
      BY <1>3, <2>1, <2>2, <3>2 DEF PushSubInfo, TypeOK, NetworkType, network, history
  <2>4. Fresh'
    BY <1>3, <2>1, <2>2 DEF PushSubInfo, Fresh, TypeOK, list, calls, network, history
  <2>5. Owners'
    BY <1>3, <2>1, <2>2
       DEF PushSubInfo, Owners, TypeOK, Fresh, list, calls, network, history
  <2>6. Times'
    BY <1>3, <2>1, <2>2
       DEF PushSubInfo, Times, TypeOK, Owners, list, calls, network, history
  <2>7. Answers'
    <3>1. req[u] \in Ids \ accepted /\ outcome[req[u]] = <<>> /\ node_state[req[u]] = "NORMANL"
      BY <2>2 DEF Owners, Fresh, TypeOK
    <3>2. /\ UNCHANGED <<outcome, node_state, info, packet_id, accepted, swallowed>>
          /\ list_sub' = list_sub \cup {req[u]}
      BY <1>3 DEF PushSubInfo, history
    <3>3. NoRequestForgotten'
      BY <3>1, <3>2 DEF Answers, NoRequestForgotten
    <3>4. AnsweredOnce'
      BY <3>2 DEF Answers, AnsweredOnce
    <3> QED
      BY <2>1, <3>1, <3>2, <3>3, <3>4 DEF Answers
  <2>8. HandlersMatchSubscriptions'
    BY <1>3, <2>1, <2>2
       DEF PushSubInfo, HandlersMatchSubscriptions, ConfirmedHasHandler,
           NoDuplicateHandler, list, calls, network, history
  <2> QED
    BY <2>1, <2>2, <2>3, <2>4, <2>5, <2>6, <2>7, <2>8 DEF IInv
<1>4. ASSUME NEW u \in Users, PushSubInfoFail(u) PROVE IInv'
  <2>1. Distinct' /\ OnWay' = OnWay /\ NetworkType'
    BY <1>4, ConnectionSame DEF PushSubInfoFail, network
  <2>2. /\ pc[u] = "push" /\ pc'[u] = "idle"
        /\ pc' \in [Users -> {"idle", "lock", "push", "send", "unlink"}]
        /\ \A v \in Users : v # u => pc'[v] = pc[v]
    BY <1>4 DEF PushSubInfoFail, TypeOK
  <2>3. TypeOK'
    BY <1>4, <2>1, <2>2
       DEF PushSubInfoFail, TypeOK, NetworkType, list, calls, network, history
  <2>4. Fresh'
    BY <1>4, <2>1, <2>2 DEF PushSubInfoFail, Fresh, TypeOK, list, calls, network, history
  <2>5. Owners'
    BY <1>4, <2>1, <2>2
       DEF PushSubInfoFail, Owners, TypeOK, Fresh, list, calls, network, history
  <2>6. Times'
    BY <1>4, <2>1, <2>2
       DEF PushSubInfoFail, Times, TypeOK, Owners, list, calls, network, history
  <2>7. Answers' /\ HandlersMatchSubscriptions'
    BY <1>4, <2>1, <2>2
       DEF PushSubInfoFail, Answers, AnsweredOnce, NoRequestForgotten, Fresh,
           HandlersMatchSubscriptions, ConfirmedHasHandler, NoDuplicateHandler, list, calls, network, history
  <2> QED
    BY <2>1, <2>2, <2>3, <2>4, <2>5, <2>6, <2>7 DEF IInv
<1>5. ASSUME NEW u \in Users, SendOk(u) PROVE IInv'
  <2>1. req[u] \in Ids \ OnWay /\ c2s' = Append(c2s, req[u]) /\ s2c' = s2c
    BY <1>5 DEF SendOk, Owners, Fresh, TypeOK
  <2>2. Distinct' /\ OnWay' = OnWay \cup {req[u]} /\ NetworkType'
    BY <2>1, Sent
  <2>3. /\ pc[u] = "send" /\ pc'[u] = "idle"
        /\ pc' \in [Users -> {"idle", "lock", "push", "send", "unlink"}]
        /\ \A v \in Users : v # u => pc'[v] = pc[v]
    BY <1>5 DEF SendOk, TypeOK
  <2>4. TypeOK'
    <3>1. accepted' \subseteq Ids
      BY <1>5, <2>1 DEF SendOk, TypeOK
    <3> QED
      BY <1>5, <2>2, <2>3, <3>1 DEF SendOk, TypeOK, NetworkType, list
  <2>5. Fresh'
    <3>1. UNCHANGED <<packet_id, outcome, node_state, list_sub,
    req>> /\ accepted' = accepted \cup {req[u]}
      BY <1>5 DEF SendOk, list
    <3>2. req[u] \in 1 .. packet_id
      BY <2>3 DEF Owners
    <3>3. \A id \in list_sub' \ accepted' : \E v \in Users : pc'[v] \in {"send",
    "unlink"} /\ req'[v] = id
      BY <2>3, <3>1 DEF Fresh
    <3> QED
      BY <2>2, <3>1, <3>2, <3>3 DEF Fresh
  <2>6. Owners'
    BY <1>5, <2>1, <2>2, <2>3
       DEF SendOk, Owners, TypeOK, Fresh, list, calls, network, history
  <2>7. Times'
    BY <1>5, <2>1, <2>2, <2>3
       DEF SendOk, Times, TypeOK, Owners, list, calls, network, history
  <2>8. Answers'
    <3>1. /\ req[u] \in Ids \ accepted /\ req[u] \in list_sub
          /\ outcome[req[u]] = <<>> /\ node_state[req[u]] = "NORMANL"
      BY <2>3 DEF Owners, Fresh, TypeOK
    <3>2. /\ UNCHANGED <<packet_id, outcome, node_state, list_sub, info, swallowed>>
          /\ accepted' = accepted \cup {req[u]}
      BY <1>5 DEF SendOk, list
    <3>3. NoRequestForgotten'
      BY <3>1, <3>2 DEF Answers, NoRequestForgotten
    <3>4. AnsweredOnce'
      BY <3>2 DEF Answers, AnsweredOnce
    <3> QED
      BY <2>2, <3>1, <3>2, <3>3, <3>4 DEF Answers, Acked
  <2>9. HandlersMatchSubscriptions'
    BY <1>5, <2>1, <2>2, <2>3
       DEF SendOk, HandlersMatchSubscriptions, ConfirmedHasHandler, NoDuplicateHandler, list, calls, network, history
  <2> QED
    BY <2>1, <2>2, <2>3, <2>4, <2>5, <2>6, <2>7, <2>8, <2>9 DEF IInv
<1>6. ASSUME NEW u \in Users, SendFail(u) PROVE IInv'
  <2>1. Distinct' /\ OnWay' = OnWay /\ NetworkType'
    BY <1>6, ConnectionSame DEF SendFail, network
  <2>2. /\ pc[u] = "send" /\ pc'[u] = "unlink"
        /\ pc' \in [Users -> {"idle", "lock", "push", "send", "unlink"}]
        /\ \A v \in Users : v # u => pc'[v] = pc[v]
    BY <1>6 DEF SendFail, TypeOK
  <2>3. TypeOK'
    <3>1. timer' \in [Users -> 0 .. RequestTimeout]
      BY <1>6 DEF SendFail, TypeOK
    <3> QED
      BY <1>6, <2>1, <2>2, <3>1 DEF SendFail, TypeOK, NetworkType, list, network, history
  <2>4. Fresh'
    BY <1>6, <2>1, <2>2 DEF SendFail, Fresh, TypeOK, list, calls, network, history
  <2>5. Owners'
    BY <1>6, <2>1, <2>2 DEF SendFail, Owners, TypeOK, Fresh, list, calls, network, history
  <2>6. Times'
    BY <1>6, <2>1, <2>2 DEF SendFail, Times, TypeOK, Owners, list, calls, network, history
  <2>7. Answers' /\ HandlersMatchSubscriptions'
    BY <1>6, <2>1, <2>2
       DEF SendFail, Answers, AnsweredOnce, NoRequestForgotten, Fresh,
           HandlersMatchSubscriptions, ConfirmedHasHandler, NoDuplicateHandler, list, calls, network, history
  <2> QED
    BY <2>1, <2>2, <2>3, <2>4, <2>5, <2>6, <2>7 DEF IInv
<1>7. ASSUME NEW u \in Users, Unlink(u) PROVE IInv'
  <2>1. Distinct' /\ OnWay' = OnWay /\ NetworkType'
    BY <1>7, ConnectionSame DEF Unlink, network
  <2>2. /\ pc[u] = "unlink" /\ pc'[u] = "idle"
        /\ pc' \in [Users -> {"idle", "lock", "push", "send", "unlink"}]
        /\ \A v \in Users : v # u => pc'[v] = pc[v]
    BY <1>7 DEF Unlink, TypeOK
  <2>3. TypeOK'
    <3>1. list_sub' \subseteq list_sub
      BY <1>7 DEF Unlink
    <3>2. list_sub' \subseteq Ids /\ Cardinality(list_sub') <= SubRequestMax
      BY <3>1, ListLength DEF TypeOK
    <3> QED
      BY <1>7, <2>1, <2>2, <3>2 DEF Unlink, TypeOK, NetworkType, network, history
  <2>4. Fresh'
    BY <1>7, <2>1, <2>2 DEF Unlink, Fresh, TypeOK, list, calls, network, history
  <2>5. Owners'
    <3>1. UNCHANGED <<packet_id, accepted, req, age>> /\ list_sub' = list_sub \ {req[u]}
      BY <1>7 DEF Unlink, history
    <3>2. \A v \in Users : pc'[v] # "idle" => v # u /\ req[v] # req[u]
      BY <2>2 DEF Owners
    <3> QED
      BY <2>2, <3>1, <3>2 DEF Owners
  <2>6. Times'
    BY <1>7, <2>1, <2>2 DEF Unlink, Times, TypeOK, Owners, list, calls, network, history
  <2>7. Answers'
    <3>1. req[u] \notin accepted
      BY <2>2 DEF Owners
    <3>2. /\ UNCHANGED <<outcome, node_state, info, packet_id, accepted, swallowed>>
          /\ list_sub' = list_sub \ {req[u]}
      BY <1>7 DEF Unlink, history
    <3>3. NoRequestForgotten'
      BY <3>1, <3>2 DEF Answers, NoRequestForgotten
    <3>4. AnsweredOnce'
      BY <3>2 DEF Answers, AnsweredOnce
    <3> QED
      BY <2>1, <3>2, <3>3, <3>4 DEF Answers
  <2>8. HandlersMatchSubscriptions'
    BY <1>7, <2>1, <2>2
       DEF Unlink, HandlersMatchSubscriptions, ConfirmedHasHandler, NoDuplicateHandler, list, calls, network, history
  <2> QED
    BY <2>1, <2>2, <2>3, <2>4, <2>5, <2>6, <2>7, <2>8 DEF IInv
<1>8. CASE CycleReadFail
  <2>1. Distinct' /\ OnWay' = OnWay /\ NetworkType'
    BY <1>8, ConnectionSame DEF CycleReadFail, network
  <2>2. TypeOK'
    BY <1>8, <2>1 DEF CycleReadFail, TypeOK, NetworkType, list, calls, network, history
  <2>3. Fresh' /\ Owners' /\ Times' /\ Answers' /\ HandlersMatchSubscriptions'
    BY <1>8, <2>1
       DEF CycleReadFail, Fresh, Owners, Times, Answers, AnsweredOnce,
           NoRequestForgotten, HandlersMatchSubscriptions, ConfirmedHasHandler,
           NoDuplicateHandler, list, calls, network, history
  <2> QED
    BY <2>1, <2>2, <2>3 DEF IInv
<1>9. CASE CycleIdle
  <2>1. Distinct' /\ OnWay' = OnWay /\ NetworkType'
    BY <1>9, ConnectionSame DEF CycleIdle, network
  <2>2. TypeOK'
    BY <1>9, <2>1 DEF CycleIdle, TypeOK, NetworkType, list, calls, network, history
  <2>3. Fresh' /\ Owners' /\ Times' /\ Answers' /\ HandlersMatchSubscriptions'
    BY <1>9, <2>1
       DEF CycleIdle, Fresh, Owners, Times, Answers, AnsweredOnce,
           NoRequestForgotten, HandlersMatchSubscriptions, ConfirmedHasHandler,
           NoDuplicateHandler, list, calls, network, history
  <2> QED
    BY <2>1, <2>2, <2>3 DEF IInv
<1>10. CASE RecvSubackRefused
  <2> DEFINE id == Head(s2c).id
  <2>1. /\ Distinct' /\ OnWay' = OnWay \ {id} /\ NetworkType'
        /\ id \in OnWay /\ id \in Ids /\ id \in accepted /\ id \in 1 .. packet_id
    BY <1>10, Read DEF RecvSubackRefused, AckArrives, OnWay, Fresh
  <2>2. MaskSubInfo(id) /\ Notify(id, "NACK")
    BY <1>10 DEF RecvSubackRefused
  <2>3. /\ node_state' \in [Ids -> {"NORMANL", "INVALID"}]
        /\ id \in list_sub => node_state'[id] = "INVALID"
        /\ id \notin list_sub => node_state'[id] = node_state[id]
        /\ \A x \in Ids : x # id => node_state'[x] = node_state[x]
    BY <2>1, <2>2, Masked
  <2>4. /\ outcome' \in [Ids -> Reports] /\ outcome'[id] = Append(outcome[id], "NACK")
        /\ \A x \in Ids : x # id => outcome'[x] = outcome[x]
    BY <2>1, <2>2, Notified DEF Events
  <2>5. TypeOK'
    BY <1>10, <2>1, <2>3, <2>4
       DEF RecvSubackRefused, AckArrives, AckRead, TypeOK, NetworkType, list, calls,
           network, history
  <2>6. Fresh'
    <3>1. UNCHANGED <<accepted, packet_id, list_sub, pc, req, info, swallowed>>
      BY <1>10 DEF RecvSubackRefused, list, calls, history, network
    <3>2. /\ Ids' = Ids
          /\ \A x \in Ids \ accepted : /\ node_state'[x] = node_state[x]
                                      /\ outcome'[x] = outcome[x]
      BY <2>1, <2>3, <2>4, <3>1
    <3> QED
      BY <2>1, <3>1, <3>2, AckKeepsFresh
  <2>7. Answers'
    <3>1. UNCHANGED <<accepted, packet_id, list_sub, pc, req, info, swallowed>>
      BY <1>10 DEF RecvSubackRefused, list, calls, history, network
    <3>2. \A x \in Ids :
             Acked(outcome'[x]) \/ node_state'[x] = "INVALID"
                 => x \notin OnWay'
      BY <2>1, <2>3, <2>4, <3>1 DEF Answers
    <3>3. \A x \in list_sub : outcome'[x] # <<>> => node_state'[x] = "INVALID"
      BY <2>1, <2>3, <2>4, <3>1 DEF Answers, TypeOK
    <3>4. info[id].type = "SUBSCRIBE"
      BY <1>10 DEF RecvSubackRefused, AckArrives
    <3>5. ~Acked(outcome[id]) /\ "NACK" \in Events /\ outcome[id] \in Reports
      BY <2>1 DEF Answers, TypeOK, Events
    <3>6. OnceOrLate(info[id].type, outcome'[id]) /\ outcome'[id] # <<>>
      BY <2>4, <3>4, <3>5, Reported
    <3>7. AnsweredOnce' /\ NoRequestForgotten'
      BY <2>1, <2>3, <2>4, <3>1, <3>6, OthersAsBefore DEF Answers
    <3> QED
      BY <3>1, <3>2, <3>3, <3>7 DEF Answers
  <2>8. HandlersMatchSubscriptions'
    <3>1. UNCHANGED <<sub_handle, subscribed, lost>>
      BY <1>10 DEF RecvSubackRefused
    <3> QED
      BY <3>1 DEF HandlersMatchSubscriptions, ConfirmedHasHandler, NoDuplicateHandler
  <2>9. Owners' /\ Times'
    BY <1>10, <2>1, <2>3, <2>4
       DEF RecvSubackRefused, Owners, Fresh, Times, list, calls, network, history
  <2> QED
    BY <2>1, <2>2, <2>3, <2>4, <2>5, <2>6, <2>7, <2>8, <2>9 DEF IInv
<1>11. CASE RecvSubackUnknown
  <2> DEFINE id == Head(s2c).id
  <2>1. /\ Distinct' /\ OnWay' = OnWay \ {id} /\ NetworkType'
        /\ id \in OnWay /\ id \in Ids /\ id \in accepted /\ id \in 1 .. packet_id
    BY <1>11, Read DEF RecvSubackUnknown, AckArrives, OnWay, Fresh
  <2>2. TypeOK'
    BY <1>11, <2>1
       DEF RecvSubackUnknown, AckArrives, AckRead, TypeOK, NetworkType, list, calls,
           network, history
  <2>3. Fresh'
    BY <1>11, <2>1
       DEF RecvSubackUnknown, AckArrives, AckRead, Fresh, TypeOK, list, calls, network,
           history
  <2>4. Answers'
    BY <1>11, <2>1
       DEF RecvSubackUnknown, AckArrives, AckRead, Answers, AnsweredOnce,
           NoRequestForgotten, TypeOK, Fresh, list, calls, network, history
  <2>5. Owners' /\ Times' /\ HandlersMatchSubscriptions'
    BY <1>11, <2>1
       DEF RecvSubackUnknown, Owners, Fresh, Times, HandlersMatchSubscriptions,
           ConfirmedHasHandler, NoDuplicateHandler, list, calls, network,
           history
  <2> QED
    BY <2>1, <2>2, <2>3, <2>4, <2>5 DEF IInv
<1>12. CASE RecvSubackFull
  <2> DEFINE id == Head(s2c).id
  <2>1. /\ Distinct' /\ OnWay' = OnWay \ {id} /\ NetworkType'
        /\ id \in OnWay /\ id \in Ids /\ id \in accepted /\ id \in 1 .. packet_id
    BY <1>12, Read DEF RecvSubackFull, AckArrives, OnWay, Fresh
  <2>2. MaskSubInfo(id)
    BY <1>12 DEF RecvSubackFull
  <2>3. /\ node_state' \in [Ids -> {"NORMANL", "INVALID"}]
        /\ id \in list_sub => node_state'[id] = "INVALID"
        /\ id \notin list_sub => node_state'[id] = node_state[id]
        /\ \A x \in Ids : x # id => node_state'[x] = node_state[x]
    BY <2>1, <2>2, Masked
  <2>4. TypeOK'
    BY <1>12, <2>1, <2>3
       DEF RecvSubackFull, AckArrives, AckRead, EntryOf, TypeOK, NetworkType, list,
           calls, network, history
  <2>5. Fresh'
    <3>1. UNCHANGED <<accepted, packet_id, list_sub, pc, req, info, outcome>>
      BY <1>12 DEF RecvSubackFull, list, calls, history, network
    <3>2. /\ Ids' = Ids
          /\ \A x \in Ids \ accepted : /\ node_state'[x] = node_state[x]
                                      /\ outcome'[x] = outcome[x]
      BY <2>1, <2>3, <3>1
    <3> QED
      BY <2>1, <2>3, <3>1, <3>2 DEF Fresh
  <2>6. Answers'
    <3>1. UNCHANGED <<accepted, packet_id, list_sub, pc, req, info, outcome>>
      BY <1>12 DEF RecvSubackFull, list, calls, history, network
    <3>2. \A x \in Ids :
             Acked(outcome'[x]) \/ node_state'[x] = "INVALID"
                 => x \notin OnWay'
      BY <2>1, <2>3, <3>1 DEF Answers
    <3>3. \A x \in list_sub : outcome'[x] # <<>> => node_state'[x] = "INVALID"
      BY <2>1, <2>3, <3>1 DEF Answers, TypeOK
    <3>4. AnsweredOnce'
      BY <3>1 DEF Answers, AnsweredOnce
    <3>5. NoRequestForgotten'
      <4>1. swallowed' = swallowed \cup {id}
        BY <1>12 DEF RecvSubackFull
      <4> QED
        BY <2>3, <3>1, <4>1 DEF Answers, NoRequestForgotten
    <3> QED
      BY <3>1, <3>2, <3>3, <3>4, <3>5 DEF Answers
  <2>7. Owners' /\ Times' /\ HandlersMatchSubscriptions'
    BY <1>12, <2>1, <2>3
       DEF RecvSubackFull, Owners, Fresh, Times, HandlersMatchSubscriptions,
           ConfirmedHasHandler, NoDuplicateHandler, list, calls, network,
           history
  <2> QED
    BY <2>1, <2>2, <2>3, <2>4, <2>5, <2>6, <2>7 DEF IInv
<1>13. CASE RecvSuback
  <2> DEFINE id == Head(s2c).id
  <2>1. /\ Distinct' /\ OnWay' = OnWay \ {id} /\ NetworkType'
        /\ id \in OnWay /\ id \in Ids /\ id \in accepted /\ id \in 1 .. packet_id
    BY <1>13, Read DEF RecvSuback, AckArrives, OnWay, Fresh
  <2>2. MaskSubInfo(id) /\ Notify(id, "SUCCESS")
    BY <1>13 DEF RecvSuback
  <2>3. /\ node_state' \in [Ids -> {"NORMANL", "INVALID"}]
        /\ id \in list_sub => node_state'[id] = "INVALID"
        /\ id \notin list_sub => node_state'[id] = node_state[id]
        /\ \A x \in Ids : x # id => node_state'[x] = node_state[x]
    BY <2>1, <2>2, Masked
  <2>4. /\ outcome' \in [Ids -> Reports] /\ outcome'[id] = Append(outcome[id], "SUCCESS")
        /\ \A x \in Ids : x # id => outcome'[x] = outcome[x]
    BY <2>1, <2>2, Notified DEF Events
  <2>5. TypeOK'
    <3>1. EntryOf(id) \in Entries
      BY <1>13, <2>1, EntryMade DEF RecvSuback, AckArrives, TypeOK
    <3>2. sub_handle' \in [Indices -> Entries \cup {Empty}]
      BY <1>13, <3>1 DEF RecvSuback, TypeOK
    <3>3. /\ subscribed' \subseteq Entries /\ unsubscribed' \subseteq Topics
          /\ lost' \subseteq Entries /\ swallowed' = swallowed
      BY <1>13, <3>1 DEF RecvSuback, TypeOK
    <3> QED
      BY <1>13, <2>1, <2>3, <2>4, <3>2, <3>3
         DEF RecvSuback, TypeOK, NetworkType, AckRead, calls
  <2>6. Fresh'
    <3>1. UNCHANGED <<accepted, packet_id, list_sub, pc, req, info, swallowed>>
      BY <1>13 DEF RecvSuback, list, calls, history, network
    <3>2. /\ Ids' = Ids
          /\ \A x \in Ids \ accepted : /\ node_state'[x] = node_state[x]
                                      /\ outcome'[x] = outcome[x]
      BY <2>1, <2>3, <2>4, <3>1
    <3> QED
      BY <2>1, <3>1, <3>2, AckKeepsFresh
  <2>7. Answers'
    <3>1. UNCHANGED <<accepted, packet_id, list_sub, pc, req, info, swallowed>>
      BY <1>13 DEF RecvSuback, list, calls, history, network
    <3>2. \A x \in Ids :
             Acked(outcome'[x]) \/ node_state'[x] = "INVALID"
                 => x \notin OnWay'
      BY <2>1, <2>3, <2>4, <3>1 DEF Answers
    <3>3. \A x \in list_sub : outcome'[x] # <<>> => node_state'[x] = "INVALID"
      BY <2>1, <2>3, <2>4, <3>1 DEF Answers, TypeOK
    <3>4. outcome[id] = <<>>
      BY <1>13, <2>1 DEF RecvSuback, Answers, TypeOK
    <3>5. "SUCCESS" \in Events /\ outcome[id] \in Reports
      BY <2>1 DEF TypeOK, Events
    <3>6. OnceOrLate(info[id].type, outcome'[id]) /\ outcome'[id] # <<>>
      BY <2>4, <3>4, <3>5, Reported
    <3>7. AnsweredOnce' /\ NoRequestForgotten'
      BY <2>1, <2>3, <2>4, <3>1, <3>6, OthersAsBefore DEF Answers
    <3> QED
      BY <3>1, <3>2, <3>3, <3>7 DEF Answers
  <2>8. HandlersMatchSubscriptions'
    <3>1. EntryOf(id) \in Entries
      BY <1>13, <2>1, EntryMade DEF RecvSuback, AckArrives, TypeOK
    <3>2. /\ subscribed' = subscribed \cup {EntryOf(id)} /\ lost' = lost \ {EntryOf(id)}
          /\ sub_handle \in [Indices -> Entries \cup {Empty}]
      BY <1>13 DEF RecvSuback, TypeOK
    <3>3. \/ IsDuplicate(EntryOf(id)) /\ sub_handle' = sub_handle
          \/ /\ ~IsDuplicate(EntryOf(id))
             /\ \E i \in Indices :
                  FirstFree(i) /\ sub_handle' = [sub_handle EXCEPT ![i] = EntryOf(id)]
      BY <1>13 DEF RecvSuback
    <3>4. \A i \in Indices : sub_handle[i] # Empty => sub_handle'[i] = sub_handle[i]
      BY <3>2, <3>3 DEF FirstFree
    <3>5. \E i \in Indices : sub_handle'[i] = EntryOf(id)
      BY <3>1, <3>2, <3>3, TableEntry DEF IsDuplicate
    <3>6. NoDuplicateHandler'
      BY <3>1, <3>2, <3>3, TableEntry
         DEF IsDuplicate, FirstFree, HandlersMatchSubscriptions, NoDuplicateHandler
    <3>7. EntryOf(id) # Empty /\ \A e \in Entries : e # Empty
      BY <3>1 DEF Entries
    <3>8. ConfirmedHasHandler'
      <4>1. ASSUME NEW e \in subscribed \ lost PROVE \E i \in Indices : sub_handle'[i] = e
        BY <3>4, <3>7 DEF HandlersMatchSubscriptions, ConfirmedHasHandler, TypeOK
      <4> QED
        BY <3>2, <3>5, <4>1 DEF ConfirmedHasHandler
    <3> QED
      BY <3>6, <3>8 DEF HandlersMatchSubscriptions
  <2>9. Owners' /\ Times'
    BY <1>13, <2>1, <2>3, <2>4
       DEF RecvSuback, Owners, Fresh, Times, list, calls, network, history
  <2> QED
    BY <2>1, <2>2, <2>3, <2>4, <2>5, <2>6, <2>7, <2>8, <2>9 DEF IInv
<1>14. CASE RecvUnsuback
  <2> DEFINE id == Head(s2c).id
  <2>1. /\ Distinct' /\ OnWay' = OnWay \ {id} /\ NetworkType'
        /\ id \in OnWay /\ id \in Ids /\ id \in accepted /\ id \in 1 .. packet_id
    BY <1>14, Read DEF RecvUnsuback, AckArrives, OnWay, Fresh
  <2>2. MaskSubInfo(id) /\ Notify(id, "SUCCESS")
    BY <1>14 DEF RecvUnsuback
  <2>3. /\ node_state' \in [Ids -> {"NORMANL", "INVALID"}]
        /\ id \in list_sub => node_state'[id] = "INVALID"
        /\ id \notin list_sub => node_state'[id] = node_state[id]
        /\ \A x \in Ids : x # id => node_state'[x] = node_state[x]
    BY <2>1, <2>2, Masked
  <2>4. /\ outcome' \in [Ids -> Reports] /\ outcome'[id] = Append(outcome[id], "SUCCESS")
        /\ \A x \in Ids : x # id => outcome'[x] = outcome[x]
    BY <2>1, <2>2, Notified DEF Events
  <2>5. TypeOK'
    <3>1. info[id] \in Requests /\ info[id].topic \in Topics
      <4>1. info \in Seq(Requests) /\ Len(info) = packet_id
        BY DEF TypeOK
      <4> QED
        BY <2>1, <4>1, RequestMade
    <3>2. sub_handle' \in [Indices -> Entries \cup {Empty}]
      BY <1>14 DEF RecvUnsuback, RemoveIdentical, TypeOK
    <3>3. /\ subscribed' \subseteq Entries /\ unsubscribed' \subseteq Topics
          /\ lost' \subseteq Entries /\ swallowed' = swallowed
      BY <1>14, <3>1 DEF RecvUnsuback, TypeOK
    <3> QED
      BY <1>14, <2>1, <2>3, <2>4, <3>2, <3>3
         DEF RecvUnsuback, TypeOK, NetworkType, AckRead, calls
  <2>6. Fresh'
    <3>1. UNCHANGED <<accepted, packet_id, list_sub, pc, req, info, swallowed>>
      BY <1>14 DEF RecvUnsuback, list, calls, history, network
    <3>2. /\ Ids' = Ids
          /\ \A x \in Ids \ accepted : /\ node_state'[x] = node_state[x]
                                      /\ outcome'[x] = outcome[x]
      BY <2>1, <2>3, <2>4, <3>1
    <3> QED
      BY <2>1, <3>1, <3>2, AckKeepsFresh
  <2>7. Answers'
    <3>1. UNCHANGED <<accepted, packet_id, list_sub, pc, req, info, swallowed>>
      BY <1>14 DEF RecvUnsuback, list, calls, history, network
    <3>2. \A x \in Ids :
             Acked(outcome'[x]) \/ node_state'[x] = "INVALID"
                 => x \notin OnWay'
      BY <2>1, <2>3, <2>4, <3>1 DEF Answers
    <3>3. \A x \in list_sub : outcome'[x] # <<>> => node_state'[x] = "INVALID"
      BY <2>1, <2>3, <2>4, <3>1 DEF Answers, TypeOK
    <3>4. info[id].type = "UNSUBSCRIBE"
      BY <1>14 DEF RecvUnsuback, AckArrives
    <3>5. ~Acked(outcome[id]) /\ "SUCCESS" \in Events /\ outcome[id] \in Reports
      BY <2>1 DEF Answers, TypeOK, Events
    <3>6. OnceOrLate(info[id].type, outcome'[id]) /\ outcome'[id] # <<>>
      <4>1. outcome[id] = <<>> \/ outcome[id] = <<"TIMEOUT">>
        BY <3>5, Reported
      <4>2. outcome'[id] # <<>>
        BY <2>4, <3>5, Reported
      <4>3. CASE outcome[id] = <<>>
        <5>1. outcome'[id] = <<"SUCCESS">>
          BY <2>4, <3>5, <4>3, Reported
        <5> QED
          BY <3>5, <4>2, <5>1, Reported
      <4>4. CASE outcome[id] = <<"TIMEOUT">>
        <5>1. outcome'[id] = <<"TIMEOUT", "SUCCESS">>
          BY <2>4, <3>5, <4>4, Reported
        <5>2. OnceOrLate("UNSUBSCRIBE", <<"TIMEOUT", "SUCCESS">>)
          BY DEF OnceOrLate
        <5> QED
          BY <3>4, <4>2, <5>1, <5>2
      <4> QED
        BY <4>1, <4>3, <4>4
    <3>7. AnsweredOnce' /\ NoRequestForgotten'
      <4>1. AnsweredOnce /\ NoRequestForgotten
        BY DEF Answers
      <4>2. \A x \in Ids : x # id => outcome'[x] = outcome[x] /\ node_state'[x] = node_state[x]
        BY <2>3, <2>4
      <4> HIDE DEF id
      <4> QED
        BY <2>1, <3>1, <3>6, <4>1, <4>2, OthersAsBefore
    <3> QED
      BY <3>1, <3>2, <3>3, <3>7 DEF Answers
  <2>8. HandlersMatchSubscriptions'
    <3>1. UNCHANGED <<info, packet_id>> /\ info[id].type # "SUBSCRIBE"
      BY <1>14 DEF RecvUnsuback, AckArrives
    <3>2. \A i \in Indices : sub_handle'[i] \in {Empty, sub_handle[i]}
      BY <1>14 DEF RecvUnsuback, RemoveIdentical
    <3>3. NoDuplicateHandler'
      BY <3>2 DEF HandlersMatchSubscriptions, NoDuplicateHandler
    <3>4. info[id] \in Requests /\ info[id].handler = NoHandler
      <4>1. info \in Seq(Requests) /\ Len(info) = packet_id
        BY DEF TypeOK
      <4> QED
        BY <2>1, <3>1, <4>1, RequestMade
    <3>5. subscribed' \subseteq subscribed /\ lost \subseteq lost'
      BY <1>14 DEF RecvUnsuback
    <3>6. ASSUME NEW i \in Indices, sub_handle[i] # Empty, sub_handle[i] \notin lost'
          PROVE  sub_handle'[i] = sub_handle[i]
      <4>1. ASSUME RemoveIdentical(EntryOf(id)) PROVE sub_handle'[i] = sub_handle[i]
        BY <3>4, <3>6, <4>1, TableEntry DEF RemoveIdentical, Identical, EntryOf
      <4>2. ASSUME NEW e \in Entries, RemoveIdentical(e), lost' = lost \cup {e}
            PROVE  sub_handle'[i] = sub_handle[i]
        BY <3>6, <4>2, TableEntry DEF RemoveIdentical
      <4>3. ASSUME sub_handle' = sub_handle PROVE sub_handle'[i] = sub_handle[i]
        BY <4>3
      <4> QED
        BY <1>14, <4>1, <4>2, <4>3 DEF RecvUnsuback
    <3>7. ConfirmedHasHandler'
      <4>1. \A e \in Entries : e # Empty
        BY DEF Entries
      <4> QED
        BY <3>5, <3>6, <4>1 DEF HandlersMatchSubscriptions, ConfirmedHasHandler, TypeOK
    <3> QED
      BY <3>3, <3>7 DEF HandlersMatchSubscriptions
  <2>9. Owners' /\ Times'
    BY <1>14, <2>1, <2>3, <2>4
       DEF RecvUnsuback, Owners, Fresh, Times, list, calls, network, history
  <2> QED
    BY <2>1, <2>2, <2>3, <2>4, <2>5, <2>6, <2>7, <2>8, <2>9 DEF IInv
<1>15. CASE SubInfoProc
  <2>1. Distinct' /\ OnWay' = OnWay /\ NetworkType'
    BY <1>15, ConnectionSame DEF SubInfoProc, network
  <2>2. /\ UNCHANGED <<packet_id, node_state, age, pc, req, timer, info, accepted, swallowed>>
        /\ list_sub' \subseteq list_sub
    BY <1>15 DEF SubInfoProc, calls
  <2>3. \A x \in list_sub \ list_sub' :
            \/ node_state[x] = "INVALID"
            \/ age[x] > 2 * RequestTimeout /\ outcome'[x] = Append(outcome[x], "TIMEOUT")
    BY <1>15 DEF SubInfoProc, AckTimedOut, TypeOK
  <2>4. \A x \in Ids : \/ outcome'[x] = outcome[x]
                     \/ /\ x \in list_sub \ list_sub' /\ node_state[x] # "INVALID"
                        /\ outcome'[x] = <<"TIMEOUT">> /\ outcome[x] = <<>>
    <3>1. ASSUME NEW x \in list_sub, node_state[x] # "INVALID",
                 outcome'[x] = Append(outcome[x], "TIMEOUT")
          PROVE  outcome'[x] = <<"TIMEOUT">> /\ outcome[x] = <<>>
      BY <3>1, Reported DEF Answers, TypeOK, Events
    <3> QED
      BY <1>15, <3>1 DEF SubInfoProc
  <2>5. \A u \in Users : pc[u] \in {"send", "unlink"} => req[u] \in list_sub'
    <3>1. ASSUME NEW u \in Users, pc[u] \in {"send", "unlink"} PROVE req[u] \in list_sub'
      <4>1. req[u] \in list_sub /\ req[u] \in Ids \ accepted
        BY <3>1 DEF Owners, TypeOK
      <4>2. node_state[req[u]] # "INVALID"
        BY <4>1 DEF Fresh
      <4>3. ~(age[req[u]] > 2 * RequestTimeout)
        <5>1. age[req[u]] \in Nat /\ timer[u] \in Nat
          BY <4>1 DEF TypeOK, AgeMax
        <5> QED
          BY <3>1, <5>1 DEF Times
      <4> QED
        BY <2>3, <4>1, <4>2, <4>3
    <3> QED
      BY <3>1
  <2>6. TypeOK'
    <3>1. list_sub' \subseteq list_sub
      BY <1>15 DEF SubInfoProc
    <3>2. list_sub' \subseteq Ids /\ Cardinality(list_sub') <= SubRequestMax
      BY <3>1, ListLength DEF TypeOK
    <3>3. outcome' \in [Ids -> Reports]
      <4>1. \A report \in Reports : Append(report, "TIMEOUT") \in Reports
        BY DEF Reports, Events
      <4> QED
        BY <1>15, <4>1 DEF SubInfoProc, TypeOK
    <3> QED
      BY <1>15, <2>1, <3>2, <3>3 DEF SubInfoProc, TypeOK, NetworkType, network, calls
  <2>7. Fresh'
    <3>1. \A x \in list_sub \ accepted : x \in list_sub'
      BY <2>5 DEF Fresh
    <3>2. \A x \in Ids \ accepted : outcome'[x] = outcome[x]
      BY <2>4, <3>1
    <3> QED
      BY <2>1, <2>2, <3>2 DEF Fresh
  <2>8. Owners'
    BY <2>2, <2>5 DEF Owners
  <2>9. Answers'
    <3>1. \A x \in Ids : Acked(outcome'[x]) => Acked(outcome[x])
      BY <2>4 DEF Acked
    <3>2. AnsweredOnce'
      <4>1. \A type : OnceOrLate(type, <<"TIMEOUT">>)
        <5>1. Len(<<"TIMEOUT">>) = 1
          OBVIOUS
        <5> QED
          BY <5>1 DEF OnceOrLate
      <4> QED
        BY <2>2, <2>4, <4>1 DEF Answers, AnsweredOnce
    <3>3. NoRequestForgotten'
      <4>1. <<"TIMEOUT">> # <<>>
        OBVIOUS
      <4>2. \A x \in Ids : outcome'[x] = <<>> => outcome[x] = <<>>
        BY <2>4, <4>1
      <4>3. \A x \in list_sub \ list_sub' : node_state[x] # "INVALID" => outcome'[x] # <<>>
        <5>1. ASSUME NEW x \in list_sub, outcome'[x] = Append(outcome[x], "TIMEOUT")
              PROVE  outcome'[x] # <<>>
          BY <5>1, Reported DEF TypeOK, Events
        <5> QED
          BY <2>3, <5>1
      <4> QED
        BY <2>2, <4>2, <4>3 DEF Answers, NoRequestForgotten
    <3>4. \A x \in list_sub' : outcome'[x] # <<>> => node_state'[x] = "INVALID"
      BY <2>2, <2>4 DEF Answers
    <3> QED
      BY <2>1, <2>2, <3>1, <3>2, <3>3, <3>4 DEF Answers
  <2>10. HandlersMatchSubscriptions'
    BY <1>15, <2>1, <2>2, <2>3, <2>4, <2>5
       DEF SubInfoProc, AckTimedOut, HandlersMatchSubscriptions, ConfirmedHasHandler,
           NoDuplicateHandler, TypeOK, list, calls, network, history
  <2>11. Times'
    BY <1>15, <2>1, <2>2, <2>3, <2>4, <2>5
       DEF SubInfoProc, Times, Owners, list, calls, network, history
  <2> QED
    BY <2>1, <2>2, <2>3, <2>4, <2>5, <2>6, <2>7, <2>8, <2>9, <2>10, <2>11 DEF IInv
<1>16. CASE Reconnect
  <2>1. Distinct' /\ OnWay' = {} /\ NetworkType'
    BY <1>16, ConnectionGone DEF Reconnect
  <2>2. TypeOK'
    BY <1>16, <2>1 DEF Reconnect, TypeOK, NetworkType, list, calls, network, history
  <2>3. Fresh'
    BY <1>16, <2>1 DEF Reconnect, Fresh, TypeOK, list, calls, network, history
  <2>4. Answers'
    BY <1>16, <2>1
       DEF Reconnect, Answers, AnsweredOnce, NoRequestForgotten, TypeOK, Fresh,
           list, calls, network, history
  <2>5. Owners' /\ Times' /\ HandlersMatchSubscriptions'
    BY <1>16, <2>1
       DEF Reconnect, Owners, Fresh, Times, HandlersMatchSubscriptions,
           ConfirmedHasHandler, NoDuplicateHandler, list, calls, network,
           history
  <2> QED
    BY <2>1, <2>2, <2>3, <2>4, <2>5 DEF IInv
<1>17. CASE BrokerAnswers
  <2>1. Distinct' /\ OnWay' = OnWay /\ NetworkType'
    BY <1>17, Answered
  <2>2. TypeOK'
    <3>1. UNCHANGED <<client_state, packet_id, list_sub, info, node_state, age,
                    sub_handle, lock_write_buf, pc, req, timer, yielder,
                    accepted, outcome, subscribed, unsubscribed, lost, swallowed, link, breaks>>
      BY <1>17 DEF BrokerAnswers, list, calls, history
    <3> QED
      BY <2>1, <3>1 DEF TypeOK, NetworkType
  <2>3. Fresh'
    BY <1>17, <2>1 DEF BrokerAnswers, Fresh, TypeOK, list, calls, network, history
  <2>4. Answers'
    BY <1>17, <2>1
       DEF BrokerAnswers, Answers, AnsweredOnce, NoRequestForgotten, TypeOK,
           Fresh, list, calls, network, history
  <2>5. Owners' /\ Times' /\ HandlersMatchSubscriptions'
    BY <1>17, <2>1
       DEF BrokerAnswers, Owners, Fresh, Times, HandlersMatchSubscriptions,
           ConfirmedHasHandler, NoDuplicateHandler, list, calls, network,
           history
  <2> QED
    BY <2>1, <2>2, <2>3, <2>4, <2>5 DEF IInv
<1>18. CASE LinkBreak
  <2>1. Distinct' /\ OnWay' = {} /\ NetworkType'
    BY <1>18, ConnectionGone DEF LinkBreak
  <2>2. TypeOK'
    <3>1. UNCHANGED <<client_state, packet_id, list_sub, info, node_state, age,
                    sub_handle, lock_write_buf, pc, req, timer, yielder,
                    accepted, outcome, subscribed, unsubscribed, lost, swallowed>>
      BY <1>18 DEF LinkBreak, list, calls, history
    <3>2. link' \in {"up", "broken"}
      BY <1>18 DEF LinkBreak
    <3>3. breaks' \in 0 .. MaxBreaks
      BY <1>18, SubscribeAssumption DEF LinkBreak, TypeOK
    <3> QED
      BY <2>1, <3>1, <3>2, <3>3 DEF TypeOK, NetworkType
  <2>3. Fresh'
    BY <1>18, <2>1 DEF LinkBreak, Fresh, TypeOK, list, calls, network, history
  <2>4. Answers'
    BY <1>18, <2>1
       DEF LinkBreak, Answers, AnsweredOnce, NoRequestForgotten, TypeOK, Fresh,
           list, calls, network, history
  <2>5. Owners' /\ Times' /\ HandlersMatchSubscriptions'
    BY <1>18, <2>1
       DEF LinkBreak, Owners, Fresh, Times, HandlersMatchSubscriptions,
           ConfirmedHasHandler, NoDuplicateHandler, list, calls, network,
           history
  <2> QED
    BY <2>1, <2>2, <2>3, <2>4, <2>5 DEF IInv
<1>19. CASE Tick
  <2>1. Distinct' /\ OnWay' = OnWay /\ NetworkType'
    BY <1>19, ConnectionSame DEF Tick, network
  <2>2. TypeOK'
    <3>1. age' \in [Ids -> 0 .. AgeMax]
      <4>1. age \in [Ids -> 0 .. AgeMax] /\ AgeMax \in Nat
        BY SubscribeAssumption DEF TypeOK, AgeMax
      <4>2. age' = [id \in Ids |-> IF id \in list_sub /\ age[id] < AgeMax
                                   THEN age[id] + 1 ELSE age[id]]
        BY <1>19 DEF Tick
      <4> QED
        BY <4>1, <4>2
    <3>2. timer' \in [Users -> 0 .. RequestTimeout]
      BY <1>19 DEF Tick, TypeOK
    <3> QED
      BY <1>19, <2>1, <3>1, <3>2 DEF Tick, TypeOK, NetworkType, network, history
  <2>3. Owners'
    <3>1. UNCHANGED <<packet_id, accepted, req, pc, list_sub>>
      BY <1>19 DEF Tick, history
    <3>2. \A id \in Ids \ list_sub : age'[id] = age[id]
      BY <1>19 DEF Tick
    <3>3. \A v \in Users : pc[v] \in {"lock", "push"} => req[v] \in Ids \ list_sub
      BY NotListedYet DEF Owners, TypeOK
    <3>4. \A id \in Ids : id > packet_id => id \notin list_sub
      <4>1. packet_id \in Nat
        BY SubscribeAssumption DEF TypeOK
      <4>2. \A id \in list_sub : id \in 1 .. packet_id
        BY <1>a, NotListedYet, Zenon
      <4> QED
        BY <4>1, <4>2 DEF Ids
    <3> QED
      BY <3>1, <3>2, <3>3, <3>4 DEF Owners
  <2>4. Times'
    <3>1. UNCHANGED <<req, pc>>
      BY <1>19 DEF Tick
    <3>2. ASSUME NEW u \in Users, pc[u] \in {"send", "unlink"}
          PROVE  /\ age[req[u]] \in Nat /\ timer[u] \in Nat
                 /\ age'[req[u]] \in Nat /\ timer'[u] \in Nat
                 /\ age'[req[u]] + timer'[u] <= age[req[u]] + timer[u]
      <4>1. req[u] \in Ids /\ timer[u] > 0
        BY <1>19, <3>2 DEF Tick, TypeOK, Owners, Ids
      <4>2. /\ age[req[u]] \in Nat /\ timer[u] \in Nat
            /\ age'[req[u]] \in Nat /\ timer'[u] \in Nat
        BY <4>1, <3>1, <2>2, SubscribeAssumption DEF TypeOK, AgeMax
      <4>3. timer'[u] = timer[u] - 1 /\ age'[req[u]] <= age[req[u]] + 1
        BY <1>19, <4>1, <4>2 DEF Tick
      <4> QED
        BY <4>2, <4>3
    <3> QED
      BY <3>1, <3>2, SubscribeAssumption DEF Times
  <2>5. Fresh' /\ Answers' /\ HandlersMatchSubscriptions'
    BY <1>19, <2>1
       DEF Tick, Fresh, Answers, AnsweredOnce, NoRequestForgotten,
           HandlersMatchSubscriptions, ConfirmedHasHandler, NoDuplicateHandler, list, calls, network, history
  <2> QED
    BY <2>1, <2>2, <2>3, <2>4, <2>5 DEF IInv
<1>20. CASE UNCHANGED vars
  <2> USE <1>20 DEF vars, list, calls, network, history
  <2>1. Distinct' /\ OnWay' = OnWay
    BY ConnectionSame
  <2>2. TypeOK'
    BY DEF TypeOK
  <2>3. Fresh' /\ Owners' /\ Times'
    BY <2>1 DEF Fresh, Owners, Times
  <2>4. Answers'
    BY <2>1 DEF Answers, AnsweredOnce, NoRequestForgotten
  <2>5. HandlersMatchSubscriptions'
    BY DEF HandlersMatchSubscriptions, ConfirmedHasHandler, NoDuplicateHandler
  <2> QED
    BY <2>1, <2>2, <2>3, <2>4, <2>5 DEF IInv
<1> QED
  BY <1>1, <1>2, <1>3, <1>4, <1>5, <1>6, <1>7, <1>8, <1>9, <1>10, <1>11, <1>12, <1>13,
     <1>14, <1>15, <1>16, <1>17, <1>18, <1>19, <1>20 DEF Next, UserStep, YielderStep

LEMMA Invariant == Spec => []IInv
BY InitialState, Step, PTL DEF Spec
-----------------------------------------------------------------------------
(* The list, the table and every request keep to their types and limits        *)
(* (iotx_mc_push_subInfo_to, iotx_mc_handle_recv_SUBACK).                       *)
THEOREM TypeCorrect == Spec => []TypeOK
<1>1. IInv => TypeOK
  BY DEF IInv
<1> QED
  BY <1>1, Invariant, PTL

(* A failed MQTTSubscribe or MQTTUnsubscribe unlinks a node that is there.      *)
THEOREM NodeStillThere == Spec => []UnlinkFindsNode
<1>1. IInv => UnlinkFindsNode
  BY DEF IInv, Owners, UnlinkFindsNode
<1> QED
  BY <1>1, Invariant, PTL

(* What iotx_mc_handle_recv_SUBACK confirmed and no UNSUBACK has given up is in *)
(* the table, but for an entry a late UNSUBACK's uninitialised handle met; no   *)
(* entry is there twice.                                                        *)
THEOREM HandlersInTable == Spec => []HandlersMatchSubscriptions
<1>1. IInv => HandlersMatchSubscriptions
  BY DEF IInv
<1> QED
  BY <1>1, Invariant, PTL

(* No request is answered twice but for the late ack the code reports, and none *)
(* is forgotten but for the one whose own SUBACK found the table full, in       *)
(* whatever order acks, MQTTSubInfoProc's timeouts and lost connections come.   *)
THEOREM OneAnswer == Spec => []RequestsAnsweredOnce
<1>1. IInv => RequestsAnsweredOnce
  BY DEF IInv, Answers, RequestsAnsweredOnce
<1> QED
  BY <1>1, Invariant, PTL
=============================================================================
