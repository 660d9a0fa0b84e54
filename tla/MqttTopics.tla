----------------------------- MODULE MqttTopics -----------------------------
(***************************************************************************)
(* Topic names and topic filters: which the client accepts                 *)
(* (iotx_mc_check_topic), and to which subscription it gives a message     *)
(* (iotx_mc_is_topic_matched).  A topic is a sequence of characters; one   *)
(* publisher and one subscriber use the same client code.                  *)
(***************************************************************************)
EXTENDS Integers, Sequences

CONSTANTS FilterChars, NameChars,   \* characters the application uses
          FilterLen, NameLen,       \* bounds: the longest filter and name
          TopicMaxLen               \* IOTX_MC_TOPIC_NAME_MAX_LEN

ASSUME TopicsAssumption == TopicMaxLen \in Nat \ {0} /\ {FilterLen, NameLen} \subseteq Nat

VARIABLES topic_filter,  \* of the subscription, <<>> while there is none
          topic_name,    \* of the last message, <<>> while there is none
          handler        \* who was called with it

topicVars == <<topic_filter, topic_name, handler>>

-----------------------------------------------------------------------------
(* The levels of a topic, the empty ones too: character by character, from *)
(* its end; of a character and the topic behind it.                        *)
Before(c, levels) ==
  IF c = "/" THEN << <<>> >> \o levels ELSE [levels EXCEPT ![1] = <<c>> \o @]

Levels(t) ==
  LET last[k \in 0 .. Len(t)] ==
        IF k = 0 THEN << <<>> >> ELSE Before(t[Len(t) - k + 1], last[k - 1])
  IN  last[Len(t)]

(* Mutant: a wildcard may be part of a level.                              *)
check_rule_partial(iterm, type) ==
  \A i \in 1 .. Len(iterm) :
    iterm[i] # "control" /\ (iterm[i] \in {"+", "#"} => type = "filter")

(* iotx_mc_check_rule; a control character is of no printable kind.        *)
iotx_mc_check_rule(iterm, type) ==
  \A i \in 1 .. Len(iterm) :
    /\ iterm[i] # "control"
    /\ iterm[i] \in {"+", "#"} => type = "filter" /\ Len(iterm) = 1

(* strtok passes over empty levels; a topic without any other is refused.  *)
(* Only TopicMaxLen - 1 characters are looked at, and a "#" that comes      *)
(* first may have others after it.                                         *)
iotx_mc_check_topic(topicName, type) ==
  LET looked_at == IF Len(topicName) < TopicMaxLen THEN topicName
                   ELSE SubSeq(topicName, 1, TopicMaxLen - 1)
      level == Levels(looked_at)
      iterms == {k \in DOMAIN level : level[k] # <<>>}
  IN  /\ Len(topicName) <= TopicMaxLen
      /\ iterms # {}
      /\ \A k \in iterms :
           /\ iotx_mc_check_rule(level[k], type)
           /\ level[k][1] = "#" /\ (\E j \in iterms : j < k) => \A j \in iterms : j <= k

(* "+": the end of the level a name is in at n.                            *)
EndOfLevel(topicName, n) ==
  CHOOSE e \in n .. Len(topicName) :
    /\ e = Len(topicName) \/ topicName[e + 1] = "/"
    /\ \A k \in n + 1 .. e : topicName[k] # "/"

(* The loop of iotx_mc_is_topic_matched, from the positions f and n on.    *)
iotx_mc_is_topic_matched(topicFilter, topicName) ==
  LET F == Len(topicFilter)
      N == Len(topicName)
      matched[f \in 1 .. F + 1] ==
        [n \in 1 .. N + 1 |->
           IF f > F \/ n > N THEN f > F /\ n > N
           ELSE IF topicName[n] = "/" /\ topicFilter[f] # "/" THEN FALSE
           ELSE IF topicFilter[f] = "+" THEN matched[f + 1][EndOfLevel(topicName, n) + 1]
           ELSE IF topicFilter[f] = "#" THEN matched[f + 1][N + 1]
           ELSE topicFilter[f] = topicName[n] /\ matched[f + 1][n + 1]]
  IN  matched[1][1]

-----------------------------------------------------------------------------
(* iotx_mc_subscribe; the broker grants it.                                *)
SubscribeTo(t) ==
  /\ topic_filter = <<>> /\ iotx_mc_check_topic(t, "filter")
  /\ topic_filter' = t
  /\ UNCHANGED <<topic_name, handler>>

(* iotx_mc_publish of another client, and iotx_mc_deliver_message in this  *)
(* one, which gets every message of its other subscriptions too.           *)
DeliverMessage(t) ==
  /\ topic_filter # <<>> /\ topic_name = <<>> /\ iotx_mc_check_topic(t, "name")
  /\ topic_name' = t
  /\ handler' = IF topic_filter = t \/ iotx_mc_is_topic_matched(topic_filter, t)
                  THEN "subscription" ELSE "default"
  /\ UNCHANGED topic_filter

TopicsInit == topic_filter = <<>> /\ topic_name = <<>> /\ handler = "none"

TopicsNext ==
  \/ \E len \in 0 .. FilterLen : \E t \in [1 .. len -> FilterChars] : SubscribeTo(t)
  \/ \E len \in 0 .. NameLen : \E t \in [1 .. len -> NameChars] : DeliverMessage(t)

TopicsSpec == TopicsInit /\ [][TopicsNext]_topicVars

-----------------------------------------------------------------------------
TopicsTypeOK ==
  /\ topic_filter \in Seq(FilterChars) /\ topic_name \in Seq(NameChars)
  /\ handler \in {"none", "subscription", "default"}

WildLevels == {<<"+">>, <<"#">>}

(* The matching the protocol asks for, level by level.                     *)
Covers(filter, name) ==
  LET fl == Levels(filter)
      nl == Levels(name)
      rest == Len(fl) > 0 /\ fl[Len(fl)] = <<"#">>
      fixed == IF rest THEN Len(fl) - 1 ELSE Len(fl)
  IN  /\ IF rest THEN Len(nl) >= fixed ELSE Len(nl) = fixed
      /\ \A k \in 1 .. fixed : fl[k] = <<"+">> \/ fl[k] = nl[k]

(* A level of the name is empty that a wildcard of the filter meets.       *)
EmptyUnderWildcard(filter, name) ==
  LET fl == Levels(filter)
      nl == Levels(name)
  IN  \E k \in DOMAIN fl : fl[k] \in WildLevels /\ nl[k] = <<>>

(* The handler of a subscription is called for the messages its filter     *)
(* covers and for no others.  The code misses two kinds of them: those     *)
(* with an empty level where the filter has a wildcard (an empty level the *)
(* filter has too it does match), and those of the topic above a "#".  A   *)
(* filter of the greatest length is not checked to its end.                *)
HandlerOfCoveringFilter ==
  handler # "none" /\ Len(topic_filter) < TopicMaxLen =>
    /\ handler = "subscription" => Covers(topic_filter, topic_name)
    /\ /\ Covers(topic_filter, topic_name)
       /\ Len(Levels(topic_name)) >= Len(Levels(topic_filter))
       /\ ~EmptyUnderWildcard(topic_filter, topic_name)
       => handler = "subscription"

=============================================================================
