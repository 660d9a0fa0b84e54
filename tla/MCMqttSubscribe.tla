-------------------------- MODULE MCMqttSubscribe --------------------------
(***************************************************************************)
(* Small instances of MqttSubscribe for TLC.                                *)
(***************************************************************************)
EXTENDS MqttSubscribe

CONSTANTS t1, t2, h1, h2

Subscribe(t, h) == [type |-> "SUBSCRIBE", topic |-> t, handler |-> h]
Unsubscribe(t)  == [type |-> "UNSUBSCRIBE", topic |-> t, handler |-> NoHandler]

\* Three different entries for a table of two, and one topic given up again.
MCRequests == {Subscribe(t1, h1), Subscribe(t1, h2), Subscribe(t2, h1), Unsubscribe(t1)}
=============================================================================
