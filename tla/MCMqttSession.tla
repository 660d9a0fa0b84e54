--------------------------- MODULE MCMqttSession ---------------------------
(***************************************************************************)
(* Small instances of MqttSession for TLC.                                  *)
(***************************************************************************)
EXTENDS MqttSession
=============================================================================
