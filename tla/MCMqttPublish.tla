--------------------------- MODULE MCMqttPublish ---------------------------
(***************************************************************************)
(* Small instances of MqttPublish for TLC.                                  *)
(***************************************************************************)
EXTENDS MqttPublish, TLC

\* Publishing threads are interchangeable (safety runs only).
PublisherSymmetry == Permutations(Publishers)
=============================================================================
