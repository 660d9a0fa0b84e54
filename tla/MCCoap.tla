------------------------------- MODULE MCCoap -------------------------------
(* Instances of Coap for TLC.                                              *)
EXTENDS Coap

=============================================================================
