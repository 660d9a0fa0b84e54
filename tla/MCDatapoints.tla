---------------------------- MODULE MCDatapoints ----------------------------
(* Instances of Datapoints for TLC.                                        *)
EXTENDS Datapoints

CONSTANTS power, getall, nothing

=============================================================================
