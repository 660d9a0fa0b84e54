------------------------------ MODULE MCCommIf ------------------------------
(* Instances of CommIf for TLC.                                            *)
EXTENDS CommIf, TLC

CONSTANTS c1, c2, none

TwoClients == {c1, c2}

=============================================================================
