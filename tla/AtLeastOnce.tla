---------------------------- MODULE AtLeastOnce ----------------------------
(***************************************************************************)
(* What QoS 1 publishing promises, without threads, locks, acks or time: a  *)
(* message is queued, may be withdrawn while the caller has been told       *)
(* nothing, is promised when the call returns success, and is forgotten     *)
(* only after it has been delivered.                                        *)
(***************************************************************************)
EXTENDS Naturals

CONSTANT Messages

VARIABLES
    queued,     \* messages the client keeps
    promised,   \* messages whose caller was told success
    delivered   \* messages the broker has received

vars == <<queued, promised, delivered>>

Init == /\ queued = {}
        /\ promised = {}
        /\ delivered = {}

Queue(m) ==
    /\ m \in Messages \ (queued \cup promised \cup delivered)
    /\ queued' = queued \cup {m}
    /\ UNCHANGED <<promised, delivered>>

Withdraw(m) ==
    /\ m \in queued \ promised
    /\ queued' = queued \ {m}
    /\ UNCHANGED <<promised, delivered>>

Promise(m) ==
    /\ m \in queued \ promised
    /\ promised' = promised \cup {m}
    /\ UNCHANGED <<queued, delivered>>

Deliver(m) ==
    /\ m \in queued \ delivered
    /\ delivered' = delivered \cup {m}
    /\ UNCHANGED <<queued, promised>>

Forget(m) ==
    /\ m \in queued \cap promised \cap delivered
    /\ queued' = queued \ {m}
    /\ UNCHANGED <<promised, delivered>>

Next == \E m \in Messages :
            Queue(m) \/ Withdraw(m) \/ Promise(m) \/ Deliver(m) \/ Forget(m)

Spec == Init /\ [][Next]_vars
=============================================================================
