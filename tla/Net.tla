-------------------------------- MODULE Net ---------------------------------
(***************************************************************************)
(* One TCP connection: the network abstraction (utils_net.c) over the      *)
(* sockets of a platform port (hal_tcp_interface.c of every port).  The    *)
(* ports differ in what they return; each is a record.  A read is the loop *)
(* of select and recv, with the peer's bytes, its end and its reset coming *)
(* in between; bytes are counted.                                          *)
(***************************************************************************)
EXTENDS Integers

CONSTANTS NetPorts,     \* the ports
          NetMaxBytes,  \* bound: bytes the peer sends
          NetReadLen    \* lengths asked for by read

ASSUME NetAssumption ==
  /\ NetMaxBytes \in Nat /\ NetReadLen \subseteq Nat
  /\ \A p \in NetPorts :
       /\ p.no_address \in {-1, 0} /\ p.no_connection \in {-1, 0}
       /\ p.write_error \in {-1, 0} /\ p.read_interrupted \in {-2, 0}

VARIABLES port,       \* external: the port of this build
          sock,       \* external: the socket of the connection
          unread,     \* external: bytes that have come and wait in it
          peer,       \* external: what the peer has done
          handle,     \* utils_network_t.handle
          reader,     \* locals of HAL_TCP_Read
          result,     \* what the last call of the abstraction returned
          taken, reported  \* history: bytes received, bytes returned

netVars == <<port, sock, unread, peer, handle, reader, result, taken, reported>>

-----------------------------------------------------------------------------
(* What HAL_TCP_Establish returns without an address and without a         *)
(* connection, what HAL_TCP_Write returns on an error, whether a signal    *)
(* during select ends a read, and whether a socket that could not be       *)
(* connected is closed.                                                    *)
Linux ==
  [no_address |-> 0, no_connection |-> 0, write_error |-> 0,
   read_interrupted |-> -2, closes_unconnected |-> TRUE]
Osx ==
  [no_address |-> 0, no_connection |-> 0, write_error |-> 0,
   read_interrupted |-> -2, closes_unconnected |-> TRUE]
Esp32 ==
  [no_address |-> 0, no_connection |-> 0, write_error |-> 0,
   read_interrupted |-> -2, closes_unconnected |-> TRUE]
Esp8266 ==
  [no_address |-> 0, no_connection |-> -1, write_error |-> 0,
   read_interrupted |-> -2, closes_unconnected |-> TRUE]
(* Without an address the program crashes here; it is left out.            *)
Windows ==
  [no_address |-> -1, no_connection |-> -1, write_error |-> -1,
   read_interrupted |-> 0, closes_unconnected |-> FALSE]

Idle == [left |-> 0, got |-> 0]

-----------------------------------------------------------------------------
(* connect_tcp: a negative handle is a failure, 0 is none.                 *)
NetConnect ==
  /\ handle = -1 /\ sock = "none"
  /\ \E failed \in {"no_address", "no_connection", "no"} :
       /\ handle' = IF failed = "no" THEN 1 ELSE port[failed]
       /\ sock' = IF failed = "no" THEN "open"
                  ELSE IF failed = "no_connection" /\ ~port.closes_unconnected
                    THEN "leaked" ELSE "none"
  /\ result' = IF handle' < 0 THEN -1 ELSE 0
  /\ UNCHANGED <<port, unread, peer, reader, taken, reported>>

(* External: the peer sends, ends the connection, or resets it, which      *)
(* throws away what has not been read.                                     *)
PeerSends ==
  /\ sock = "open" /\ peer = "up" /\ taken + unread < NetMaxBytes
  /\ unread' = unread + 1
  /\ UNCHANGED <<port, sock, peer, handle, reader, result, taken, reported>>

PeerEnds ==
  /\ sock = "open" /\ peer = "up"
  /\ peer' \in {"closed", "reset"}
  /\ unread' = IF peer' = "reset" THEN 0 ELSE unread
  /\ UNCHANGED <<port, sock, handle, reader, result, taken, reported>>

-----------------------------------------------------------------------------
Usable == handle = 1 /\ sock = "open"

(* utils_net_read and the entry of HAL_TCP_Read.  On a handle 0 that is    *)
(* not this connection's nothing is known of what a call does.             *)
NetRead ==
  /\ Usable /\ reader = Idle
  /\ \E len \in NetReadLen \ {0} : reader' = [left |-> len, got |-> 0]
  /\ UNCHANGED <<port, sock, unread, peer, handle, result, taken, reported>>

(* Mutant: an error goes before data.                                      *)
ReadReturnsError(err_code) ==
  LET value == IF err_code # 0 THEN err_code ELSE reader.got
  IN  /\ result' = value
      /\ reported' = IF value > 0 THEN reported + value ELSE reported
      /\ reader' = Idle

(* The end of HAL_TCP_Read: data goes before an error, which the next call *)
(* gets.                                                                   *)
ReadReturns(err_code) ==
  LET value == IF reader.got # 0 THEN reader.got ELSE err_code
  IN  /\ result' = value
      /\ reported' = IF value > 0 THEN reported + value ELSE reported
      /\ reader' = Idle

(* select finds nothing in the time that is left, or fails.                *)
ReadSelectEnds ==
  /\ reader # Idle
  /\ \/ ReadReturns(0)
     \/ ReadReturns(-2)
     \/ port.read_interrupted # 0 /\ ReadReturns(port.read_interrupted)
  /\ UNCHANGED <<port, sock, unread, peer, handle, taken>>

(* select finds the socket readable: recv takes some bytes, finds the end  *)
(* or the reset; interrupted, it is called again.                          *)
ReadReceives ==
  /\ reader # Idle /\ unread > 0
  /\ \E n \in 1 .. unread :
       /\ n <= reader.left
       /\ unread' = unread - n
       /\ taken' = taken + n
       /\ IF n < reader.left
            THEN /\ reader' = [left |-> reader.left - n, got |-> reader.got + n]
                 /\ UNCHANGED <<result, reported>>
            ELSE /\ result' = reader.got + n
                 /\ reported' = reported + reader.got + n
                 /\ reader' = Idle
  /\ UNCHANGED <<port, sock, peer, handle>>

ReadFindsEnd ==
  /\ reader # Idle /\ unread = 0 /\ peer # "up"
  /\ ReadReturns(IF peer = "closed" THEN -1 ELSE -2)
  /\ UNCHANGED <<port, sock, unread, peer, handle, taken>>

(* utils_net_write and HAL_TCP_Write: the bytes sent in time, or the       *)
(* port's value for an error.                                              *)
NetWrite ==
  /\ Usable /\ reader = Idle
  /\ \E len \in NetReadLen : \E sent \in 0 .. len :
       result' = IF sent = 0 /\ peer = "reset" THEN port.write_error ELSE sent
  /\ UNCHANGED <<port, sock, unread, peer, handle, reader, taken, reported>>

(* disconnect_tcp.  HAL_TCP_Destroy closes the socket only when shutdown   *)
(* succeeds, which it does not on a reset connection.                      *)
NetDisconnect ==
  /\ reader = Idle /\ handle # -1
  /\ handle' = -1
  /\ sock' = IF handle # 1 THEN sock
             ELSE IF peer = "reset" THEN "leaked" ELSE "closed"
  /\ result' = 0
  /\ UNCHANGED <<port, unread, peer, reader, taken, reported>>

(* iotx_net_init: a handle that is none.                                   *)
NetInit ==
  /\ port \in NetPorts /\ sock = "none" /\ unread = 0 /\ peer = "up" /\ handle = -1
  /\ reader = Idle /\ result = 0 /\ taken = 0 /\ reported = 0

NetNext ==
  \/ NetConnect \/ PeerSends \/ PeerEnds \/ NetRead \/ ReadSelectEnds
  \/ ReadReceives \/ ReadFindsEnd \/ NetWrite \/ NetDisconnect

NetSpec == NetInit /\ [][NetNext]_netVars

-----------------------------------------------------------------------------
NetTypeOK ==
  /\ port \in NetPorts
  /\ sock \in {"none", "open", "leaked", "closed"}
  /\ unread \in 0 .. NetMaxBytes /\ taken \in 0 .. NetMaxBytes
  /\ peer \in {"up", "closed", "reset"}
  /\ handle \in {-1, 0, 1}
  /\ reader.left \in Nat /\ reader.got \in Nat
  /\ reported \in Nat /\ result \in Int

(* Every byte taken out of the socket is returned to the caller, although  *)
(* the connection may end, fail or run out of time in the middle of a      *)
(* read: a packet's first bytes would otherwise be lost with the error.    *)
NetBytesReported == taken = reported + reader.got

=============================================================================
