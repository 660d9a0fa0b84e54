------------------------------- MODULE Crypto -------------------------------
(***************************************************************************)
(* The protection of payloads (iotx_crypto_api.c) with the session keys of *)
(* the guider (iotx_guider_api.c), as the MQTT client calls them: the      *)
(* yield thread authenticates anew for every connection and unprotects     *)
(* what arrives, the application's threads protect what they publish, and  *)
(* all of them share iotx_conn_info_t without a lock.  A key is the number *)
(* of the session whose random string it was made from; a protected byte   *)
(* is known by the block of key stream that lies on it.                    *)
(***************************************************************************)
EXTENDS Integers, FiniteSets

CONSTANTS Publishers,     \* threads that publish
          SecureModes,    \* CONFIG_CLOUD_SECURE_MODE of the builds
          BlockLen,       \* 16, bytes of a block of key stream
          IndexRange,     \* 2^8, the range of bufferIndex
          PacketIdRange,  \* 2^16, the range of up_packetid
          PayloadLens,
          CryptoSessionsMax, CryptoSendsMax  \* bounds

ASSUME CryptoAssumption ==
  /\ BlockLen \in Nat \ {0} /\ IndexRange \in Nat \ {0} /\ PacketIdRange \in Nat \ {0}
  /\ PayloadLens \subseteq Nat /\ SecureModes \subseteq 1 .. 3
  /\ CryptoSessionsMax \in Nat /\ CryptoSendsMax \in Nat

VARIABLES secure_mode,  \* of this build
          random_str,   \* of iotx_conn_info_t: the session it was drawn for
          skeys,        \* nwkskey and appskey: the session they are made for
          up_packetid,
          mc,           \* how far iotx_mc_connect is
          cloud,        \* external: the session the cloud knows
          inhand,       \* what every publisher has in hand
          published,    \* history: how many messages there have been
          got_last      \* history: what the cloud or a handler got in the last step

cryptoVars == <<secure_mode, random_str, skeys, up_packetid, mc, cloud, inhand,
                published, got_last>>

FORMENCRYPT == 1
FORMPLAIN == 2
PLAIN == 3

-----------------------------------------------------------------------------
(* _payload_encrypt and, with the same arguments, _payload_decrypt: which  *)
(* block of key stream lies on each byte of the destination in the end, 0  *)
(* where nothing was written.  bufferIndex is a uint8_t.                   *)
Offset(block) == (BlockLen * (block - 1)) % IndexRange
BlockSize(block, n) ==
  IF BlockLen * block <= n THEN BlockLen ELSE n - BlockLen * (block - 1)
Covered(n) ==
  LET blocks(j) == {b \in 1 .. n : /\ BlockLen * (b - 1) < n
                                   /\ j \in Offset(b) .. Offset(b) + BlockSize(b, n) - 1}
  IN  [j \in 0 .. n - 1 |->
        IF blocks(j) = {} THEN 0 ELSE CHOOSE b \in blocks(j) : \A c \in blocks(j) : c <= b]

(* External: the cloud takes the key stream off again, byte by byte.       *)
StreamOf(n) == [j \in 0 .. n - 1 |-> j \div BlockLen + 1]

(* What a payload in hand needs for the cloud of session s to read it.     *)
Readable(m, s) ==
  \/ secure_mode = PLAIN
  \/ /\ ~m.bare /\ m.mic = s
     /\ secure_mode = FORMENCRYPT =>
          m.key = s /\ m.seq = m.head /\ Covered(m.n) = StreamOf(m.n)

Nothing == [pc |-> "idle", n |-> 0, next |-> 0, head |-> 0, seq |-> 0, key |-> 0,
            mic |-> 0, bare |-> FALSE, overlaps |-> FALSE]

NothingGot == [n |-> 0, read |-> TRUE, no_memory |-> FALSE, overlaps |-> FALSE]

Protecting(u) == inhand[u].pc \in {"write", "header", "encrypt", "mic"}
Normal == mc \in {"connected", "ready"}

(* History: what is being protected meets another change of the keys or of *)
(* the id.                                                                 *)
Disturbed(us) == [u \in Publishers |-> IF u \in us THEN [inhand[u] EXCEPT !.overlaps = TRUE]
                                       ELSE inhand[u]]

-----------------------------------------------------------------------------
(* iotx_guider_authenticate, before every connection.                      *)
Authenticate ==
  /\ mc \in {"none", "disconnected"} /\ random_str < CryptoSessionsMax
  /\ random_str' = random_str + 1
  /\ up_packetid' = 0
  /\ mc' = "authenticated"
  /\ inhand' = Disturbed({u \in Publishers : Protecting(u) \/ inhand[u].pc = "send"})
  /\ got_last' = NothingGot
  /\ UNCHANGED <<secure_mode, skeys, cloud, published>>

(* The connection, CONNECT and CONNACK: the cloud makes its keys from the  *)
(* password, and the client's state is CONNECTED.                          *)
Connect ==
  /\ mc = "authenticated"
  /\ \/ mc' = "connected" /\ cloud' = random_str
     \/ mc' = "disconnected" /\ UNCHANGED cloud
  /\ got_last' = NothingGot
  /\ UNCHANGED <<secure_mode, random_str, skeys, up_packetid, inhand, published>>

(* Mutant: the keys are made for the first connection only.                *)
GenKeysOnce ==
  /\ mc = "connected"
  /\ skeys' = IF skeys = 0 THEN random_str ELSE skeys
  /\ mc' = "ready"
  /\ inhand' = Disturbed({u \in Publishers : Protecting(u)})
  /\ got_last' = NothingGot
  /\ UNCHANGED <<secure_mode, random_str, up_packetid, cloud, published>>

(* iotx_guider_auth_gen_keys, after the state has been set.                *)
GenKeys ==
  /\ mc = "connected"
  /\ skeys' = random_str
  /\ mc' = "ready"
  /\ inhand' = Disturbed({u \in Publishers : Protecting(u)})
  /\ got_last' = NothingGot
  /\ UNCHANGED <<secure_mode, random_str, up_packetid, cloud, published>>

ConnectionLost ==
  /\ mc = "ready"
  /\ mc' = "disconnected"
  /\ got_last' = NothingGot
  /\ UNCHANGED <<secure_mode, random_str, skeys, up_packetid, cloud, inhand, published>>

-----------------------------------------------------------------------------
(* iotx_mc_publish with iotx_mqtt_up_process.  Without memory for its copy *)
(* the payload is sent as it is: the result is not looked at.              *)
Publishes(u, n) ==
  /\ Normal /\ inhand[u].pc = "idle" /\ published < CryptoSendsMax
  /\ \E no_memory \in BOOLEAN :
       inhand' = [inhand EXCEPT ![u] =
               [Nothing EXCEPT !.n = n, !.bare = no_memory,
                  !.pc = IF no_memory \/ secure_mode = PLAIN THEN "send" ELSE "read"]]
  /\ published' = published + 1
  /\ got_last' = NothingGot
  /\ UNCHANGED <<secure_mode, random_str, skeys, up_packetid, mc, cloud>>

(* iotx_comm_payload_encrypt: the increment of the id is a read and a      *)
(* write, and the id is read again for the header and for the key stream.  *)
ReadPacketId(u) ==
  /\ inhand[u].pc = "read"
  /\ LET others == {v \in Publishers : Protecting(v)}
     IN  inhand' = [Disturbed(others) EXCEPT ![u] =
                     [inhand[u] EXCEPT !.next = up_packetid, !.pc = "write",
                        !.overlaps = others # {} \/ mc # "ready"]]
  /\ got_last' = NothingGot
  /\ UNCHANGED <<secure_mode, random_str, skeys, up_packetid, mc, cloud, published>>

(* Mutant: the id is counted without a width.                              *)
WriteWideId(u) ==
  /\ inhand[u].pc = "write"
  /\ up_packetid' = inhand[u].next + 1
  /\ inhand' = [inhand EXCEPT ![u].pc = "header"]
  /\ got_last' = NothingGot
  /\ UNCHANGED <<secure_mode, random_str, skeys, mc, cloud, published>>

WritePacketId(u) ==
  /\ inhand[u].pc = "write"
  /\ up_packetid' = (inhand[u].next + 1) % PacketIdRange
  /\ inhand' = [inhand EXCEPT ![u].pc = "header"]
  /\ got_last' = NothingGot
  /\ UNCHANGED <<secure_mode, random_str, skeys, mc, cloud, published>>

WriteHeader(u) ==
  /\ inhand[u].pc = "header"
  /\ inhand' = [inhand EXCEPT ![u].head = up_packetid, ![u].pc = "encrypt"]
  /\ got_last' = NothingGot
  /\ UNCHANGED <<secure_mode, random_str, skeys, up_packetid, mc, cloud, published>>

Encrypt(u) ==
  /\ inhand[u].pc = "encrypt"
  /\ inhand' = [inhand EXCEPT ![u].seq = up_packetid, ![u].key = skeys, ![u].pc = "mic"]
  /\ got_last' = NothingGot
  /\ UNCHANGED <<secure_mode, random_str, skeys, up_packetid, mc, cloud, published>>

CalMic(u) ==
  /\ inhand[u].pc = "mic"
  /\ inhand' = [inhand EXCEPT ![u].mic = skeys, ![u].pc = "send"]
  /\ got_last' = NothingGot
  /\ UNCHANGED <<secure_mode, random_str, skeys, up_packetid, mc, cloud, published>>

(* MQTTPublish: the cloud gets it on the connection there is.              *)
Sends(u) ==
  /\ inhand[u].pc = "send"
  /\ inhand' = [inhand EXCEPT ![u] = Nothing]
  /\ got_last' = IF Normal
                   THEN [n |-> inhand[u].n, read |-> Readable(inhand[u], cloud),
                         no_memory |-> inhand[u].bare, overlaps |-> inhand[u].overlaps]
                   ELSE NothingGot
  /\ UNCHANGED <<secure_mode, random_str, skeys, up_packetid, mc, cloud, published>>

(* iotx_mc_handle_recv_PUBLISH with iotx_mqtt_down_process and             *)
(* iotx_comm_payload_decrypt: a payload whose MIC is not right, or that    *)
(* there is no memory for, is delivered as it came.                        *)
DownProcess(n) ==
  /\ mc = "ready"
  /\ \E no_memory \in BOOLEAN :
       got_last' =
         [n |-> n, no_memory |-> no_memory, overlaps |-> FALSE,
          read |-> \/ secure_mode = PLAIN
                   \/ /\ ~no_memory /\ skeys = cloud
                      /\ secure_mode = FORMENCRYPT => Covered(n) = StreamOf(n)]
  /\ UNCHANGED <<secure_mode, random_str, skeys, up_packetid, mc, cloud, inhand, published>>

-----------------------------------------------------------------------------
CryptoInit ==
  /\ secure_mode \in SecureModes
  /\ random_str = 0 /\ skeys = 0 /\ up_packetid = 0 /\ mc = "none" /\ cloud = 0
  /\ inhand = [u \in Publishers |-> Nothing]
  /\ published = 0
  /\ got_last = NothingGot

CryptoNext ==
  \/ Authenticate \/ Connect \/ GenKeys \/ ConnectionLost
  \/ \E u \in Publishers :
       \/ \E n \in PayloadLens : Publishes(u, n)
       \/ ReadPacketId(u) \/ WritePacketId(u) \/ WriteHeader(u) \/ Encrypt(u)
       \/ CalMic(u) \/ Sends(u)
  \/ \E n \in PayloadLens : DownProcess(n)

CryptoSpec == CryptoInit /\ [][CryptoNext]_cryptoVars

-----------------------------------------------------------------------------
CryptoTypeOK ==
  /\ secure_mode \in SecureModes
  /\ random_str \in 0 .. CryptoSessionsMax /\ skeys \in 0 .. CryptoSessionsMax
  /\ cloud \in 0 .. CryptoSessionsMax /\ up_packetid \in 0 .. PacketIdRange - 1
  /\ mc \in {"none", "authenticated", "connected", "ready", "disconnected"}
  /\ published \in 0 .. CryptoSendsMax

(* The cloud reads what was published, and the handlers get what the cloud *)
(* sent, however often the connection and with it the keys are made anew.  *)
(* The exceptions are the code's: two protections that overlap, one that   *)
(* a new authentication comes in between of or that begins before the new  *)
(* keys are there, one without memory, and payloads longer than            *)
(* bufferIndex counts.                                                     *)
PayloadsRead ==
  got_last.n <= IndexRange /\ ~got_last.overlaps
    /\ (got_last.no_memory => secure_mode = PLAIN) => got_last.read

=============================================================================
