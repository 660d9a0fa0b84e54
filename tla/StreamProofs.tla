---------------------------- MODULE StreamProofs ----------------------------
(***************************************************************************)
(* What one side writes the other side reads, byte by byte and in order,   *)
(* however the bytes arrive: the packets of a connection to the broker     *)
(* (MqttWire), and the firmware in the answers of the server (Ota), for    *)
(* any packets, files and lengths of the buffers; and a message goes, by   *)
(* the characters of its topic, to the subscription whose filter covers it *)
(* (MqttTopics).                                                           *)
(***************************************************************************)
EXTENDS MqttWire, Ota, MqttTopics, WellFoundedInduction, SequenceTheorems, TLAPS

Octet == 0 .. 255

-----------------------------------------------------------------------------
(* Numbers and loops.                                                      *)
(* A set of numbers that is not empty has a least one.                     *)
LEMMA LeastNumber ==
  ASSUME NEW T, T \subseteq Nat, T # {}
  PROVE  \E m \in T : \A k \in T : m <= k
<1> DEFINE less == OpToRel(<, Nat)
<1>1. IsWellFoundedOn(less, Nat)
  BY NatLessThanWellFounded
<1> HIDE DEF less
<1>2. PICK m \in T : \A k \in T : ~(<<k, m>> \in less)
  BY <1>1, WFMin
<1>3. \A k \in T : ~(k < m)
  BY <1>2 DEF less, OpToRel
<1> QED
  BY <1>3

(* What a loop of n turns keeps, turn by turn: k \in P.                    *)
EachTurn(P, n) == n \in Nat /\ 0 \in P /\ \A k \in 1 .. n : k - 1 \in P => k \in P

LEMMA AllTurns ==
  ASSUME NEW n, NEW P, EachTurn(P, n)
  PROVE  \A k \in 0 .. n : k \in P
<1> USE DEF EachTurn
<1> DEFINE bad == {k \in 0 .. n : k \notin P}
<1>1. ASSUME bad # {} PROVE FALSE
  <2>1. PICK m \in bad : \A k \in bad : m <= k
    BY <1>1, LeastNumber, bad \subseteq Nat
  <2>2. m \in 0 .. n /\ m \notin P /\ m # 0
    BY <2>1
  <2>3. m \in 1 .. n /\ m - 1 \in 0 .. n /\ m - 1 \notin bad
    BY <2>1, <2>2
  <2> QED
    BY <2>2, <2>3
<1> QED
  BY <1>1

(* A loop of n turns with the body g.                                      *)
Turns(f, n, a, g) == f = [k \in 0 .. n |-> IF k = 0 THEN a ELSE g[<<k, f[k - 1]>>]]

LEMMA TurnsExist ==
  ASSUME NEW n \in Nat, NEW a, NEW g
  PROVE  \E f : Turns(f, n, a, g)
<1> DEFINE Found(m) == \E f : Turns(f, m, a, g)
           P == {m \in Nat : Found(m)}
<1>1. Found(0)
  <2> DEFINE f == [k \in 0 .. 0 |-> a]
  <2>1. f = [k \in 0 .. 0 |-> IF k = 0 THEN a ELSE g[<<k, f[k - 1]>>]]
    OBVIOUS
  <2> QED
    BY <2>1 DEF Turns
<1>2. ASSUME NEW m \in Nat, Found(m) PROVE Found(m + 1)
  <2>1. PICK f : Turns(f, m, a, g)
    BY <1>2
  <2> DEFINE more == [k \in 0 .. m + 1 |-> IF k = m + 1 THEN g[<<k, f[m]>>] ELSE f[k]]
  <2>2. ASSUME NEW k \in 0 .. m + 1
        PROVE  more[k] = IF k = 0 THEN a ELSE g[<<k, more[k - 1]>>]
    <3>1. CASE k = m + 1
      <4>1. more[k] = g[<<k, f[m]>>] /\ k # 0 /\ k - 1 = m /\ k - 1 \in 0 .. m + 1 /\ k - 1 # m + 1
        BY <3>1
      <4>2. more[k - 1] = f[m]
        BY <4>1
      <4> QED
        BY <4>1, <4>2
    <3>2. CASE k # m + 1
      <4>1. k \in 0 .. m /\ more[k] = f[k]
        BY <3>2
      <4>2. f[k] = IF k = 0 THEN a ELSE g[<<k, f[k - 1]>>]
        BY <2>1, <4>1 DEF Turns
      <4>3. k # 0 => k - 1 \in 0 .. m + 1 /\ k - 1 # m + 1 /\ more[k - 1] = f[k - 1]
        BY <4>1
      <4> QED
        BY <4>1, <4>2, <4>3
    <3> QED
      BY <3>1, <3>2
  <2>3. more = [k \in 0 .. m + 1 |-> more[k]]
    OBVIOUS
  <2> HIDE DEF more
  <2>4. Turns(more, m + 1, a, g)
    BY <2>2, <2>3 DEF Turns
  <2> QED
    BY <2>4
<1> HIDE DEF Found
<1>3. EachTurn(P, n)
  <2>1. 0 \in P
    BY <1>1
  <2>2. ASSUME NEW k \in 1 .. n, k - 1 \in P PROVE k \in P
    <3>1. k - 1 \in Nat /\ Found(k - 1) /\ (k - 1) + 1 = k /\ k \in Nat
      BY <2>2
    <3>2. Found((k - 1) + 1)
      BY <1>2, <3>1
    <3> QED
      BY <3>1, <3>2
  <2> QED
    BY <2>1, <2>2 DEF EachTurn
<1>4. n \in P
  BY <1>3, AllTurns
<1> QED
  BY <1>4 DEF Found

-----------------------------------------------------------------------------
(* The bytes e stand at the place p of b.                                  *)
At(b, p, e) == p \in Nat \ {0} /\ p + Len(e) <= Len(b) + 1 /\ \A i \in 1 .. Len(e) : b[p + i - 1] = e[i]

(* Two strings of bytes, joined.                                           *)
LEMMA Joined ==
  ASSUME NEW s \in Seq(Octet), NEW t \in Seq(Octet)
  PROVE  /\ s \o t \in Seq(Octet) /\ Len(s \o t) = Len(s) + Len(t)
         /\ Len(s) \in Nat /\ Len(t) \in Nat
         /\ \A i \in 1 .. Len(s) : (s \o t)[i] = s[i]
         /\ \A i \in 1 .. Len(t) : (s \o t)[Len(s) + i] = t[i]
<1>1. s \o t \in Seq(Octet) /\ Len(s \o t) = Len(s) + Len(t) /\ Len(s) \in Nat /\ Len(t) \in Nat
  OBVIOUS
<1>2. \A i \in 1 .. Len(s) : (s \o t)[i] = s[i]
  OBVIOUS
<1>3. ASSUME NEW i \in 1 .. Len(t) PROVE (s \o t)[Len(s) + i] = t[i]
  OBVIOUS
<1> QED
  BY <1>1, <1>2, <1>3

(* What stands at a place is what SubSeq takes from there.                 *)
LEMMA Cut ==
  ASSUME NEW b \in Seq(Octet), NEW e \in Seq(Octet), NEW lo, NEW hi,
         At(b, lo, e), hi = lo + Len(e) - 1
  PROVE  SubSeq(b, lo, hi) = e
<1> DEFINE n == Len(b)
           m == Len(e)
           s == SubSeq(b, lo, hi)
<1>1. /\ lo \in Nat \ {0} /\ lo + m <= n + 1 /\ m \in Nat /\ n \in Nat /\ hi = lo + m - 1
      /\ \A i \in 1 .. m : b[lo + i - 1] = e[i]
  BY DEF At
<1>2. lo \in 1 .. n + 1 /\ hi \in lo - 1 .. n
  <2> HIDE DEF n, m
  <2> QED
    BY <1>1
<1>3. s \in Seq(Octet) /\ Len(s) = hi - lo + 1 /\ \A i \in 1 .. hi - lo + 1 : s[i] = b[lo + i - 1]
  BY <1>2, SubSeqProperties
<1> HIDE DEF s
<1>4. hi - lo + 1 = m
  <2> HIDE DEF m
  <2> QED
    BY <1>1
<1>5. Len(s) = Len(e) /\ \A i \in 1 .. Len(s) : s[i] = e[i]
  BY <1>1, <1>3, <1>4
<1>6. s = e
  BY <1>3, <1>5, SeqEqual
<1> QED
  BY <1>6 DEF s

(* Bytes in the front part of two stand in the two.                        *)
LEMMA AtFront ==
  ASSUME NEW s \in Seq(Octet), NEW t \in Seq(Octet), NEW e \in Seq(Octet), NEW p, At(s, p, e)
  PROVE  At(s \o t, p, e)
<1> DEFINE c == s \o t
<1>1. /\ Len(c) = Len(s) + Len(t) /\ Len(s) \in Nat /\ Len(t) \in Nat
      /\ \A i \in 1 .. Len(s) : c[i] = s[i]
  BY Joined
<1>2. p \in Nat \ {0} /\ p + Len(e) <= Len(s) + 1 /\ Len(e) \in Nat
  BY DEF At
<1> HIDE DEF c
<1>3. ASSUME NEW i \in 1 .. Len(e) PROVE c[p + i - 1] = e[i]
  <2>1. p + i - 1 \in 1 .. Len(s)
    BY <1>1, <1>2
  <2>2. s[p + i - 1] = e[i]
    BY DEF At
  <2> QED
    BY <1>1, <2>1, <2>2
<1>4. p + Len(e) <= Len(c) + 1
  BY <1>1, <1>2
<1> QED
  BY <1>2, <1>3, <1>4 DEF At, c

(* Bytes at the end of what was there.                                     *)
LEMMA AtEnd ==
  ASSUME NEW s \in Seq(Octet), NEW e \in Seq(Octet)
  PROVE  At(s \o e, Len(s) + 1, e)
<1> DEFINE c == s \o e
<1>1. /\ Len(c) = Len(s) + Len(e) /\ Len(s) \in Nat /\ Len(e) \in Nat
      /\ \A i \in 1 .. Len(e) : c[Len(s) + i] = e[i]
  BY Joined
<1> HIDE DEF c
<1>2. \A i \in 1 .. Len(e) : (Len(s) + 1) + i - 1 = Len(s) + i
  BY <1>1
<1>3. Len(s) + 1 \in Nat \ {0} /\ (Len(s) + 1) + Len(e) <= Len(c) + 1
  BY <1>1
<1> QED
  BY <1>1, <1>2, <1>3 DEF At, c

(* Of two that stand at a place, each stands at its own.                   *)
LEMMA AtParts ==
  ASSUME NEW b, Len(b) \in Nat, NEW s \in Seq(Octet), NEW t \in Seq(Octet), NEW p, At(b, p, s \o t)
  PROVE  At(b, p, s) /\ At(b, p + Len(s), t)
<1> DEFINE c == s \o t
<1>1. /\ Len(c) = Len(s) + Len(t) /\ Len(s) \in Nat /\ Len(t) \in Nat
      /\ \A i \in 1 .. Len(s) : c[i] = s[i]
      /\ \A i \in 1 .. Len(t) : c[Len(s) + i] = t[i]
  BY Joined
<1>2. p \in Nat \ {0} /\ p + Len(c) <= Len(b) + 1 /\ \A i \in 1 .. Len(c) : b[p + i - 1] = c[i]
  BY DEF At
<1> HIDE DEF c
<1>3. At(b, p, s)
  <2>1. ASSUME NEW i \in 1 .. Len(s) PROVE b[p + i - 1] = s[i]
    <3>1. i \in 1 .. Len(c)
      BY <1>1
    <3> QED
      BY <1>1, <1>2, <3>1
  <2>2. p + Len(s) <= Len(b) + 1
    BY <1>1, <1>2
  <2> QED
    BY <1>2, <2>1, <2>2 DEF At
<1>4. At(b, p + Len(s), t)
  <2> DEFINE q == p + Len(s)
  <2>1. ASSUME NEW i \in 1 .. Len(t) PROVE b[q + i - 1] = t[i]
    <3> DEFINE k == Len(s) + i
    <3>1. k \in 1 .. Len(c) /\ p + k - 1 = q + i - 1
      BY <1>1, <1>2
    <3>2. c[k] = t[i]
      BY <1>1
    <3> HIDE DEF k
    <3>3. b[p + k - 1] = c[k]
      BY <1>2, <3>1
    <3> QED
      BY <3>1, <3>2, <3>3
  <2>2. q + Len(t) <= Len(b) + 1 /\ q \in Nat \ {0}
    BY <1>1, <1>2
  <2> QED
    BY <2>1, <2>2 DEF At
<1> QED
  BY <1>3, <1>4

-----------------------------------------------------------------------------
(* Integers, strings and lengths as bytes, and read back.                  *)
LEMMA Uint16 ==
  /\ MaxUint16 \in Nat
  /\ \A n \in 0 .. MaxUint16 : n \in Nat /\ n <= 65535
  /\ \A n \in Nat : n <= MaxUint16 => n \in 0 .. MaxUint16
<1>1. MaxUint16 \in Nat
  BY DEF MaxUint16
<1>2. \A n \in 0 .. MaxUint16 : n \in Nat /\ n <= MaxUint16
  BY <1>1
<1>3. \A n \in Nat : n <= MaxUint16 => n \in 0 .. MaxUint16
  BY <1>1
<1>4. MaxUint16 <= 65535
  BY DEF MaxUint16
<1>5. \A n \in Nat : n <= MaxUint16 => n <= 65535
  BY <1>1, <1>4
<1> QED
  BY <1>1, <1>2, <1>3, <1>5

LEMMA IntBytes ==
  ASSUME NEW n \in 0 .. MaxUint16
  PROVE  /\ writeInt(n) \in Seq(Octet) /\ Len(writeInt(n)) = 2
         /\ 256 * writeInt(n)[1] + writeInt(n)[2] = n
<1> DEFINE h == n \div 256
           l == n % 256
<1>1. h \in 0 .. 255 /\ l \in 0 .. 255 /\ 256 * h + l = n
  <2>1. n \in Nat /\ n <= 65535
    BY Uint16
  <2> QED
    BY <2>1
<1>2. writeInt(n) = <<h % 256, l>>
  BY DEF writeInt
<1> HIDE DEF h, l
<1>3. h % 256 = h
  BY <1>1
<1> QED
  BY <1>1, <1>2, <1>3 DEF Octet

LEMMA IntRead ==
  ASSUME NEW n \in 0 .. MaxUint16, NEW b, NEW p, At(b, p, writeInt(n))
  PROVE  readInt(b, p) = n
<1> DEFINE w == writeInt(n)
<1>1. Len(w) = 2 /\ 256 * w[1] + w[2] = n
  BY IntBytes
<1> HIDE DEF w
<1>2. p \in Nat /\ b[p + 1 - 1] = w[1] /\ b[p + 2 - 1] = w[2]
  <2>1. At(b, p, w)
    BY DEF w
  <2> QED
    BY <1>1, <2>1 DEF At
<1>3. p + 1 - 1 = p /\ p + 2 - 1 = p + 1
  BY <1>2
<1> QED
  BY <1>1, <1>2, <1>3 DEF readInt

LEMMA StringBytes ==
  ASSUME NEW s \in MqttString
  PROVE  /\ s \in Seq(Octet) /\ Len(s) \in 0 .. MaxUint16 /\ Len(s) \in Nat
         /\ writeMQTTString(s) \in Seq(Octet) /\ Len(writeMQTTString(s)) = 2 + Len(s)
<1>1. s \in Seq(Octet) /\ Len(s) \in Nat /\ Len(s) <= MaxUint16
  BY DEF MqttString, Octet
<1>2. Len(s) \in 0 .. MaxUint16
  BY <1>1, Uint16
<1> DEFINE w == writeInt(Len(s))
<1>3. w \in Seq(Octet) /\ Len(w) = 2
  BY <1>2, IntBytes
<1>4. writeMQTTString(s) = w \o s
  BY DEF writeMQTTString
<1> HIDE DEF w
<1>5. w \o s \in Seq(Octet) /\ Len(w \o s) = Len(w) + Len(s)
  BY <1>1, <1>3, Joined
<1> QED
  BY <1>1, <1>2, <1>3, <1>4, <1>5

LEMMA StringRead ==
  ASSUME NEW s \in MqttString, NEW b \in Seq(Octet), NEW p, At(b, p, writeMQTTString(s))
  PROVE  readInt(b, p) = Len(s) /\ readMQTTLenString(b, p) = s
<1> DEFINE w == writeInt(Len(s))
<1>1. s \in Seq(Octet) /\ Len(s) \in 0 .. MaxUint16 /\ Len(s) \in Nat
  BY StringBytes
<1>2. w \in Seq(Octet) /\ Len(w) = 2
  BY <1>1, IntBytes
<1>3. At(b, p, w \o s) /\ Len(b) \in Nat
  BY DEF writeMQTTString
<1> HIDE DEF w
<1>4. At(b, p, w) /\ At(b, p + 2, s)
  BY <1>1, <1>2, <1>3, AtParts
<1>5. readInt(b, p) = Len(s)
  BY <1>1, <1>4, IntRead DEF w
<1>6. p + 1 + Len(s) = (p + 2) + Len(s) - 1
  BY <1>1, <1>3 DEF At
<1>7. SubSeq(b, p + 2, p + 1 + Len(s)) = s
  BY <1>1, <1>4, <1>6, Cut
<1> QED
  BY <1>5, <1>7 DEF readMQTTLenString

(* The digits of a length.                                                 *)
LEMMA Digits ==
  ASSUME NEW n \in Nat, n <= MaxRemaining
  PROVE  \E size \in 1 .. 4 :
           /\ MQTTPacket_encode(n) =
                [k \in 1 .. size |-> ((n \div Weight[k]) % 128) + (IF k < size THEN 128 ELSE 0)]
           /\ size > 1 => n >= Weight[size]
           /\ size < 4 => n < Weight[size + 1]
<1> DEFINE Fits(k) == (k > 1 => n >= Weight[k]) /\ (k < 4 => n < Weight[k + 1])
<1>1. \E k \in 1 .. 4 : Fits(k)
  <2>1. Weight[2] = 128 /\ Weight[3] = 16384 /\ Weight[4] = 2097152
    BY DEF Weight
  <2>2. CASE n < 128
    <3>1. Fits(1)
      BY <2>1, <2>2
    <3> QED
      BY <3>1
  <2>3. CASE n >= 128 /\ n < 16384
    <3>1. Fits(2)
      BY <2>1, <2>3
    <3> QED
      BY <3>1
  <2>4. CASE n >= 16384 /\ n < 2097152
    <3>1. Fits(3)
      BY <2>1, <2>4
    <3> QED
      BY <3>1
  <2>5. CASE n >= 2097152
    <3>1. Fits(4)
      BY <2>1, <2>5
    <3> QED
      BY <3>1
  <2> QED
    BY <2>2, <2>3, <2>4, <2>5
<1> DEFINE size == CHOOSE k \in 1 .. 4 : Fits(k)
<1>2. size \in 1 .. 4 /\ Fits(size)
  BY <1>1
<1>3. MQTTPacket_encode(n) =
        [k \in 1 .. size |-> ((n \div Weight[k]) % 128) + (IF k < size THEN 128 ELSE 0)]
  BY DEF MQTTPacket_encode
<1> HIDE DEF size
<1> QED
  BY <1>2, <1>3

LEMMA Weighed ==
  ASSUME NEW n \in Nat, NEW k \in 1 .. 4
  PROVE  n \div Weight[k] \in Nat
<1>1. Weight[1] = 1 /\ Weight[2] = 128 /\ Weight[3] = 16384 /\ Weight[4] = 2097152
  BY DEF Weight
<1>2. CASE k = 1
  BY <1>1, <1>2
<1>3. CASE k = 2
  BY <1>1, <1>3
<1>4. CASE k = 3
  BY <1>1, <1>4
<1>5. CASE k = 4
  BY <1>1, <1>5
<1> QED
  BY <1>2, <1>3, <1>4, <1>5

LEMMA LengthBytesWritten ==
  ASSUME NEW n \in Nat, n <= MaxRemaining, NEW e, e = MQTTPacket_encode(n)
  PROVE  /\ e \in Seq(Octet) /\ Len(e) \in 1 .. 4
         /\ \A k \in 1 .. Len(e) :
              e[k] = ((n \div Weight[k]) % 128) + (IF k < Len(e) THEN 128 ELSE 0)
         /\ Len(e) > 1 => n >= Weight[Len(e)]
         /\ Len(e) < 4 => n < Weight[Len(e) + 1]
<1>1. PICK size \in 1 .. 4 :
           /\ e = [k \in 1 .. size |-> ((n \div Weight[k]) % 128) + (IF k < size THEN 128 ELSE 0)]
           /\ size > 1 => n >= Weight[size]
           /\ size < 4 => n < Weight[size + 1]
  BY Digits
<1>2. \A k \in 1 .. size : e[k] = ((n \div Weight[k]) % 128) + (IF k < size THEN 128 ELSE 0)
  BY <1>1
<1>3. ASSUME NEW k \in 1 .. size PROVE e[k] \in Octet
  <2> DEFINE q == n \div Weight[k]
  <2>1. q \in Nat
    <3>1. k \in 1 .. 4
      OBVIOUS
    <3> QED
      BY <3>1, Weighed
  <2>2. e[k] = (q % 128) + (IF k < size THEN 128 ELSE 0)
    BY <1>2
  <2> HIDE DEF q
  <2> QED
    BY <2>1, <2>2 DEF Octet
<1>4. e \in [1 .. size -> Octet]
  BY <1>1, <1>3
<1>5. e \in Seq(Octet) /\ Len(e) = size
  BY <1>4
<1> QED
  BY <1>1, <1>2, <1>5

(* A length is read as it was written.                                     *)
LEMMA LengthBytesRead ==
  ASSUME NEW n \in Nat, n <= MaxRemaining, NEW t, At(t, 2, MQTTPacket_encode(n))
  PROVE  /\ LengthBytes(t) = Len(MQTTPacket_encode(n))
         /\ \A k \in 1 .. LengthBytes(t) :
              t[1 + k] \in Octet /\ (t[1 + k] % 128) = (n \div Weight[k]) % 128
<1> DEFINE e == MQTTPacket_encode(n)
           size == Len(e)
<1>1. /\ e \in Seq(Octet) /\ size \in 1 .. 4
      /\ \A k \in 1 .. size : e[k] = ((n \div Weight[k]) % 128) + (IF k < size THEN 128 ELSE 0)
  BY LengthBytesWritten
<1>2. At(t, 2, e)
  OBVIOUS
<1> HIDE DEF e
<1>3. \A k \in 1 .. size : t[1 + k] = e[k] /\ e[k] \in Octet
  <2>1. \A k \in 1 .. size : t[2 + k - 1] = e[k] /\ 2 + k - 1 = 1 + k
    BY <1>1, <1>2 DEF At
  <2> QED
    BY <1>1, <2>1
<1>4. ASSUME NEW k \in 1 .. size
      PROVE  /\ k < size => t[1 + k] >= 128
             /\ k = size => t[1 + k] < 128
             /\ t[1 + k] % 128 = (n \div Weight[k]) % 128
  <2> DEFINE q == n \div Weight[k]
             d == q % 128
  <2>1. k \in 1 .. 4
    BY <1>1
  <2>2. q \in Nat
    BY <2>1, Weighed
  <2>3. t[1 + k] = d + (IF k < size THEN 128 ELSE 0)
    BY <1>1, <1>3
  <2> HIDE DEF q
  <2>4. d \in 0 .. 127
    BY <2>2
  <2> HIDE DEF d
  <2>5. \A x \in 0 .. 127 : x % 128 = x /\ (x + 128) % 128 = x /\ x < 128 /\ x + 128 >= 128
    OBVIOUS
  <2>6. CASE k < size
    <3>1. t[1 + k] = d + 128 /\ k # size
      BY <1>1, <2>3, <2>6
    <3>2. t[1 + k] >= 128 /\ t[1 + k] % 128 = d
      BY <2>4, <2>5, <3>1
    <3> QED
      BY <2>6, <3>1, <3>2, Zenon DEF d, q
  <2>7. CASE ~(k < size)
    <3>1. t[1 + k] = d + 0
      BY <2>3, <2>7
    <3>2. t[1 + k] = d
      BY <2>4, <3>1
    <3>3. t[1 + k] < 128 /\ t[1 + k] % 128 = d
      BY <2>4, <2>5, <3>2
    <3> QED
      BY <2>7, <3>3, Zenon DEF d, q
  <2> QED
    BY <2>6, <2>7
<1> HIDE DEF size
<1> DEFINE Ends(k) == t[1 + k] < 128 /\ \A j \in 1 .. k - 1 : t[1 + j] >= 128
<1>5. Ends(size) /\ \A k \in 1 .. 4 : Ends(k) => k = size
  <2>1. \A k \in 1 .. size : t[1 + k] \in Nat
    <3>1. \A k \in 1 .. size : t[1 + k] \in Octet
      BY <1>3
    <3>2. Octet \subseteq Nat
      BY DEF Octet
    <3> QED
      BY <3>1, <3>2
  <2>2. Ends(size)
    <3>1. size \in 1 .. size /\ \A j \in 1 .. size - 1 : j \in 1 .. size /\ j < size
      BY <1>1
    <3> QED
      BY <1>4, <3>1
  <2>3. ASSUME NEW k \in 1 .. 4, Ends(k), k # size PROVE FALSE
    <3>1. CASE k < size
      BY <1>1, <1>4, <2>1, <2>3, <3>1
    <3>2. CASE k > size
      <4>1. size \in 1 .. k - 1
        BY <1>1, <3>2
      <4>2. t[1 + size] >= 128
        BY <2>3, <4>1
      <4> QED
        BY <1>1, <1>4, <2>1, <4>2
    <3> QED
      BY <1>1, <2>3, <3>1, <3>2
  <2> QED
    BY <2>2, <2>3
<1>6. LengthBytes(t) = CHOOSE k \in 1 .. 4 : Ends(k)
  BY DEF LengthBytes
<1> HIDE DEF Ends
<1>7. LengthBytes(t) = size
  BY <1>1, <1>5, <1>6
<1> QED
  BY <1>3, <1>4, <1>7 DEF size, e

LEMMA DigitSum ==
  ASSUME NEW n \in Nat
  PROVE  /\ n < 128 => ((n \div 1) % 128) * 1 = n
         /\ n < 16384 => ((n \div 1) % 128) * 1 + ((n \div 128) % 128) * 128 = n
         /\ n < 2097152 =>
              ((n \div 1) % 128) * 1 + ((n \div 128) % 128) * 128 + ((n \div 16384) % 128) * 16384 = n
         /\ n <= 268435455 =>
              ((n \div 1) % 128) * 1 + ((n \div 128) % 128) * 128 + ((n \div 16384) % 128) * 16384
                + ((n \div 2097152) % 128) * 2097152 = n
<1>1. n < 128 => ((n \div 1) % 128) * 1 = n
  BY SMT
<1>2. n < 16384 => ((n \div 1) % 128) * 1 + ((n \div 128) % 128) * 128 = n
  BY SMT
<1>3. n < 2097152 =>
              ((n \div 1) % 128) * 1 + ((n \div 128) % 128) * 128 + ((n \div 16384) % 128) * 16384 = n
  BY SMT
<1>4. n <= 268435455 =>
              ((n \div 1) % 128) * 1 + ((n \div 128) % 128) * 128 + ((n \div 16384) % 128) * 16384
                + ((n \div 2097152) % 128) * 2097152 = n
  BY SMT
<1> QED
  BY <1>1, <1>2, <1>3, <1>4

LEMMA RemainingRead ==
  ASSUME NEW n \in Nat, n <= MaxRemaining, NEW t, At(t, 2, MQTTPacket_encode(n))
  PROVE  RemainingLength(t) = n
<1> DEFINE size == LengthBytes(t)
           part == [k \in 1 .. size |-> (t[1 + k] % 128) * Weight[k]]
           IsSum(f) == f = [k \in 0 .. size |->
                              IF k = 0 THEN 0 ELSE f[k - 1] + (t[1 + k] % 128) * Weight[k]]
           value == CHOOSE f : IsSum(f)
<1>1. size = Len(MQTTPacket_encode(n)) /\ size \in 1 .. 4 /\ size \in Nat
  <2>1. size = Len(MQTTPacket_encode(n))
    BY LengthBytesRead
  <2>2. Len(MQTTPacket_encode(n)) \in 1 .. 4
    BY LengthBytesWritten
  <2> HIDE DEF size
  <2> QED
    BY <2>1, <2>2
<1>2. \A k \in 1 .. size : t[1 + k] \in Octet /\ (t[1 + k] % 128) = (n \div Weight[k]) % 128
  BY LengthBytesRead
<1>3. RemainingLength(t) = value[size]
  BY DEF RemainingLength
<1> HIDE DEF size
<1>4. \A k \in 1 .. size : part[k] \in Int
  <2>1. \A k \in 1 .. 4 : Weight[k] \in Int
    <3>1. Weight[1] = 1 /\ Weight[2] = 128 /\ Weight[3] = 16384 /\ Weight[4] = 2097152
      BY DEF Weight
    <3> QED
      BY <3>1
  <2>2. \A k \in 1 .. size : k \in 1 .. 4 /\ (t[1 + k] % 128) \in Int
    <3>1. \A o \in Octet : (o % 128) \in Int
      BY DEF Octet
    <3>2. \A k \in 1 .. size : k \in 1 .. 4
      BY <1>1
    <3> QED
      BY <1>2, <3>1, <3>2
  <2>3. \A a, b \in Int : a * b \in Int
    OBVIOUS
  <2> QED
    BY <2>1, <2>2, <2>3
<1>5. \E f : IsSum(f)
  <2> DEFINE g == [x \in (1 .. size) \X Int |-> x[2] + part[x[1]]]
  <2>1. PICK f : Turns(f, size, 0, g)
    BY <1>1, TurnsExist
  <2>2. f[0] = 0 /\ \A k \in 1 .. size : f[k] = g[<<k, f[k - 1]>>]
    <3>1. \A k \in 0 .. size : f[k] = IF k = 0 THEN 0 ELSE g[<<k, f[k - 1]>>]
      BY <2>1 DEF Turns
    <3>2. 0 \in 0 .. size /\ \A k \in 1 .. size : k \in 0 .. size /\ k # 0
      BY <1>1
    <3> HIDE DEF g
    <3> QED
      BY <3>1, <3>2
  <2> DEFINE P == {k \in 0 .. size : f[k] \in Int}
  <2>3. \A k \in 1 .. size : f[k - 1] \in Int => f[k] = f[k - 1] + part[k]
    BY <2>2
  <2>4. EachTurn(P, size)
    <3>1. 0 \in P
      BY <1>1, <2>2
    <3>2. ASSUME NEW k \in 1 .. size, k - 1 \in P PROVE k \in P
      <4>1. f[k] = f[k - 1] + part[k] /\ f[k - 1] \in Int /\ part[k] \in Int
        BY <1>4, <2>3, <3>2
      <4> QED
        BY <1>1, <4>1
    <3> QED
      BY <1>1, <3>1, <3>2 DEF EachTurn
  <2>5. \A k \in 0 .. size : f[k] \in Int
    BY <2>4, AllTurns
  <2>6. ASSUME NEW k \in 0 .. size
        PROVE  f[k] = IF k = 0 THEN 0 ELSE f[k - 1] + (t[1 + k] % 128) * Weight[k]
    <3>1. CASE k = 0
      BY <2>2, <3>1
    <3>2. CASE k # 0
      <4>1. k \in 1 .. size /\ k - 1 \in 0 .. size
        BY <1>1, <3>2
      <4>2. f[k] = f[k - 1] + part[k] /\ part[k] = (t[1 + k] % 128) * Weight[k]
        BY <2>3, <2>5, <4>1
      <4> QED
        BY <3>2, <4>2
    <3> QED
      BY <3>1, <3>2
  <2>7. f = [k \in 0 .. size |-> f[k]]
    BY <2>1 DEF Turns
  <2>8. f = [k \in 0 .. size |-> IF k = 0 THEN 0 ELSE f[k - 1] + (t[1 + k] % 128) * Weight[k]]
    BY <2>6, <2>7
  <2> QED
    BY <2>8
<1>6. IsSum(value)
  BY <1>5
<1> HIDE DEF value
<1>7. /\ value[0] = 0
      /\ \A k \in 1 .. size : value[k] = value[k - 1] + ((n \div Weight[k]) % 128) * Weight[k]
  <2>1. \A k \in 0 .. size : value[k] = IF k = 0 THEN 0 ELSE value[k - 1] + (t[1 + k] % 128) * Weight[k]
    BY <1>6
  <2>2. 0 \in 0 .. size /\ \A k \in 1 .. size : k \in 0 .. size /\ k # 0
    BY <1>1
  <2> QED
    BY <1>2, <2>1, <2>2
<1>8. /\ size > 1 => n >= Weight[size]
      /\ size < 4 => n < Weight[size + 1]
  BY <1>1, LengthBytesWritten
<1>9. Weight[1] = 1 /\ Weight[2] = 128 /\ Weight[3] = 16384 /\ Weight[4] = 2097152
  BY DEF Weight
<1> DEFINE a == ((n \div 1) % 128) * 1
           b == ((n \div 128) % 128) * 128
           c == ((n \div 16384) % 128) * 16384
           d == ((n \div 2097152) % 128) * 2097152
<1>10. a \in Int /\ b \in Int /\ c \in Int /\ d \in Int
  BY SMT
<1>11. /\ n < 128 => a = n
       /\ n < 16384 => a + b = n
       /\ n < 2097152 => a + b + c = n
       /\ n <= 268435455 => a + b + c + d = n
  BY DigitSum
<1>12. /\ size >= 1 => value[1] = value[0] + a
       /\ size >= 2 => value[2] = value[1] + b
       /\ size >= 3 => value[3] = value[2] + c
       /\ size >= 4 => value[4] = value[3] + d
  <2>1. \A k \in 1 .. 4 : size >= k => value[k] = value[k - 1] + ((n \div Weight[k]) % 128) * Weight[k]
    <3>1. \A k \in 1 .. 4 : size >= k => k \in 1 .. size
      BY <1>1
    <3> QED
      BY <1>7, <3>1
  <2>2. 2 - 1 = 1 /\ 3 - 1 = 2 /\ 4 - 1 = 3 /\ 1 - 1 = 0 /\ {1, 2, 3, 4} \subseteq 1 .. 4
    OBVIOUS
  <2>3. size >= 1 => value[1] = value[0] + a
    BY <1>9, <2>1, <2>2
  <2>4. size >= 2 => value[2] = value[1] + b
    BY <1>9, <2>1, <2>2
  <2>5. size >= 3 => value[3] = value[2] + c
    BY <1>9, <2>1, <2>2
  <2>6. size >= 4 => value[4] = value[3] + d
    BY <1>9, <2>1, <2>2
  <2> QED
    BY <2>3, <2>4, <2>5, <2>6
<1> HIDE DEF a, b, c, d
<1>13. value[size] = n
  <2>1. CASE size = 1
    BY <1>7, <1>8, <1>9, <1>10, <1>11, <1>12, <2>1, SMT
  <2>2. CASE size = 2
    BY <1>7, <1>8, <1>9, <1>10, <1>11, <1>12, <2>2, SMT
  <2>3. CASE size = 3
    BY <1>7, <1>8, <1>9, <1>10, <1>11, <1>12, <2>3, SMT
  <2>4. CASE size = 4
    BY <1>7, <1>10, <1>11, <1>12, <2>4, SMT DEF MaxRemaining
  <2> QED
    BY <1>1, <2>1, <2>2, <2>3, <2>4
<1> QED
  BY <1>3, <1>13

-----------------------------------------------------------------------------
(* A packet: its first byte, the length of the rest and the rest.          *)
Frame(first, body) == <<first>> \o MQTTPacket_encode(Len(body)) \o body

Framable(first, body) == first \in Octet /\ body \in Seq(Octet) /\ Len(body) <= MaxRemaining

(* What the header of the packet at the front of t says.                   *)
Headed(t, first, body) ==
  /\ t \in Seq(Octet) /\ t[1] = first
  /\ HeaderLen(t) \in 2 .. 5 /\ PacketLen(t) = HeaderLen(t) + Len(body)
  /\ At(t, HeaderLen(t) + 1, body)

LEMMA FrameBytes ==
  ASSUME NEW first, NEW body, Framable(first, body)
  PROVE  /\ Frame(first, body) \in Seq(Octet)
         /\ Len(Frame(first, body)) = 1 + Len(MQTTPacket_encode(Len(body))) + Len(body)
         /\ Len(body) \in Nat /\ Len(MQTTPacket_encode(Len(body))) \in 1 .. 4
<1> DEFINE e == MQTTPacket_encode(Len(body))
           h == <<first>> \o e
<1>1. first \in Octet /\ body \in Seq(Octet) /\ Len(body) \in Nat /\ Len(body) <= MaxRemaining
  BY DEF Framable
<1>2. e \in Seq(Octet) /\ Len(e) \in 1 .. 4
  BY <1>1, LengthBytesWritten
<1> HIDE DEF e
<1>3. <<first>> \in Seq(Octet) /\ Len(<<first>>) = 1
  BY <1>1
<1>4. h \in Seq(Octet) /\ Len(h) = 1 + Len(e)
  BY <1>2, <1>3, Joined
<1> HIDE DEF h
<1>5. h \o body \in Seq(Octet) /\ Len(h \o body) = Len(h) + Len(body)
  BY <1>1, <1>4, Joined
<1> QED
  BY <1>1, <1>2, <1>4, <1>5 DEF Frame, h, e

LEMMA FrameRead ==
  ASSUME NEW first, NEW body, Framable(first, body),
         NEW t \in Seq(Octet), At(t, 1, Frame(first, body))
  PROVE  Headed(t, first, body) /\ PacketLen(t) = Len(Frame(first, body))
<1> DEFINE n == Len(body)
           e == MQTTPacket_encode(n)
           h == <<first>> \o e
<1>1. first \in Octet /\ body \in Seq(Octet) /\ n \in Nat /\ n <= MaxRemaining
  BY DEF Framable
<1>2. e \in Seq(Octet) /\ Len(e) \in 1 .. 4
  BY <1>1, LengthBytesWritten
<1>3. <<first>> \in Seq(Octet) /\ Len(<<first>>) = 1 /\ <<first>>[1] = first
  BY <1>1
<1>4. h \in Seq(Octet) /\ Len(h) = 1 + Len(e)
  <2> HIDE DEF e
  <2> QED
    BY <1>2, <1>3, Joined
<1>5. At(t, 1, h \o body) /\ Len(t) \in Nat
  BY DEF Frame
<1>6. At(t, 1, h) /\ At(t, 1 + Len(h), body)
  <2> HIDE DEF h
  <2> QED
    BY <1>1, <1>4, <1>5, AtParts
<1>7. At(t, 1, <<first>>) /\ At(t, 1 + 1, e)
  <2> HIDE DEF e
  <2> QED
    BY <1>2, <1>3, <1>5, <1>6, AtParts
<1>8. At(t, 2, MQTTPacket_encode(n)) /\ t[1] = first
  <2>1. t[1 + 1 - 1] = first
    BY <1>3, <1>7 DEF At
  <2> QED
    BY <1>7, <2>1
<1> HIDE DEF n
<1>9. LengthBytes(t) = Len(e) /\ RemainingLength(t) = n
  BY <1>1, <1>8, LengthBytesRead, RemainingRead
<1>10. Len(Frame(first, body)) = 1 + Len(e) + n
  BY FrameBytes DEF n
<1> HIDE DEF e, h
<1>11. HeaderLen(t) = 1 + Len(e) /\ PacketLen(t) = 1 + Len(e) + n
  BY <1>2, <1>9 DEF HeaderLen, PacketLen
<1>12. HeaderLen(t) + 1 = 1 + Len(h) /\ HeaderLen(t) \in 2 .. 5
  <2>1. HeaderLen(t) = 1 + Len(e) /\ Len(h) = 1 + Len(e) /\ Len(e) \in 1 .. 4
    BY <1>2, <1>4, <1>11
  <2>2. \A k \in 1 .. 4 : (1 + k) + 1 = 1 + (1 + k) /\ 1 + k \in 2 .. 5
    OBVIOUS
  <2> QED
    BY <2>1, <2>2
<1> QED
  BY <1>6, <1>8, <1>10, <1>11, <1>12 DEF Headed, n

-----------------------------------------------------------------------------
(* What the client writes, type by type: the length reserved is that of    *)
(* what is written, and the broker reads the packet it was.                *)
Writable(p) ==
  /\ Serialize(p) = Frame(FirstByte(p), Body(p))
  /\ Framable(FirstByte(p), Body(p)) /\ Len(Body(p)) = SerializedLength(p)
  /\ \A t : Headed(t, FirstByte(p), Body(p)) /\ Len(t) = PacketLen(t) => BrokerReads(t) = p

(* A packet of an id, and of nothing.                                      *)
LEMMA AckWritable ==
  ASSUME NEW p \in AckPackets({PUBACK, PUBREC})
  PROVE  Writable(p)
<1>1. p = [type |-> p.type, packetid |-> p.packetid] /\ p.type \in {PUBACK, PUBREC}
      /\ p.packetid \in 0 .. MaxUint16
  BY DEF AckPackets
<1>2. Body(p) = writeInt(p.packetid) /\ SerializedLength(p) = 2 /\ FirstByte(p) = 16 * p.type
  BY <1>1 DEF Body, SerializedLength, FirstByte, CONNECT,
              CONNACK, PUBLISH, PUBACK, PUBREC, SUBSCRIBE, UNSUBSCRIBE, PINGREQ, DISCONNECT
<1>3. Body(p) \in Seq(Octet) /\ Len(Body(p)) = 2
  BY <1>1, <1>2, IntBytes
<1>4. FirstByte(p) \in Octet /\ FirstByte(p) \div 16 = p.type
  BY <1>1, <1>2 DEF PUBACK, PUBREC, Octet
<1>5. ASSUME NEW t, Headed(t, FirstByte(p), Body(p)), Len(t) = PacketLen(t)
      PROVE  BrokerReads(t) = p
  <2>1. t[1] \div 16 = p.type
    BY <1>4, <1>5 DEF Headed
  <2>2. readInt(t, HeaderLen(t) + 1) = p.packetid
    BY <1>1, <1>2, <1>5, IntRead DEF Headed
  <2>3. BrokerReads(t) = [type |-> p.type, packetid |-> readInt(t, HeaderLen(t) + 1)]
    BY <1>1, <2>1 DEF BrokerReads, CONNECT, PUBLISH, PUBACK, PUBREC, SUBSCRIBE, UNSUBSCRIBE
  <2> QED
    BY <1>1, <2>2, <2>3
<1>6. Framable(FirstByte(p), Body(p))
  BY <1>3, <1>4 DEF Framable, MaxRemaining
<1>7. Serialize(p) = Frame(FirstByte(p), Body(p))
  BY <1>2, <1>3 DEF Serialize, Frame
<1> QED
  BY <1>2, <1>3, <1>5, <1>6, <1>7 DEF Writable

LEMMA BareWritable ==
  ASSUME NEW p \in BarePackets({PINGREQ, DISCONNECT})
  PROVE  Writable(p)
<1>1. p = [type |-> p.type] /\ p.type \in {PINGREQ, DISCONNECT}
  BY DEF BarePackets
<1>2. Body(p) = <<>> /\ SerializedLength(p) = 0 /\ FirstByte(p) = 16 * p.type
  BY <1>1 DEF Body, SerializedLength, FirstByte, CONNECT,
              CONNACK, PUBLISH, PUBACK, PUBREC, SUBSCRIBE, UNSUBSCRIBE, PINGREQ, DISCONNECT
<1>3. Body(p) \in Seq(Octet) /\ Len(Body(p)) = 0
  BY <1>2
<1>4. FirstByte(p) \in Octet /\ FirstByte(p) \div 16 = p.type
  BY <1>1, <1>2 DEF PINGREQ, DISCONNECT, Octet
<1>5. ASSUME NEW t, Headed(t, FirstByte(p), Body(p)), Len(t) = PacketLen(t)
      PROVE  BrokerReads(t) = p
  <2>1. t[1] \div 16 = p.type
    BY <1>4, <1>5 DEF Headed
  <2>2. BrokerReads(t) = [type |-> p.type]
    BY <1>1, <2>1 DEF BrokerReads, CONNECT,
              CONNACK, PUBLISH, PUBACK, PUBREC, SUBSCRIBE, UNSUBSCRIBE, PINGREQ, DISCONNECT
  <2> QED
    BY <1>1, <2>2
<1>6. Framable(FirstByte(p), Body(p))
  BY <1>3, <1>4 DEF Framable, MaxRemaining
<1>7. Serialize(p) = Frame(FirstByte(p), Body(p))
  BY <1>2, <1>3 DEF Serialize, Frame
<1> QED
  BY <1>2, <1>3, <1>5, <1>6, <1>7 DEF Writable

(* A subscription ends with its QoS, the end of one does not.              *)
LEMMA AtThree ==
  ASSUME NEW a \in Seq(Octet), NEW b \in Seq(Octet), NEW c \in Seq(Octet)
  PROVE  /\ a \o b \o c \in Seq(Octet) /\ Len(a \o b \o c) = Len(a) + Len(b) + Len(c)
         /\ \A t, p : Len(t) \in Nat /\ At(t, p, a \o b \o c) =>
              At(t, p, a) /\ At(t, p + Len(a), b) /\ At(t, p + (Len(a) + Len(b)), c)
<1> DEFINE d == a \o b
<1>1. d \in Seq(Octet) /\ Len(d) = Len(a) + Len(b)
  BY Joined
<1>2. ASSUME NEW t, NEW p, Len(t) \in Nat, At(t, p, d)
      PROVE  At(t, p, a) /\ At(t, p + Len(a), b)
  BY <1>2, AtParts
<1> HIDE DEF d
<1>3. d \o c \in Seq(Octet) /\ Len(d \o c) = Len(d) + Len(c)
  BY <1>1, Joined
<1>4. ASSUME NEW t, NEW p, Len(t) \in Nat, At(t, p, d \o c)
      PROVE  At(t, p, a) /\ At(t, p + Len(a), b) /\ At(t, p + (Len(a) + Len(b)), c)
  <2>1. At(t, p, d) /\ At(t, p + Len(d), c)
    BY <1>1, <1>4, AtParts
  <2> QED
    BY <1>1, <1>2, <1>4, <2>1
<1> QED
  BY <1>1, <1>3, <1>4 DEF d

LEMMA SubscribeWritable ==
  ASSUME NEW p \in SubscribePackets
  PROVE  Writable(p)
<1> DEFINE idBytes == writeInt(p.packetid)
           topicBytes == writeMQTTString(p.topic)
           long == Len(p.topic)
           qosByte == <<p.qos>>
<1>1. /\ p = [type |-> SUBSCRIBE, packetid |-> p.packetid, topic |-> p.topic, qos |-> p.qos]
      /\ p.packetid \in 0 .. MaxUint16 /\ p.topic \in MqttString
      /\ p.qos \in 0 .. 2 /\ p.type = SUBSCRIBE
  BY DEF SubscribePackets
<1>2. /\ Body(p) = idBytes \o topicBytes \o qosByte /\ SerializedLength(p) = 2 + 2 + long + 1
      /\ FirstByte(p) = 16 * SUBSCRIBE + 2
  BY <1>1 DEF Body, SerializedLength, FirstByte, MQTTSerialize_subscribe, CONNECT,
              CONNACK, PUBLISH, PUBACK, PUBREC, SUBSCRIBE, UNSUBSCRIBE, PINGREQ, DISCONNECT
<1>3. idBytes \in Seq(Octet) /\ Len(idBytes) = 2
  BY <1>1, IntBytes
<1>4. topicBytes \in Seq(Octet) /\ Len(topicBytes) = 2 + long /\ long \in Nat /\ long <= 65535
  BY <1>1, StringBytes, Uint16
<1>5. qosByte \in Seq(Octet) /\ Len(qosByte) = 1 /\ qosByte[1] = p.qos
  BY <1>1 DEF Octet
<1>0. idBytes \in Seq(Octet) /\ topicBytes \in Seq(Octet) /\ qosByte \in Seq(Octet)
  BY <1>3, <1>4, <1>5
<1> HIDE DEF idBytes, topicBytes, qosByte, long
<1>6. Body(p) \in Seq(Octet) /\ Len(Body(p)) = SerializedLength(p) /\ Len(Body(p)) <= MaxRemaining
  <2>1. Body(p) \in Seq(Octet) /\ Len(Body(p)) = Len(idBytes) + Len(topicBytes) + Len(qosByte)
    <3>1. /\ idBytes \o topicBytes \o qosByte \in Seq(Octet)
          /\ Len(idBytes \o topicBytes \o qosByte) = Len(idBytes) + Len(topicBytes) + Len(qosByte)
      BY <1>0, AtThree
    <3> QED
      BY <1>2, <3>1
  <2>2. Len(idBytes) + Len(topicBytes) + Len(qosByte) = 2 + 2 + long + 1 /\ 2 + 2 + long + 1 <= 268435455
    BY <1>3, <1>4, <1>5
  <2> QED
    BY <1>2, <2>1, <2>2 DEF MaxRemaining
<1>7. FirstByte(p) \in Octet /\ FirstByte(p) \div 16 = SUBSCRIBE
  BY <1>2 DEF SUBSCRIBE, Octet
<1>8. ASSUME NEW t, Headed(t, FirstByte(p), Body(p)), Len(t) = PacketLen(t)
      PROVE  BrokerReads(t) = p
  <2> DEFINE at == HeaderLen(t) + 1
  <2>1. /\ t[1] \div 16 = SUBSCRIBE /\ t \in Seq(Octet) /\ Len(t) \in Nat
        /\ HeaderLen(t) \in Nat /\ Len(t) = HeaderLen(t) + Len(Body(p)) /\ At(t, at, Body(p))
    BY <1>7, <1>8 DEF Headed
  <2>2. at \in Nat /\ Len(t) = at + 4 + long
    <3>1. Len(Body(p)) = 2 + 2 + long + 1
      BY <1>2, <1>6
    <3> QED
      BY <1>4, <2>1, <3>1
  <2> HIDE DEF at
  <2>3. At(t, at, idBytes) /\ At(t, at + 2, topicBytes) /\ At(t, at + (2 + (2 + long)), qosByte)
    <3>1. At(t, at, idBytes \o topicBytes \o qosByte) /\ Len(t) \in Nat
      BY <1>2, <2>1
    <3>2. /\ At(t, at, idBytes) /\ At(t, at + Len(idBytes), topicBytes)
          /\ At(t, at + (Len(idBytes) + Len(topicBytes)), qosByte)
      BY <1>0, <3>1, AtThree
    <3> QED
      BY <1>3, <1>4, <3>2
  <2>4. readInt(t, at) = p.packetid
    BY <1>1, <2>3, IntRead DEF idBytes
  <2>5. readMQTTLenString(t, at + 2) = p.topic
    BY <1>1, <2>1, <2>3, StringRead DEF topicBytes
  <2>6. t[Len(t)] = p.qos
    <3>1. t[at + (2 + (2 + long)) + 1 - 1] = qosByte[1]
      BY <1>5, <2>3 DEF At
    <3>2. at + (2 + (2 + long)) + 1 - 1 = Len(t)
      BY <1>4, <2>2
    <3> QED
      BY <1>5, <3>1, <3>2
  <2>7. BrokerReads(t) = [type |-> SUBSCRIBE, packetid |-> readInt(t, at),
                          topic |-> readMQTTLenString(t, at + 2), qos |-> t[Len(t)]]
    <3>1. SUBSCRIBE \notin {CONNECT, PUBLISH, UNSUBSCRIBE, PUBACK, PUBREC}
      BY DEF CONNECT, PUBLISH, PUBACK, PUBREC, SUBSCRIBE, UNSUBSCRIBE
    <3> QED
      BY <2>1, <3>1 DEF BrokerReads, at
  <2> QED
    BY <1>1, <2>4, <2>5, <2>6, <2>7
<1>9. Framable(FirstByte(p), Body(p))
  BY <1>6, <1>7 DEF Framable
<1>10. Serialize(p) = Frame(FirstByte(p), Body(p))
  BY <1>6 DEF Serialize, Frame
<1> QED
  BY <1>6, <1>8, <1>9, <1>10 DEF Writable

LEMMA UnsubscribeWritable ==
  ASSUME NEW p \in UnsubscribePackets
  PROVE  Writable(p)
<1> DEFINE idBytes == writeInt(p.packetid)
           topicBytes == writeMQTTString(p.topic)
           long == Len(p.topic)
<1>1. /\ p = [type |-> UNSUBSCRIBE, packetid |-> p.packetid, topic |-> p.topic]
      /\ p.packetid \in 0 .. MaxUint16 /\ p.topic \in MqttString /\ p.type = UNSUBSCRIBE
  BY DEF UnsubscribePackets
<1>2. /\ Body(p) = idBytes \o topicBytes /\ SerializedLength(p) = 2 + 2 + long
      /\ FirstByte(p) = 16 * UNSUBSCRIBE + 2
  BY <1>1 DEF Body, SerializedLength, FirstByte, MQTTSerialize_unsubscribe, CONNECT,
              CONNACK, PUBLISH, PUBACK, PUBREC, SUBSCRIBE, UNSUBSCRIBE, PINGREQ, DISCONNECT
<1>3. idBytes \in Seq(Octet) /\ Len(idBytes) = 2
  BY <1>1, IntBytes
<1>4. topicBytes \in Seq(Octet) /\ Len(topicBytes) = 2 + long /\ long \in Nat /\ long <= 65535
  BY <1>1, StringBytes, Uint16
<1>0. idBytes \in Seq(Octet) /\ topicBytes \in Seq(Octet)
  BY <1>3, <1>4
<1> HIDE DEF idBytes, topicBytes, long
<1>5. Body(p) \in Seq(Octet) /\ Len(Body(p)) = SerializedLength(p) /\ Len(Body(p)) <= MaxRemaining
  <2>1. Body(p) \in Seq(Octet) /\ Len(Body(p)) = Len(idBytes) + Len(topicBytes)
    <3>1. /\ idBytes \o topicBytes \in Seq(Octet)
          /\ Len(idBytes \o topicBytes) = Len(idBytes) + Len(topicBytes)
      BY <1>0, Joined
    <3> QED
      BY <1>2, <3>1
  <2>2. Len(idBytes) + Len(topicBytes) = 2 + 2 + long /\ 2 + 2 + long <= 268435455
    BY <1>3, <1>4
  <2> QED
    BY <1>2, <2>1, <2>2 DEF MaxRemaining
<1>6. FirstByte(p) \in Octet /\ FirstByte(p) \div 16 = UNSUBSCRIBE
  BY <1>2 DEF UNSUBSCRIBE, Octet
<1>7. ASSUME NEW t, Headed(t, FirstByte(p), Body(p)), Len(t) = PacketLen(t)
      PROVE  BrokerReads(t) = p
  <2> DEFINE at == HeaderLen(t) + 1
  <2>1. /\ t[1] \div 16 = UNSUBSCRIBE /\ t \in Seq(Octet) /\ Len(t) \in Nat /\ At(t, at, Body(p))
    BY <1>6, <1>7 DEF Headed
  <2> HIDE DEF at
  <2>2. At(t, at, idBytes) /\ At(t, at + 2, topicBytes)
    <3>1. At(t, at, idBytes \o topicBytes) /\ Len(t) \in Nat
      BY <1>2, <2>1
    <3>2. At(t, at, idBytes) /\ At(t, at + Len(idBytes), topicBytes)
      BY <1>0, <3>1, AtParts
    <3> QED
      BY <1>3, <3>2
  <2>3. readInt(t, at) = p.packetid
    BY <1>1, <2>2, IntRead DEF idBytes
  <2>4. readMQTTLenString(t, at + 2) = p.topic
    BY <1>1, <2>1, <2>2, StringRead DEF topicBytes
  <2>5. BrokerReads(t) = [type |-> UNSUBSCRIBE, packetid |-> readInt(t, at),
                          topic |-> readMQTTLenString(t, at + 2)]
    BY <2>1 DEF BrokerReads, at, CONNECT,
              CONNACK, PUBLISH, PUBACK, PUBREC, SUBSCRIBE, UNSUBSCRIBE, PINGREQ, DISCONNECT
  <2> QED
    BY <1>1, <2>3, <2>4, <2>5
<1>8. Framable(FirstByte(p), Body(p))
  BY <1>5, <1>6 DEF Framable
<1>9. Serialize(p) = Frame(FirstByte(p), Body(p))
  BY <1>5 DEF Serialize, Frame
<1> QED
  BY <1>5, <1>7, <1>8, <1>9 DEF Writable

(* A message: the topic, the id if there is a QoS, the payload.            *)
IdBytes(p) == IF p.qos > 0 THEN writeInt(p.packetid) ELSE <<>>
IdSize(p) == IF p.qos > 0 THEN 2 ELSE 0

LEMMA PublishFields ==
  ASSUME NEW p \in PublishPackets
  PROVE  /\ p = [type |-> PUBLISH, qos |-> p.qos, retain |-> p.retain, topic |-> p.topic,
                 packetid |-> p.packetid, payload |-> p.payload]
         /\ p.type = PUBLISH /\ p.qos \in 0 .. 2 /\ p.retain \in {0, 1}
         /\ p.topic \in MqttString /\ p.packetid \in 0 .. MaxUint16
         /\ p.payload \in Seq(Octet) /\ (p.qos = 0 => p.packetid = 0)
<1> DEFINE R == [type : {PUBLISH}, qos : 0 .. 2, retain : {0, 1}, topic : MqttString,
                 packetid : 0 .. MaxUint16, payload : Seq(0 .. 255)]
<1>1. p \in R /\ (p.qos = 0 => p.packetid = 0)
  BY DEF PublishPackets
<1>2. p = [type |-> p.type, qos |-> p.qos, retain |-> p.retain, topic |-> p.topic,
           packetid |-> p.packetid, payload |-> p.payload]
  BY <1>1
<1>3. /\ p.type = PUBLISH /\ p.qos \in 0 .. 2 /\ p.retain \in {0, 1}
      /\ p.topic \in MqttString /\ p.packetid \in 0 .. MaxUint16
      /\ p.payload \in Seq(0 .. 255)
  BY <1>1
<1> QED
  BY <1>1, <1>2, <1>3 DEF Octet

LEMMA IdBytesWritten ==
  ASSUME NEW p \in PublishPackets
  PROVE  IdBytes(p) \in Seq(Octet) /\ Len(IdBytes(p)) = IdSize(p)
<1>1. CASE p.qos > 0
  BY <1>1, PublishFields, IntBytes DEF IdBytes, IdSize
<1>2. CASE ~(p.qos > 0)
  BY <1>2 DEF IdBytes, IdSize
<1> QED
  BY <1>1, <1>2

LEMMA PublishBody ==
  ASSUME NEW p \in PublishPackets
  PROVE  /\ MQTTSerialize_publish(p) \in Seq(Octet)
         /\ Len(MQTTSerialize_publish(p)) = 2 + Len(p.topic) + IdSize(p) + Len(p.payload)
         /\ Len(p.topic) \in Nat /\ Len(p.payload) \in Nat /\ IdSize(p) \in {0, 2}
<1> DEFINE topicBytes == writeMQTTString(p.topic)
           idBytes == IdBytes(p)
           data == p.payload
<1>1. MQTTSerialize_publish(p) = topicBytes \o idBytes \o data
  BY DEF MQTTSerialize_publish, IdBytes
<1>2. topicBytes \in Seq(Octet) /\ idBytes \in Seq(Octet) /\ data \in Seq(Octet)
  BY PublishFields, StringBytes, IdBytesWritten
<1>3. Len(topicBytes) = 2 + Len(p.topic) /\ Len(idBytes) = IdSize(p) /\ Len(p.topic) \in Nat
  BY PublishFields, StringBytes, IdBytesWritten
<1>4. Len(p.payload) \in Nat /\ IdSize(p) \in {0, 2}
  BY <1>2 DEF IdSize
<1> HIDE DEF topicBytes, idBytes
<1>5. /\ topicBytes \o idBytes \o data \in Seq(Octet)
      /\ Len(topicBytes \o idBytes \o data) = Len(topicBytes) + Len(idBytes) + Len(data)
  BY <1>2, AtThree
<1> QED
  BY <1>1, <1>3, <1>4, <1>5

LEMMA PublishRead ==
  ASSUME NEW p \in PublishPackets, NEW t,
         Headed(t, 48 + 2 * p.qos + p.retain, MQTTSerialize_publish(p))
  PROVE  /\ t[1] \div 16 = PUBLISH /\ (t[1] % 8) \div 2 = p.qos /\ t[1] % 2 = p.retain
         /\ readMQTTLenString(t, HeaderLen(t) + 1) = p.topic
         /\ readInt(t, HeaderLen(t) + 1) = Len(p.topic)
         /\ p.qos > 0 => readInt(t, HeaderLen(t) + 3 + Len(p.topic)) = p.packetid
         /\ SubSeq(t, HeaderLen(t) + 3 + Len(p.topic) + IdSize(p), PacketLen(t)) = p.payload
         /\ HeaderLen(t) \in Nat
<1> DEFINE topicBytes == writeMQTTString(p.topic)
           idBytes == IdBytes(p)
           data == p.payload
           at == HeaderLen(t) + 1
           long == Len(p.topic)
           k == IdSize(p)
           m == Len(data)
<1>1. /\ p.qos \in 0 .. 2 /\ p.retain \in {0, 1}
      /\ p.topic \in MqttString /\ p.packetid \in 0 .. MaxUint16 /\ data \in Seq(Octet)
  BY PublishFields
<1>2. MQTTSerialize_publish(p) = topicBytes \o idBytes \o data
  BY DEF MQTTSerialize_publish, IdBytes
<1>3. topicBytes \in Seq(Octet) /\ idBytes \in Seq(Octet)
  BY <1>1, StringBytes, IdBytesWritten
<1>4. Len(topicBytes) = 2 + long /\ Len(idBytes) = k /\ long \in Nat
  BY <1>1, StringBytes, IdBytesWritten
<1>5. Len(MQTTSerialize_publish(p)) = 2 + long + k + m /\ m \in Nat /\ k \in {0, 2}
  BY PublishBody
<1>6. /\ t[1] = 48 + 2 * p.qos + p.retain /\ t \in Seq(Octet) /\ Len(t) \in Nat
      /\ HeaderLen(t) \in Nat /\ PacketLen(t) = HeaderLen(t) + Len(MQTTSerialize_publish(p))
      /\ At(t, at, topicBytes \o idBytes \o data)
  BY <1>2 DEF Headed
<1>7. t[1] \div 16 = PUBLISH /\ (t[1] % 8) \div 2 = p.qos /\ t[1] % 2 = p.retain
  <2>1. \A q \in 0 .. 2, r \in {0, 1} :
          LET x == 48 + 2 * q + r
          IN  x \div 16 = 3 /\ (x % 8) \div 2 = q /\ x % 2 = r
    OBVIOUS
  <2>2. t[1] = 48 + 2 * p.qos + p.retain
    BY <1>6
  <2> QED
    BY <1>1, <2>1, <2>2 DEF PUBLISH
<1> HIDE DEF topicBytes, idBytes, data, at
<1>8. At(t, at, topicBytes) /\ At(t, at + Len(topicBytes), idBytes)
      /\ At(t, at + (Len(topicBytes) + Len(idBytes)), data)
  BY <1>1, <1>3, <1>6, AtThree
<1>9. readMQTTLenString(t, at) = p.topic /\ readInt(t, at) = Len(p.topic)
  BY <1>1, <1>6, <1>8, StringRead DEF topicBytes
<1> HIDE DEF long, k, m
<1>10. /\ at + Len(topicBytes) = HeaderLen(t) + 3 + long
       /\ at + (Len(topicBytes) + Len(idBytes)) = HeaderLen(t) + 3 + long + k
       /\ PacketLen(t) = HeaderLen(t) + 3 + long + k + m - 1
  <2>1. at = HeaderLen(t) + 1
    BY DEF at
  <2>2. /\ Len(topicBytes) = 2 + long /\ Len(idBytes) = k
        /\ PacketLen(t) = HeaderLen(t) + (2 + long + k + m)
    BY <1>4, <1>5, <1>6
  <2>3. HeaderLen(t) \in Nat /\ long \in Nat /\ k \in Nat /\ m \in Nat
    BY <1>4, <1>5, <1>6
  <2>4. \A h, l, i, j \in Nat :
          /\ (h + 1) + (2 + l) = h + 3 + l
          /\ (h + 1) + ((2 + l) + i) = h + 3 + l + i
          /\ h + (2 + l + i + j) = h + 3 + l + i + j - 1
    OBVIOUS
  <2> QED
    <3>1. at + Len(topicBytes) = HeaderLen(t) + 3 + long
      BY <2>1, <2>2, <2>3, <2>4
    <3>2. at + (Len(topicBytes) + Len(idBytes)) = HeaderLen(t) + 3 + long + k
      BY <2>1, <2>2, <2>3, <2>4
    <3>3. PacketLen(t) = HeaderLen(t) + 3 + long + k + m - 1
      BY <2>2, <2>3, <2>4
    <3> QED
      BY <3>1, <3>2, <3>3
<1>11. p.qos > 0 => readInt(t, HeaderLen(t) + 3 + long) = p.packetid
  <2>1. p.qos > 0 => idBytes = writeInt(p.packetid)
    BY DEF idBytes, IdBytes
  <2> QED
    BY <1>1, <1>8, <1>10, <2>1, IntRead
<1>12. SubSeq(t, HeaderLen(t) + 3 + long + k, PacketLen(t)) = data
  <2>1. At(t, HeaderLen(t) + 3 + long + k, data)
    BY <1>8, <1>10
  <2>2. PacketLen(t) = (HeaderLen(t) + 3 + long + k) + Len(data) - 1
    BY <1>10 DEF m
  <2> QED
    BY <1>1, <1>6, <2>1, <2>2, Cut
<1> QED
  BY <1>6, <1>7, <1>9, <1>11, <1>12 DEF at, data, long, k

LEMMA PublishWritable ==
  ASSUME NEW p \in PublishPackets, SerializedLength(p) <= MaxRemaining
  PROVE  Writable(p)
<1> DEFINE first == 48 + 2 * p.qos + p.retain
           body == MQTTSerialize_publish(p)
<1>1. /\ p = [type |-> PUBLISH, qos |-> p.qos, retain |-> p.retain, topic |-> p.topic,
              packetid |-> p.packetid, payload |-> p.payload]
      /\ p.type = PUBLISH /\ p.qos \in 0 .. 2 /\ p.retain \in {0, 1}
      /\ (p.qos = 0 => p.packetid = 0)
  BY PublishFields
<1>2. /\ Body(p) = body
      /\ SerializedLength(p) = 2 + Len(p.topic) + Len(p.payload) + IdSize(p)
  BY <1>1 DEF Body, SerializedLength, IdSize, CONNECT,
              CONNACK, PUBLISH, PUBACK, PUBREC, SUBSCRIBE, UNSUBSCRIBE, PINGREQ, DISCONNECT
<1>3. FirstByte(p) = first /\ first \in Octet
  BY <1>1 DEF FirstByte, Octet, CONNECT,
              CONNACK, PUBLISH, PUBACK, PUBREC, SUBSCRIBE, UNSUBSCRIBE, PINGREQ, DISCONNECT
<1>4. Len(body) = SerializedLength(p) /\ body \in Seq(Octet)
  <2>1. /\ Len(body) = 2 + Len(p.topic) + IdSize(p) + Len(p.payload) /\ body \in Seq(Octet)
        /\ Len(p.topic) \in Nat /\ Len(p.payload) \in Nat /\ IdSize(p) \in Nat
    BY PublishBody
  <2>2. \A a, b, c \in Nat : 2 + a + b + c = 2 + a + c + b
    OBVIOUS
  <2> HIDE DEF body
  <2> QED
    BY <1>2, <2>1, <2>2
<1> HIDE DEF body
<1>5. ASSUME NEW t, Headed(t, first, body), Len(t) = PacketLen(t)
      PROVE  BrokerReads(t) = p
  <2> DEFINE at == HeaderLen(t) + 1
             id == at + 2 + readInt(t, at)
  <2>1. /\ t[1] \div 16 = PUBLISH /\ (t[1] % 8) \div 2 = p.qos /\ t[1] % 2 = p.retain
        /\ readMQTTLenString(t, at) = p.topic
        /\ readInt(t, at) = Len(p.topic)
        /\ p.qos > 0 => readInt(t, HeaderLen(t) + 3 + Len(p.topic)) = p.packetid
        /\ SubSeq(t, HeaderLen(t) + 3 + Len(p.topic) + IdSize(p), PacketLen(t)) = p.payload
        /\ HeaderLen(t) \in Nat
    BY <1>5, PublishRead DEF body
  <2>2. /\ id = HeaderLen(t) + 3 + Len(p.topic)
        /\ (IF p.qos > 0 THEN id + 2 ELSE id) = HeaderLen(t) + 3 + Len(p.topic) + IdSize(p)
    <3> DEFINE long == Len(p.topic)
    <3>1. long \in Nat
      BY PublishBody
    <3> HIDE DEF long
    <3>2. id = HeaderLen(t) + 3 + long
      <4>1. readInt(t, at) = long
        BY <2>1 DEF long
      <4> QED
        BY <2>1, <3>1, <4>1
    <3> HIDE DEF id
    <3> QED
      BY <2>1, <3>1, <3>2 DEF IdSize, long
  <2>3. (IF p.qos > 0 THEN readInt(t, id) ELSE 0) = p.packetid
    BY <1>1, <2>1, <2>2
  <2>4. BrokerReads(t) = BrokerReadsPublish(t, at)
    <3>1. t[1] \div 16 = PUBLISH
      BY <2>1
    <3> QED
      BY <3>1 DEF BrokerReads, CONNECT,
              CONNACK, PUBLISH, PUBACK, PUBREC, SUBSCRIBE, UNSUBSCRIBE, PINGREQ, DISCONNECT
  <2>5. BrokerReadsPublish(t, at) =
          [type |-> PUBLISH, qos |-> (t[1] % 8) \div 2, retain |-> t[1] % 2,
           topic |-> readMQTTLenString(t, at),
           packetid |-> IF (t[1] % 8) \div 2 > 0 THEN readInt(t, id) ELSE 0,
           payload |-> SubSeq(t, IF (t[1] % 8) \div 2 > 0 THEN id + 2 ELSE id, Len(t))]
    BY DEF BrokerReadsPublish
  <2> HIDE DEF at, id
  <2> QED
    BY <1>1, <1>5, <2>1, <2>2, <2>3, <2>4, <2>5
<1>6. Framable(FirstByte(p), Body(p))
  BY <1>2, <1>3, <1>4 DEF Framable
<1>7. Serialize(p) = Frame(FirstByte(p), Body(p))
  BY <1>2, <1>4 DEF Serialize, Frame
<1> QED
  BY <1>2, <1>3, <1>4, <1>5, <1>6, <1>7 DEF Writable

(* CONNECT: the name and the flags, the interval, three strings.           *)
LEMMA ConnectWritable ==
  ASSUME NEW p \in ConnectPackets
  PROVE  Writable(p)
<1> DEFINE name == writeMQTTString(<<77, 81, 84, 84>>)
           flags == <<4, 128 + 64 + 2 * p.cleansession>>
           interval == writeInt(p.keepAliveInterval)
           client == writeMQTTString(p.clientID)
           user == writeMQTTString(p.username)
           secret == writeMQTTString(p.password)
           head == name \o flags \o interval
           more == head \o client \o user
           c == Len(p.clientID)
           u == Len(p.username)
           w == Len(p.password)
<1>1. /\ p = [type |-> p.type, clientID |-> p.clientID, username |-> p.username, password |-> p.password,
              cleansession |-> p.cleansession, keepAliveInterval |-> p.keepAliveInterval]
      /\ p.type = CONNECT /\ p.cleansession \in {0, 1} /\ p.keepAliveInterval \in 0 .. MaxUint16
      /\ p.clientID \in MqttString /\ p.username \in MqttString /\ p.password \in MqttString
  BY DEF ConnectPackets
<1>2. /\ Body(p) = more \o secret
      /\ SerializedLength(p) = 10 + c + 2 + u + 2 + w + 2
      /\ FirstByte(p) = 16
  <2>1. p.type = CONNECT
    BY <1>1
  <2>2. Body(p) = MQTTSerialize_connect(p)
    BY <2>1 DEF Body, CONNECT, PUBLISH, PUBACK, PUBREC, SUBSCRIBE, UNSUBSCRIBE, PINGREQ, DISCONNECT
  <2>3. Body(p) = more \o secret
    BY <2>2 DEF MQTTSerialize_connect
  <2>4. SerializedLength(p) = 10 + c + 2 + u + 2 + w + 2
    BY <2>1 DEF SerializedLength, CONNECT, PUBLISH, PUBACK, PUBREC, SUBSCRIBE, UNSUBSCRIBE, PINGREQ,
                DISCONNECT
  <2>5. FirstByte(p) = 16
    BY <2>1 DEF FirstByte, CONNECT, PUBLISH, SUBSCRIBE, UNSUBSCRIBE
  <2> QED
    BY <2>3, <2>4, <2>5
<1>3. <<77, 81, 84, 84>> \in MqttString /\ Len(<<77, 81, 84, 84>>) = 4
  BY DEF MqttString, MaxUint16
<1>4. name \in Seq(Octet) /\ flags \in Seq(Octet) /\ interval \in Seq(Octet)
  <2>1. flags \in Seq(Octet)
    <3>1. 4 \in Octet /\ 128 + 64 + 2 * p.cleansession \in Octet
      BY <1>1 DEF Octet
    <3> QED
      BY <3>1
  <2>2. name \in Seq(Octet)
    BY <1>3, StringBytes
  <2>3. interval \in Seq(Octet)
    BY <1>1, IntBytes
  <2> QED
    BY <2>1, <2>2, <2>3
<1>5. client \in Seq(Octet) /\ user \in Seq(Octet) /\ secret \in Seq(Octet)
  BY <1>1, StringBytes
<1>6. Len(name) = 6 /\ Len(flags) = 2 /\ Len(interval) = 2
  <2>1. Len(name) = 2 + 4
    BY <1>3, StringBytes
  <2>2. Len(interval) = 2
    BY <1>1, IntBytes
  <2> QED
    BY <2>1, <2>2
<1>7. Len(client) = 2 + c /\ Len(user) = 2 + u /\ Len(secret) = 2 + w
  BY <1>1, StringBytes
<1>8. c \in Nat /\ u \in Nat /\ w \in Nat /\ c <= 65535 /\ u <= 65535 /\ w <= 65535
  <2>1. c \in 0 .. MaxUint16 /\ u \in 0 .. MaxUint16 /\ w \in 0 .. MaxUint16
    BY <1>1, StringBytes
  <2> QED
    BY <2>1, Uint16
<1>9. flags[2] = 192 + 2 * p.cleansession
  BY <1>1
<1> HIDE DEF name, flags, interval, client, user, secret, c, u, w
<1>10. head \in Seq(Octet) /\ Len(head) = Len(name) + Len(flags) + Len(interval)
  BY <1>4, AtThree
<1>11. ASSUME NEW t, NEW at, Len(t) \in Nat, At(t, at, head)
       PROVE  At(t, at + Len(name), flags) /\ At(t, at + (Len(name) + Len(flags)), interval)
  BY <1>4, <1>11, AtThree
<1> HIDE DEF head
<1>12. more \in Seq(Octet) /\ Len(more) = Len(head) + Len(client) + Len(user)
  BY <1>5, <1>10, AtThree
<1>13. ASSUME NEW t, NEW at, Len(t) \in Nat, At(t, at, more)
       PROVE  /\ At(t, at, head) /\ At(t, at + Len(head), client)
              /\ At(t, at + (Len(head) + Len(client)), user)
  BY <1>5, <1>10, <1>13, AtThree
<1> HIDE DEF more
<1>14. more \o secret \in Seq(Octet) /\ Len(more \o secret) = Len(more) + Len(secret)
  BY <1>5, <1>12, Joined
<1>15. ASSUME NEW t, NEW at, Len(t) \in Nat, At(t, at, more \o secret)
       PROVE  At(t, at, more) /\ At(t, at + Len(more), secret)
  BY <1>5, <1>12, <1>15, AtParts
<1>16. Len(head) = 10 /\ Len(more) = 10 + (2 + c) + (2 + u)
  <2>1. Len(head) = 10
    BY <1>6, <1>10
  <2> QED
    BY <1>7, <1>12, <2>1
<1>17. Body(p) \in Seq(Octet) /\ Len(Body(p)) = SerializedLength(p) /\ Len(Body(p)) <= MaxRemaining
  <2>1. Len(Body(p)) = 10 + (2 + c) + (2 + u) + (2 + w)
    BY <1>2, <1>7, <1>14, <1>16
  <2>2. SerializedLength(p) = 10 + c + 2 + u + 2 + w + 2
    BY <1>2
  <2>3. \A i, j, k \in Nat : 10 + (2 + i) + (2 + j) + (2 + k) = 10 + i + 2 + j + 2 + k + 2
    OBVIOUS
  <2>4. 10 + c + 2 + u + 2 + w + 2 <= 268435455
    BY <1>8
  <2> QED
    BY <1>2, <1>8, <1>14, <2>1, <2>2, <2>3, <2>4 DEF MaxRemaining
<1>18. FirstByte(p) \in Octet /\ FirstByte(p) \div 16 = CONNECT
  BY <1>2 DEF CONNECT, Octet
<1>19. ASSUME NEW t, Headed(t, FirstByte(p), Body(p)), Len(t) = PacketLen(t)
       PROVE  BrokerReads(t) = p
  <2> DEFINE at == HeaderLen(t) + 1
             userAt == at + 10 + 2 + readInt(t, at + 10)
  <2>1. t[1] \div 16 = CONNECT
    BY <1>18, <1>19 DEF Headed
  <2>2. t \in Seq(Octet) /\ Len(t) \in Nat /\ At(t, at, more \o secret)
    BY <1>2, <1>19 DEF Headed
  <2>3. at \in Nat
    BY <1>19 DEF Headed
  <2> HIDE DEF at
  <2>4. At(t, at, more) /\ At(t, at + Len(more), secret)
    BY <1>15, <2>2
  <2>5. At(t, at, head) /\ At(t, at + Len(head), client) /\ At(t, at + (Len(head) + Len(client)), user)
    BY <1>13, <2>2, <2>4
  <2>6. At(t, at + Len(name), flags) /\ At(t, at + (Len(name) + Len(flags)), interval)
    BY <1>11, <2>2, <2>5
  <2>7. readInt(t, at + 8) = p.keepAliveInterval
    <3>1. At(t, at + 8, interval)
      BY <1>6, <2>6
    <3> QED
      BY <1>1, <3>1, IntRead DEF interval
  <2>8. t[at + 7] = 192 + 2 * p.cleansession
    <3>1. At(t, at + 6, flags)
      BY <1>6, <2>6
    <3>2. t[(at + 6) + 2 - 1] = flags[2]
      BY <1>6, <3>1 DEF At
    <3>3. (at + 6) + 2 - 1 = at + 7
      BY <2>3
    <3> QED
      BY <1>9, <3>2, <3>3
  <2>9. (t[at + 7] % 4) \div 2 = p.cleansession
    BY <1>1, <2>8
  <2>10. readMQTTLenString(t, at + 10) = p.clientID /\ readInt(t, at + 10) = c
    <3>1. At(t, at + 10, client)
      BY <1>16, <2>5
    <3> QED
      BY <1>1, <2>2, <3>1, StringRead DEF client, c
  <2>11. readMQTTLenString(t, userAt) = p.username /\ readInt(t, userAt) = u
    <3>1. userAt = at + (Len(head) + Len(client))
      <4>1. userAt = at + 10 + 2 + c
        BY <2>10
      <4>2. Len(head) + Len(client) = 10 + (2 + c)
        BY <1>7, <1>16
      <4>3. \A i, j \in Nat : i + 10 + 2 + j = i + (10 + (2 + j))
        OBVIOUS
      <4> HIDE DEF userAt
      <4> QED
        BY <1>8, <2>3, <4>1, <4>2, <4>3
    <3>2. At(t, userAt, user)
      BY <2>5, <3>1
    <3> HIDE DEF userAt
    <3> QED
      BY <1>1, <2>2, <3>2, StringRead DEF user, u
  <2>12. readMQTTLenString(t, userAt + 2 + readInt(t, userAt)) = p.password
    <3>1. userAt + 2 + readInt(t, userAt) = at + Len(more)
      <4>1. userAt = at + 10 + 2 + c
        BY <2>10
      <4> HIDE DEF userAt
      <4>2. userAt + 2 + readInt(t, userAt) = at + 10 + 2 + c + 2 + u
        BY <2>11, <4>1
      <4>3. \A i, j, k \in Nat : i + 10 + 2 + j + 2 + k = i + (10 + (2 + j) + (2 + k))
        OBVIOUS
      <4> QED
        BY <1>8, <1>16, <2>3, <4>2, <4>3
    <3>2. At(t, userAt + 2 + readInt(t, userAt), secret)
      BY <2>4, <3>1
    <3> HIDE DEF userAt
    <3> QED
      BY <1>1, <2>2, <3>2, StringRead DEF secret
  <2>13. BrokerReads(t) =
           [type |-> CONNECT, cleansession |-> (t[at + 7] % 4) \div 2,
            keepAliveInterval |-> readInt(t, at + 8),
            clientID |-> readMQTTLenString(t, at + 10),
            username |-> readMQTTLenString(t, userAt),
            password |-> readMQTTLenString(t, userAt + 2 + readInt(t, userAt))]
    BY <2>1 DEF BrokerReads, at, CONNECT,
              CONNACK, PUBLISH, PUBACK, PUBREC, SUBSCRIBE, UNSUBSCRIBE, PINGREQ, DISCONNECT
  <2> HIDE DEF userAt
  <2> QED
    BY <1>1, <2>7, <2>9, <2>10, <2>11, <2>12, <2>13
<1>20. Framable(FirstByte(p), Body(p))
  BY <1>17, <1>18 DEF Framable
<1>21. Serialize(p) = Frame(FirstByte(p), Body(p))
  BY <1>17 DEF Serialize, Frame
<1> QED
  BY <1>17, <1>19, <1>20, <1>21 DEF Writable

-----------------------------------------------------------------------------
(* What the broker writes, type by type: the client reads the packet it was.*)
ReadsBack(p) ==
  \E first, body :
    /\ BrokerBytes(p) = Frame(first, body) /\ Framable(first, body)
    /\ \A t : Headed(t, first, body) /\ Len(t) = PacketLen(t) => Deserialize(t) = p

LEMMA ShortFrame ==
  ASSUME NEW first \in Octet, NEW body \in Seq(Octet), Len(body) < 128
  PROVE  Frame(first, body) = <<first, Len(body)>> \o body /\ Framable(first, body)
<1> DEFINE n == Len(body)
           e == MQTTPacket_encode(n)
<1>1. n \in Nat /\ n < 128 /\ n <= MaxRemaining
  BY DEF MaxRemaining
<1> HIDE DEF n
<1>2. /\ e \in Seq(Octet) /\ Len(e) \in 1 .. 4
      /\ \A k \in 1 .. Len(e) : e[k] = ((n \div Weight[k]) % 128) + (IF k < Len(e) THEN 128 ELSE 0)
      /\ Len(e) > 1 => n >= Weight[Len(e)]
  BY <1>1, LengthBytesWritten
<1> HIDE DEF e
<1>3. Weight[1] = 1 /\ Weight[2] = 128 /\ Weight[3] = 16384 /\ Weight[4] = 2097152
  BY DEF Weight
<1>4. Len(e) = 1
  <2>1. Len(e) = 2 => FALSE
    BY <1>1, <1>2, <1>3, SMT
  <2>2. Len(e) = 3 => FALSE
    BY <1>1, <1>2, <1>3, SMT
  <2>3. Len(e) = 4 => FALSE
    BY <1>1, <1>2, <1>3, SMT
  <2> QED
    BY <1>2, <2>1, <2>2, <2>3, SMT
<1>5. e[1] = n
  <2>1. e[1] = ((n \div Weight[1]) % 128) + (IF 1 < Len(e) THEN 128 ELSE 0)
    BY <1>2
  <2>2. e[1] = ((n \div 1) % 128) + 0
    BY <1>3, <1>4, <2>1
  <2> QED
    BY <1>1, <2>2
<1>6. e = <<n>>
  BY <1>2, <1>4, <1>5
<1>7. <<first>> \o <<n>> = <<first, n>>
  <2> DEFINE a == <<first>>
             b == <<n>>
             c == <<first, n>>
  <2>1. n \in Octet
    BY <1>1 DEF Octet
  <2>2. a \in Seq(Octet) /\ b \in Seq(Octet) /\ c \in Seq(Octet)
    BY <2>1
  <2>3. Len(a) = 1 /\ Len(b) = 1 /\ Len(c) = 2 /\ a[1] = first /\ b[1] = n /\ c[1] = first /\ c[2] = n
    OBVIOUS
  <2> HIDE DEF a, b, c
  <2>4. /\ a \o b \in Seq(Octet) /\ Len(a \o b) = 2 /\ (a \o b)[1] = first /\ (a \o b)[2] = n
    <3>1. /\ a \o b \in Seq(Octet) /\ Len(a \o b) = Len(a) + Len(b)
          /\ \A i \in 1 .. Len(a) : (a \o b)[i] = a[i]
          /\ \A i \in 1 .. Len(b) : (a \o b)[Len(a) + i] = b[i]
      BY <2>2, Joined
    <3> QED
      BY <2>3, <3>1
  <2>5. a \o b = c
    BY <2>2, <2>3, <2>4, SeqEqual
  <2> QED
    BY <2>5 DEF a, b, c
<1> QED
  BY <1>1, <1>6, <1>7 DEF Frame, Framable, e, n

LEMMA Regrouped ==
  ASSUME NEW s \in Seq(Octet), NEW t \in Seq(Octet), NEW u \in Seq(Octet)
  PROVE  (s \o t) \o u = s \o (t \o u)
  BY ConcatAssociative, SMTT(20)

LEMMA ConnackReadable ==
  ASSUME NEW p \in ConnackPackets
  PROVE  ReadsBack(p)
<1> DEFINE body == <<0, p.code>>
<1>1. p = [type |-> CONNACK, code |-> p.code] /\ p.code \in Octet /\ p.type = CONNACK
  BY DEF ConnackPackets, Octet
<1>2. body \in Seq(Octet) /\ Len(body) = 2 /\ body[2] = p.code
  BY <1>1 DEF Octet
<1>3. BrokerBytes(p) = <<32, 2, 0, p.code>>
  BY <1>1 DEF BrokerBytes, CONNACK, PUBLISH, PUBACK, SUBACK, UNSUBACK, PINGRESP
<1>4. <<32, 2, 0, p.code>> = <<32, 2>> \o body
  OBVIOUS
<1> HIDE DEF body
<1>5. BrokerBytes(p) = Frame(32, body) /\ Framable(32, body)
  <2>1. 32 \in Octet
    BY DEF Octet
  <2>2. Len(body) < 128
    BY <1>2
  <2>3. Frame(32, body) = <<32, Len(body)>> \o body /\ Framable(32, body)
    BY <1>2, <2>1, <2>2, ShortFrame
  <2> QED
    BY <1>2, <1>3, <1>4, <2>3
<1>6. ASSUME NEW t, Headed(t, 32, body), Len(t) = PacketLen(t)
      PROVE  Deserialize(t) = p
  <2>1. t[1] \div 16 = CONNACK
    BY <1>6 DEF Headed, CONNACK
  <2>2. t[HeaderLen(t) + 2] = p.code
    <3>1. HeaderLen(t) \in Nat /\ t[(HeaderLen(t) + 1) + 2 - 1] = body[2]
      BY <1>2, <1>6 DEF Headed, At
    <3>2. (HeaderLen(t) + 1) + 2 - 1 = HeaderLen(t) + 2
      BY <3>1
    <3> QED
      BY <1>2, <3>1, <3>2
  <2>3. Deserialize(t) = MQTTDeserialize_connack(t)
    BY <2>1 DEF Deserialize, CONNACK, PUBLISH, PUBACK, SUBACK, UNSUBACK, PINGRESP
  <2> QED
    BY <1>1, <2>2, <2>3 DEF MQTTDeserialize_connack
<1> QED
  BY <1>5, <1>6 DEF ReadsBack

LEMMA SubackReadable ==
  ASSUME NEW p \in SubackPackets
  PROVE  ReadsBack(p)
<1> DEFINE id == writeInt(p.packetid)
           end == <<p.code>>
           body == id \o end
<1>1. /\ p = [type |-> SUBACK, packetid |-> p.packetid, code |-> p.code] /\ p.type = SUBACK
      /\ p.packetid \in 0 .. MaxUint16 /\ p.code \in Octet
  BY DEF SubackPackets, Octet
<1>2. id \in Seq(Octet) /\ end \in Seq(Octet)
  BY <1>1, IntBytes
<1>3. Len(id) = 2 /\ Len(end) = 1 /\ end[1] = p.code
  BY <1>1, IntBytes
<1>4. BrokerBytes(p) = (<<144, 3>> \o id) \o end
  BY <1>1 DEF BrokerBytes, CONNACK, PUBLISH, PUBACK, SUBACK, UNSUBACK, PINGRESP
<1> HIDE DEF id, end
<1>5. body \in Seq(Octet) /\ Len(body) = Len(id) + Len(end)
  BY <1>2, Joined
<1>6. Len(body) = 3
  BY <1>3, <1>5
<1>7. <<144, 3>> \in Seq(Octet) /\ 144 \in Octet
  BY DEF Octet
<1>8. (<<144, 3>> \o id) \o end = <<144, 3>> \o body
  BY <1>2, <1>7, Regrouped
<1>9. ASSUME NEW t, NEW at, Len(t) \in Nat, At(t, at, body)
      PROVE  At(t, at, id) /\ At(t, at + Len(id), end)
  BY <1>2, <1>9, AtParts
<1> HIDE DEF body
<1>10. BrokerBytes(p) = Frame(144, body) /\ Framable(144, body)
  <2>1. Len(body) < 128
    BY <1>6
  <2>2. Frame(144, body) = <<144, Len(body)>> \o body /\ Framable(144, body)
    BY <1>5, <1>7, <2>1, ShortFrame
  <2> QED
    BY <1>4, <1>6, <1>8, <2>2
<1>11. ASSUME NEW t, Headed(t, 144, body), Len(t) = PacketLen(t)
       PROVE  Deserialize(t) = p
  <2>1. t[1] \div 16 = SUBACK
    BY <1>11 DEF Headed, SUBACK
  <2>2. HeaderLen(t) \in Nat /\ PacketLen(t) = HeaderLen(t) + 3
    BY <1>6, <1>11 DEF Headed
  <2>3. At(t, HeaderLen(t) + 1, id) /\ At(t, (HeaderLen(t) + 1) + 2, end)
    BY <1>3, <1>9, <1>11 DEF Headed
  <2>4. readInt(t, HeaderLen(t) + 1) = p.packetid
    BY <1>1, <2>3, IntRead DEF id
  <2>5. t[PacketLen(t)] = p.code
    <3>1. t[(HeaderLen(t) + 1) + 2 + 1 - 1] = end[1]
      BY <1>3, <2>3 DEF At
    <3>2. (HeaderLen(t) + 1) + 2 + 1 - 1 = PacketLen(t)
      BY <2>2
    <3> QED
      BY <1>3, <3>1, <3>2
  <2>6. Deserialize(t) = MQTTDeserialize_suback(t)
    BY <2>1 DEF Deserialize, CONNACK, PUBLISH, PUBACK, SUBACK, UNSUBACK, PINGRESP
  <2> QED
    BY <1>1, <2>4, <2>5, <2>6 DEF MQTTDeserialize_suback
<1> QED
  BY <1>10, <1>11 DEF ReadsBack

LEMMA AckReadable ==
  ASSUME NEW p \in AckPackets({PUBACK, UNSUBACK})
  PROVE  ReadsBack(p)
<1> DEFINE body == writeInt(p.packetid)
           first == 16 * p.type
<1>1. /\ p = [type |-> p.type, packetid |-> p.packetid] /\ p.type \in {PUBACK, UNSUBACK}
      /\ p.packetid \in 0 .. MaxUint16
  BY DEF AckPackets
<1>2. body \in Seq(Octet) /\ Len(body) = 2
  BY <1>1, IntBytes
<1>3. BrokerBytes(p) = <<first, 2>> \o body
  <2>1. CASE p.type = PUBACK
    BY <2>1 DEF BrokerBytes, CONNACK, PUBLISH, PUBACK, SUBACK, UNSUBACK, PINGRESP
  <2>2. CASE p.type = UNSUBACK
    BY <2>2 DEF BrokerBytes, CONNACK, PUBLISH, PUBACK, SUBACK, UNSUBACK, PINGRESP
  <2> QED
    BY <1>1, <2>1, <2>2
<1>4. first \in Octet /\ first \div 16 = p.type
  BY <1>1 DEF PUBACK, UNSUBACK, Octet
<1> HIDE DEF body, first
<1>5. BrokerBytes(p) = Frame(first, body) /\ Framable(first, body)
  <2>1. Len(body) < 128
    BY <1>2
  <2>2. Frame(first, body) = <<first, Len(body)>> \o body /\ Framable(first, body)
    BY <1>2, <1>4, <2>1, ShortFrame
  <2> QED
    BY <1>2, <1>3, <2>2
<1>6. ASSUME NEW t, Headed(t, first, body), Len(t) = PacketLen(t)
      PROVE  Deserialize(t) = p
  <2>1. t[1] \div 16 = p.type
    BY <1>4, <1>6 DEF Headed
  <2>2. readInt(t, HeaderLen(t) + 1) = p.packetid
    BY <1>1, <1>6, IntRead DEF Headed, body
  <2>3. Deserialize(t) = MQTTDeserialize_ack(t)
    BY <1>1, <2>1 DEF Deserialize, CONNACK, PUBLISH, PUBACK, SUBACK, UNSUBACK, PINGRESP
  <2> QED
    BY <1>1, <2>1, <2>2, <2>3 DEF MQTTDeserialize_ack
<1> QED
  BY <1>5, <1>6 DEF ReadsBack

LEMMA PingrespReadable ==
  ASSUME NEW p \in BarePackets({PINGRESP})
  PROVE  ReadsBack(p)
<1>1. p = [type |-> PINGRESP] /\ p.type = PINGRESP
  BY DEF BarePackets
<1>2. BrokerBytes(p) = <<208, 0>>
  BY <1>1 DEF BrokerBytes, CONNACK, PUBLISH, PUBACK, SUBACK, UNSUBACK, PINGRESP
<1>3. <<>> \in Seq(Octet) /\ Len(<<>>) = 0 /\ 208 \in Octet /\ <<208, 0>> = <<208, 0>> \o <<>>
  BY DEF Octet
<1>4. BrokerBytes(p) = Frame(208, <<>>) /\ Framable(208, <<>>)
  <2>1. Frame(208, <<>>) = <<208, Len(<<>>)>> \o <<>> /\ Framable(208, <<>>)
    <3>1. Len(<<>>) < 128
      OBVIOUS
    <3> QED
      BY <1>3, <3>1, ShortFrame
  <2> QED
    BY <1>2, <1>3, <2>1
<1>5. ASSUME NEW t, Headed(t, 208, <<>>), Len(t) = PacketLen(t)
      PROVE  Deserialize(t) = p
  <2>1. t[1] \div 16 = PINGRESP
    BY <1>5 DEF Headed, PINGRESP
  <2>2. Deserialize(t) = [type |-> t[1] \div 16]
    BY <2>1 DEF Deserialize, CONNACK, PUBLISH, PUBACK, SUBACK, UNSUBACK, PINGRESP
  <2> QED
    BY <1>1, <2>1, <2>2
<1> QED
  BY <1>4, <1>5 DEF ReadsBack

LEMMA PublishReadable ==
  ASSUME NEW p \in PublishPackets, Len(p.topic) + Len(p.payload) + 4 <= MaxRemaining
  PROVE  ReadsBack(p)
<1> DEFINE first == 48 + 2 * p.qos + p.retain
           body == MQTTSerialize_publish(p)
<1>1. /\ p = [type |-> PUBLISH, qos |-> p.qos, retain |-> p.retain, topic |-> p.topic,
              packetid |-> p.packetid, payload |-> p.payload]
      /\ p.type = PUBLISH /\ p.qos \in 0 .. 2 /\ p.retain \in {0, 1} /\ p.topic \in MqttString
      /\ (p.qos = 0 => p.packetid = 0)
  BY PublishFields
<1>2. BrokerBytes(p) = Frame(first, body)
  <2>1. p.type = PUBLISH
    BY <1>1
  <2>2. BrokerBytes(p) = BrokerPublish(p)
    BY <2>1 DEF BrokerBytes, CONNACK, PUBLISH, PUBACK, SUBACK, UNSUBACK, PINGRESP
  <2>3. BrokerPublish(p) = <<first>> \o MQTTPacket_encode(Len(body)) \o body
    BY DEF BrokerPublish, MQTTSerialize_publish
  <2> QED
    BY <2>2, <2>3 DEF Frame
<1>3. first \in Octet
  <2>1. p.qos \in 0 .. 2 /\ p.retain \in {0, 1}
    BY <1>1
  <2>2. \A q \in 0 .. 2, r \in {0, 1} : 48 + 2 * q + r \in 0 .. 255
    OBVIOUS
  <2> QED
    BY <2>1, <2>2 DEF Octet
<1>4. body \in Seq(Octet) /\ Len(body) <= MaxRemaining
  <2> DEFINE i == Len(p.topic)
             j == Len(p.payload)
             k == IdSize(p)
             m == MaxRemaining
  <2>1. Len(body) = 2 + i + k + j /\ body \in Seq(Octet) /\ i \in Nat /\ j \in Nat /\ k \in {0, 2}
    BY PublishBody
  <2>2. m \in Nat
    BY DEF MaxRemaining
  <2>3. i + j + 4 <= m
    OBVIOUS
  <2> HIDE DEF i, j, k, m, body
  <2>4. 2 + i + k + j <= m
    BY <2>1, <2>2, <2>3
  <2> QED
    BY <2>1, <2>4 DEF m
<1> HIDE DEF body
<1>5. ASSUME NEW t, Headed(t, first, body), Len(t) = PacketLen(t)
      PROVE  Deserialize(t) = p
  <2>1. /\ t[1] \div 16 = PUBLISH /\ (t[1] % 8) \div 2 = p.qos /\ t[1] % 2 = p.retain
        /\ readMQTTLenString(t, HeaderLen(t) + 1) = p.topic
        /\ p.qos > 0 => readInt(t, HeaderLen(t) + 3 + Len(p.topic)) = p.packetid
        /\ SubSeq(t, HeaderLen(t) + 3 + Len(p.topic) + IdSize(p), PacketLen(t)) = p.payload
        /\ HeaderLen(t) \in Nat
    BY <1>5, PublishRead DEF body
  <2> DEFINE at == HeaderLen(t) + 3 + Len(p.topic)
  <2>2. at \in Nat
    <3> DEFINE long == Len(p.topic)
    <3>1. long \in Nat
      BY PublishBody
    <3> HIDE DEF long
    <3>2. HeaderLen(t) + 3 + long \in Nat
      BY <2>1, <3>1
    <3> QED
      BY <3>2 DEF long
  <2>3. p.qos > 0 => readInt(t, at) = p.packetid
    BY <2>1
  <2>4. SubSeq(t, at + IdSize(p), PacketLen(t)) = p.payload
    BY <2>1
  <2>5. MQTTDeserialize_publish(t) =
          [type |-> PUBLISH, qos |-> (t[1] % 8) \div 2, retain |-> t[1] % 2,
           topic |-> readMQTTLenString(t, HeaderLen(t) + 1),
           packetid |-> IF (t[1] % 8) \div 2 > 0
                          THEN readInt(t, HeaderLen(t) + 3 + Len(readMQTTLenString(t, HeaderLen(t) + 1)))
                          ELSE 0,
           payload |-> SubSeq(t, IF (t[1] % 8) \div 2 > 0
                                   THEN (HeaderLen(t) + 3 + Len(readMQTTLenString(t, HeaderLen(t) + 1))) + 2
                                   ELSE HeaderLen(t) + 3 + Len(readMQTTLenString(t, HeaderLen(t) + 1)),
                              PacketLen(t))]
    BY DEF MQTTDeserialize_publish
  <2>6. MQTTDeserialize_publish(t) =
          [type |-> PUBLISH, qos |-> p.qos, retain |-> p.retain, topic |-> p.topic,
           packetid |-> IF p.qos > 0 THEN readInt(t, at) ELSE 0,
           payload |-> SubSeq(t, IF p.qos > 0 THEN at + 2 ELSE at, PacketLen(t))]
    BY <2>1, <2>5, Zenon
  <2>7. Deserialize(t) = MQTTDeserialize_publish(t)
    <3>1. t[1] \div 16 = PUBLISH
      BY <2>1
    <3> QED
      BY <3>1 DEF Deserialize, CONNACK, PUBLISH, PUBACK, SUBACK, UNSUBACK, PINGRESP
  <2> HIDE DEF at
  <2>8. (IF p.qos > 0 THEN at + 2 ELSE at) = at + IdSize(p)
    BY <2>2 DEF IdSize
  <2>9. (IF p.qos > 0 THEN readInt(t, at) ELSE 0) = p.packetid
    BY <1>1, <2>3
  <2> QED
    BY <1>1, <2>4, <2>6, <2>7, <2>8, <2>9
<1>6. Framable(first, body)
  BY <1>3, <1>4 DEF Framable
<1> HIDE DEF first
<1>7. BrokerBytes(p) = Frame(first, body) /\ Framable(first, body)
  BY <1>2, <1>6 DEF first, body
<1> QED
  BY <1>5, <1>7 DEF ReadsBack

-----------------------------------------------------------------------------
(* What the client puts on the connection, and the broker reads off it.    *)

(* MQTTPacket_len reserves enough for the digits of the length.            *)
LEMMA LengthReserved ==
  ASSUME NEW n \in Nat, n <= MaxRemaining
  PROVE  1 + Len(MQTTPacket_encode(n)) + n <= MQTTPacket_len(n)
<1> DEFINE k == Len(MQTTPacket_encode(n))
<1>1. k \in 1 .. 4 /\ (k > 1 => n >= Weight[k])
  BY LengthBytesWritten
<1> HIDE DEF k
<1>2. Weight[1] = 1 /\ Weight[2] = 128 /\ Weight[3] = 16384 /\ Weight[4] = 2097152
  BY DEF Weight
<1>3. (k = 2 => n >= 128) /\ (k = 3 => n >= 16384) /\ (k = 4 => n >= 2097152)
  BY <1>1, <1>2, SMT
<1>4. 1 + k + n <= MQTTPacket_len(n)
  BY <1>1, <1>3, SMT DEF MQTTPacket_len
<1> QED
  BY <1>4 DEF k

LEMMA RequestWritable ==
  ASSUME NEW p \in Requests \cup {ConnectPacket}, ~TooShort(p)
  PROVE  Writable(p) /\ Len(Serialize(p)) <= SendBufLen
<1>1. /\ SendBufLen \in Nat /\ SendBufLen <= MaxRemaining /\ ConnectPacket \in ConnectPackets
      /\ Requests \subseteq PublishPackets \cup SubscribePackets \cup UnsubscribePackets
                             \cup BarePackets({PINGREQ})
  BY WireAssumption
<1>2. Writable(p)
  <2>1. CASE p \in PublishPackets
    <3> DEFINE n == SerializedLength(p)
    <3>1. n \in Nat
      <4> DEFINE i == Len(p.topic)
                 j == Len(p.payload)
      <4>1. i \in Nat /\ j \in Nat /\ p.type = PUBLISH
        BY <2>1, PublishBody, PublishFields
      <4>2. n = 2 + i + j + (IF p.qos > 0 THEN 2 ELSE 0)
        BY <4>1 DEF SerializedLength, CONNECT, PUBLISH, SUBSCRIBE, UNSUBSCRIBE, PUBACK, PUBREC,
                    PINGREQ, DISCONNECT
      <4> HIDE DEF i, j, n
      <4> QED
        BY <4>1, <4>2
    <3>2. MQTTPacket_len(n) <= SendBufLen /\ MQTTPacket_len(n) \in Nat /\ n <= MQTTPacket_len(n)
      <4> HIDE DEF n
      <4>1. MQTTPacket_len(n) \in Nat /\ n <= MQTTPacket_len(n)
        BY <3>1 DEF MQTTPacket_len
      <4>2. ~(MQTTPacket_len(n) > SendBufLen)
        BY DEF TooShort, n
      <4> QED
        BY <1>1, <4>1, <4>2
    <3>3. n <= MaxRemaining
      <4> DEFINE m == MaxRemaining
                 l == MQTTPacket_len(n)
      <4>1. m \in Nat /\ SendBufLen <= m /\ l <= SendBufLen /\ l \in Nat /\ n <= l
        BY <1>1, <3>2 DEF MaxRemaining
      <4> HIDE DEF m, n, l
      <4>2. n <= m
        BY <1>1, <3>1, <4>1
      <4> QED
        BY <4>2 DEF m, n
    <3> QED
      BY <2>1, <3>3, PublishWritable
  <2>2. CASE p \in SubscribePackets
    BY <2>2, SubscribeWritable
  <2>3. CASE p \in UnsubscribePackets
    BY <2>3, UnsubscribeWritable
  <2>4. CASE p \in BarePackets({PINGREQ})
    <3>1. p \in BarePackets({PINGREQ, DISCONNECT})
      BY <2>4 DEF BarePackets
    <3> QED
      BY <3>1, BareWritable
  <2>5. CASE p \in ConnectPackets
    BY <2>5, ConnectWritable
  <2> QED
    BY <1>1, <2>1, <2>2, <2>3, <2>4, <2>5
<1> DEFINE body == Body(p)
           n == Len(body)
<1>3. /\ Serialize(p) = Frame(FirstByte(p), body) /\ Framable(FirstByte(p), body)
      /\ n = SerializedLength(p)
  BY <1>2 DEF Writable
<1>4. n \in Nat /\ n <= MaxRemaining
  BY <1>3 DEF Framable
<1>5. Len(Serialize(p)) = 1 + Len(MQTTPacket_encode(n)) + n /\ Len(MQTTPacket_encode(n)) \in 1 .. 4
  BY <1>3, FrameBytes
<1>6. ~(MQTTPacket_len(n) > SendBufLen)
  BY <1>3 DEF TooShort
<1> HIDE DEF n
<1>7. MQTTPacket_len(n) \in Nat
  BY <1>4 DEF MQTTPacket_len
<1>8. 1 + Len(MQTTPacket_encode(n)) + n <= MQTTPacket_len(n)
  BY <1>4, LengthReserved
<1> DEFINE k == Len(MQTTPacket_encode(n))
           l == MQTTPacket_len(n)
<1>9. k \in Nat /\ l \in Nat /\ 1 + k + n <= l /\ ~(l > SendBufLen)
  BY <1>5, <1>6, <1>7, <1>8
<1>10. Len(Serialize(p)) = 1 + k + n
  BY <1>5
<1> HIDE DEF k, l
<1>11. 1 + k + n <= SendBufLen
  BY <1>1, <1>4, <1>9
<1> QED
  BY <1>2, <1>10, <1>11

(* A packet at the front of what is left is read whole.                    *)
LEMMA WritableRead ==
  ASSUME NEW p, Writable(p)
  PROVE  /\ Serialize(p) \in Seq(Octet) /\ Len(Serialize(p)) \in Nat \ {0}
         /\ BrokerReads(Serialize(p)) = p
         /\ \A t \in Seq(Octet) : At(t, 1, Serialize(p)) => PacketLen(t) = Len(Serialize(p))
<1> DEFINE b == Serialize(p)
<1>1. b = Frame(FirstByte(p), Body(p)) /\ Framable(FirstByte(p), Body(p))
  BY DEF Writable
<1>2. \A t : Headed(t, FirstByte(p), Body(p)) /\ Len(t) = PacketLen(t) => BrokerReads(t) = p
  BY DEF Writable
<1>3. b \in Seq(Octet) /\ Len(b) = 1 + Len(MQTTPacket_encode(Len(Body(p)))) + Len(Body(p))
      /\ Len(Body(p)) \in Nat /\ Len(MQTTPacket_encode(Len(Body(p)))) \in 1 .. 4
  BY <1>1, FrameBytes
<1> HIDE DEF b
<1>4. Len(b) \in Nat \ {0}
  <2>1. \A i \in 1 .. 4, j \in Nat : 1 + i + j \in Nat \ {0}
    OBVIOUS
  <2> QED
    BY <1>3, <2>1
<1>5. ASSUME NEW t \in Seq(Octet), At(t, 1, b)
      PROVE  Headed(t, FirstByte(p), Body(p)) /\ PacketLen(t) = Len(b)
  BY <1>1, <1>5, FrameRead
<1>6. At(b, 1, b)
  BY <1>3 DEF At
<1>7. BrokerReads(b) = p
  BY <1>2, <1>3, <1>5, <1>6
<1> QED
  BY <1>3, <1>4, <1>5, <1>7 DEF b

(* The packets of s follow one another from the first byte of b on, and    *)
(* end where b ends if it holds whole packets only.                        *)
Laid(at, b, s) ==
  /\ at[0] = 1 /\ at[Len(s)] \in Nat
  /\ \A i \in 1 .. Len(s) :
       /\ Writable(s[i]) /\ At(b, at[i - 1], Serialize(s[i]))
       /\ at[i] = at[i - 1] + Len(Serialize(s[i]))

Carried(b, s, whole) ==
  \E at : Laid(at, b, s) /\ (whole => at[Len(s)] = Len(b) + 1)

LEMMA CarriedNone ==
  ASSUME NEW b \in Seq(Octet)
  PROVE  Carried(b, <<>>, FALSE) /\ Carried(<<>>, <<>>, TRUE)
<1> DEFINE at == [i \in 0 .. 0 |-> 1]
<1>1. at[0] = 1 /\ Len(<<>>) = 0
  OBVIOUS
<1> HIDE DEF at
<1>2. Laid(at, b, <<>>) /\ Laid(at, <<>>, <<>>) /\ at[Len(<<>>)] = Len(<<>>) + 1
  BY <1>1 DEF Laid
<1> QED
  BY <1>2 DEF Carried

(* More bytes behind them change nothing.                                  *)
LEMMA CarriedOn ==
  ASSUME NEW b \in Seq(Octet), NEW x \in Seq(Octet), NEW s, NEW whole, Carried(b, s, whole)
  PROVE  Carried(b \o x, s, FALSE)
<1>1. PICK at : Laid(at, b, s)
  BY DEF Carried
<1>2. ASSUME NEW i \in 1 .. Len(s)
      PROVE  At(b \o x, at[i - 1], Serialize(s[i]))
  <2>1. Writable(s[i]) /\ At(b, at[i - 1], Serialize(s[i]))
    BY <1>1 DEF Laid
  <2> QED
    BY <2>1, WritableRead, AtFront
<1>3. Laid(at, b \o x, s)
  BY <1>1, <1>2 DEF Laid
<1> QED
  BY <1>3 DEF Carried

LEMMA CarriedMore ==
  ASSUME NEW b \in Seq(Octet), NEW S, NEW s \in Seq(S), NEW p \in S, Writable(p), Carried(b, s, TRUE)
  PROVE  Carried(b \o Serialize(p), Append(s, p), TRUE)
<1> DEFINE e == Serialize(p)
           c == b \o e
           q == Append(s, p)
           n == Len(s)
<1>1. PICK at : Laid(at, b, s) /\ at[n] = Len(b) + 1
  BY DEF Carried
<1>2. e \in Seq(Octet) /\ Len(e) \in Nat \ {0} /\ Len(b) \in Nat
  BY WritableRead
<1>3. n \in Nat /\ Len(q) = n + 1 /\ q[n + 1] = p /\ \A i \in 1 .. n : q[i] = s[i]
  BY AppendProperties
<1> HIDE DEF e, q
<1>4. At(c, Len(b) + 1, e)
  BY <1>2, AtEnd
<1>5. Len(c) = Len(b) + Len(e)
  BY <1>2, Joined
<1>6. ASSUME NEW i \in 1 .. n
      PROVE  /\ Writable(s[i]) /\ At(c, at[i - 1], Serialize(s[i]))
             /\ at[i] = at[i - 1] + Len(Serialize(s[i]))
  <2>1. /\ Writable(s[i]) /\ At(b, at[i - 1], Serialize(s[i]))
        /\ at[i] = at[i - 1] + Len(Serialize(s[i]))
    BY <1>1 DEF Laid
  <2> QED
    BY <1>2, <2>1, WritableRead, AtFront
<1> HIDE DEF c, n
<1> DEFINE more == [i \in 0 .. n + 1 |-> IF i = n + 1 THEN Len(b) + 1 + Len(e) ELSE at[i]]
<1>7. /\ more[n + 1] = Len(b) + 1 + Len(e)
      /\ \A i \in 0 .. n : more[i] = at[i]
  BY <1>3
<1> HIDE DEF more
<1>8. more[0] = 1 /\ more[n] = Len(b) + 1
  BY <1>1, <1>3, <1>7 DEF Laid
<1>9. more[n + 1] \in Nat /\ more[n + 1] = Len(c) + 1
  BY <1>2, <1>5, <1>7
<1>10. ASSUME NEW i \in 1 .. n + 1
       PROVE  /\ Writable(q[i]) /\ At(c, more[i - 1], Serialize(q[i]))
              /\ more[i] = more[i - 1] + Len(Serialize(q[i]))
  <2>1. CASE i = n + 1
    <3>1. q[i] = p /\ more[i - 1] = Len(b) + 1 /\ more[i] = (Len(b) + 1) + Len(e)
      BY <1>3, <1>7, <1>8, <2>1
    <3> QED
      BY <1>4, <3>1 DEF e
  <2>2. CASE i # n + 1
    <3>1. i \in 1 .. n /\ i - 1 \in 0 .. n /\ i \in 0 .. n
      BY <1>3, <2>2
    <3>2. q[i] = s[i] /\ more[i] = at[i] /\ more[i - 1] = at[i - 1]
      BY <1>3, <1>7, <3>1
    <3> QED
      BY <1>6, <3>1, <3>2
  <2> QED
    BY <2>1, <2>2
<1>11. Laid(more, c, q) /\ more[Len(q)] = Len(c) + 1
  BY <1>3, <1>8, <1>9, <1>10 DEF Laid
<1>12. Carried(c, q, TRUE)
  BY <1>11 DEF Carried
<1> QED
  BY <1>12 DEF c, e, q

(* The bytes from a place on.                                              *)
LEMMA AtRest ==
  ASSUME NEW b \in Seq(Octet), NEW e \in Seq(Octet), NEW p, At(b, p, e)
  PROVE  SubSeq(b, p, Len(b)) \in Seq(Octet) /\ At(SubSeq(b, p, Len(b)), 1, e)
<1> DEFINE n == Len(b)
           m == Len(e)
           t == SubSeq(b, p, n)
<1>1. /\ p \in Nat \ {0} /\ p + m <= n + 1 /\ m \in Nat /\ n \in Nat
      /\ \A i \in 1 .. m : b[p + i - 1] = e[i]
  BY DEF At
<1>2. p \in 1 .. n + 1 /\ n \in p - 1 .. n
  <2> HIDE DEF n, m
  <2> QED
    BY <1>1
<1>3. t \in Seq(Octet) /\ Len(t) = n - p + 1 /\ \A i \in 1 .. n - p + 1 : t[i] = b[p + i - 1]
  BY <1>2, SubSeqProperties
<1> HIDE DEF t, n, m
<1>4. ASSUME NEW i \in 1 .. m PROVE t[1 + i - 1] = e[i]
  <2>1. i \in 1 .. n - p + 1 /\ 1 + i - 1 = i
    BY <1>1
  <2> QED
    BY <1>1, <1>3, <2>1
<1>5. 1 + m <= Len(t) + 1
  BY <1>1, <1>3
<1>6. At(t, 1, e)
  BY <1>4, <1>5 DEF At, m
<1> QED
  BY <1>3, <1>6 DEF t, n

LEMMA CarriedParsed ==
  ASSUME NEW b \in Seq(Octet), NEW S, NEW s \in Seq(S), NEW whole, Carried(b, s, whole)
  PROVE  /\ BrokerParses(b, Len(s)).read = s
         /\ whole => BrokerParses(b, Len(s)).left = 0
<1> DEFINE n == Len(s)
           IsFrom(f) == f = [i \in 0 .. n |-> IF i = 0 THEN 1
                                              ELSE f[i - 1] + PacketLen(SubSeq(b, f[i - 1], Len(b)))]
           from == CHOOSE f : IsFrom(f)
<1>1. PICK at : Laid(at, b, s) /\ (whole => at[n] = Len(b) + 1)
  BY DEF Carried
<1>2. n \in Nat
  OBVIOUS
<1>3. BrokerParses(b, n) =
        [read |-> [i \in 1 .. n |-> BrokerReads(SubSeq(b, from[i - 1], from[i] - 1))],
         left |-> Len(b) + 1 - from[n]]
  BY DEF BrokerParses
<1>4. ASSUME NEW i \in 1 .. n
      PROVE  /\ at[i] = at[i - 1] + PacketLen(SubSeq(b, at[i - 1], Len(b)))
             /\ BrokerReads(SubSeq(b, at[i - 1], at[i] - 1)) = s[i]
  <2> DEFINE e == Serialize(s[i])
             p == at[i - 1]
  <2>1. Writable(s[i]) /\ At(b, p, e) /\ at[i] = p + Len(e)
    BY <1>1 DEF Laid
  <2>2. /\ e \in Seq(Octet) /\ Len(e) \in Nat \ {0} /\ BrokerReads(e) = s[i]
        /\ \A t \in Seq(Octet) : At(t, 1, e) => PacketLen(t) = Len(e)
    BY <2>1, WritableRead
  <2> HIDE DEF e, p
  <2>3. PacketLen(SubSeq(b, p, Len(b))) = Len(e)
    BY <2>1, <2>2, AtRest
  <2>4. SubSeq(b, p, at[i] - 1) = e
    <3>1. at[i] = p + Len(e)
      BY <2>1
    <3>2. p \in Nat /\ Len(e) \in Nat
      BY <2>1, <2>2 DEF At
    <3>3. at[i] - 1 = p + Len(e) - 1
      BY <3>1, <3>2
    <3> QED
      BY <2>1, <2>2, <3>3, Cut
  <2> QED
    BY <2>1, <2>2, <2>3, <2>4 DEF p
<1> HIDE DEF n
<1>5. \E f : IsFrom(f)
  <2> DEFINE f == [i \in 0 .. n |-> at[i]]
  <2>1. \A i \in 0 .. n : f[i] = at[i]
    OBVIOUS
  <2>2. f = [i \in 0 .. n |-> f[i]]
    OBVIOUS
  <2> HIDE DEF f
  <2>3. ASSUME NEW i \in 0 .. n
        PROVE  f[i] = IF i = 0 THEN 1 ELSE f[i - 1] + PacketLen(SubSeq(b, f[i - 1], Len(b)))
    <3>1. CASE i = 0
      <4>1. at[0] = 1
        BY <1>1 DEF Laid
      <4> QED
        BY <2>1, <3>1, <4>1
    <3>2. CASE i # 0
      <4>1. i \in 1 .. n /\ i - 1 \in 0 .. n
        BY <1>2, <3>2
      <4>2. f[i] = at[i] /\ f[i - 1] = at[i - 1]
        BY <2>1, <4>1
      <4> QED
        BY <1>4, <3>2, <4>1, <4>2
    <3> QED
      BY <3>1, <3>2
  <2>4. f = [i \in 0 .. n |-> IF i = 0 THEN 1
                              ELSE f[i - 1] + PacketLen(SubSeq(b, f[i - 1], Len(b)))]
    BY <2>2, <2>3
  <2> QED
    BY <2>4
<1>6. IsFrom(from)
  BY <1>5
<1> HIDE DEF from
<1>7. \A i \in 0 .. n : from[i] = at[i]
  <2> DEFINE P == {i \in 0 .. n : from[i] = at[i]}
  <2>1. EachTurn(P, n)
    <3>1. 0 \in P
      <4>1. 0 \in 0 .. n /\ at[0] = 1
        BY <1>1, <1>2 DEF Laid
      <4> QED
        BY <1>6, <4>1
    <3>2. ASSUME NEW i \in 1 .. n, i - 1 \in P PROVE i \in P
      <4>1. i \in 0 .. n /\ i # 0
        BY <1>2
      <4>2. from[i] = from[i - 1] + PacketLen(SubSeq(b, from[i - 1], Len(b)))
        BY <1>6, <4>1
      <4>3. from[i - 1] = at[i - 1]
        BY <3>2
      <4>4. from[i] = at[i]
        BY <1>4, <4>2, <4>3
      <4> QED
        BY <4>1, <4>4
    <3> QED
      BY <1>2, <3>1, <3>2 DEF EachTurn
  <2>2. \A i \in 0 .. n : i \in P
    BY <2>1, AllTurns
  <2> QED
    BY <2>2
<1>8. [i \in 1 .. n |-> BrokerReads(SubSeq(b, from[i - 1], from[i] - 1))] = s
  <2>1. ASSUME NEW i \in 1 .. n
        PROVE  BrokerReads(SubSeq(b, from[i - 1], from[i] - 1)) = s[i]
    <3>1. i \in 0 .. n /\ i - 1 \in 0 .. n
      BY <1>2
    <3>2. from[i] = at[i] /\ from[i - 1] = at[i - 1]
      BY <1>7, <3>1
    <3> QED
      BY <1>4, <3>2
  <2>2. s = [i \in 1 .. n |-> s[i]]
    BY DEF n
  <2> QED
    BY <2>1, <2>2
<1>9. whole => Len(b) + 1 - from[n] = 0
  <2>1. n \in 0 .. n /\ Len(b) \in Nat
    BY <1>2
  <2>2. from[n] = at[n]
    BY <1>7, <2>1
  <2> QED
    BY <1>1, <2>1, <2>2
<1> QED
  BY <1>3, <1>8, <1>9 DEF n

-----------------------------------------------------------------------------
(* What the broker puts on the connection.                                 *)
LEMMA ArrivalReadable ==
  ASSUME NEW p \in Arrivals
  PROVE  /\ BrokerBytes(p) \in Seq(Octet) /\ Len(BrokerBytes(p)) \in Nat \ {0}
         /\ Deserialize(BrokerBytes(p)) = p
         /\ \A t \in Seq(Octet) : At(t, 1, BrokerBytes(p)) => PacketLen(t) = Len(BrokerBytes(p))
<1>1. /\ Arrivals \subseteq PublishPackets \cup ConnackPackets \cup SubackPackets
                         \cup AckPackets({PUBACK, UNSUBACK}) \cup BarePackets({PINGRESP})
      /\ \A q \in Arrivals \cap PublishPackets :
           Len(q.topic) + Len(q.payload) + 4 <= MaxRemaining
  BY WireAssumption
<1>2. ReadsBack(p)
  <2>1. CASE p \in PublishPackets
    BY <1>1, <2>1, PublishReadable
  <2>2. CASE p \in ConnackPackets
    BY <2>2, ConnackReadable
  <2>3. CASE p \in SubackPackets
    BY <2>3, SubackReadable
  <2>4. CASE p \in AckPackets({PUBACK, UNSUBACK})
    BY <2>4, AckReadable
  <2>5. CASE p \in BarePackets({PINGRESP})
    BY <2>5, PingrespReadable
  <2> QED
    BY <1>1, <2>1, <2>2, <2>3, <2>4, <2>5
<1> DEFINE b == BrokerBytes(p)
<1>3. PICK first, body :
        /\ b = Frame(first, body) /\ Framable(first, body)
        /\ \A t : Headed(t, first, body) /\ Len(t) = PacketLen(t) => Deserialize(t) = p
  BY <1>2 DEF ReadsBack
<1>4. b \in Seq(Octet) /\ Len(b) = 1 + Len(MQTTPacket_encode(Len(body))) + Len(body)
      /\ Len(body) \in Nat /\ Len(MQTTPacket_encode(Len(body))) \in 1 .. 4
  BY <1>3, FrameBytes
<1> HIDE DEF b
<1>5. Len(b) \in Nat \ {0}
  <2>1. \A i \in 1 .. 4, j \in Nat : 1 + i + j \in Nat \ {0}
    OBVIOUS
  <2> QED
    BY <1>4, <2>1
<1>6. ASSUME NEW t \in Seq(Octet), At(t, 1, b)
      PROVE  Headed(t, first, body) /\ PacketLen(t) = Len(b)
  BY <1>3, <1>6, FrameRead
<1>7. At(b, 1, b)
  BY <1>4 DEF At
<1>8. Deserialize(b) = p
  BY <1>3, <1>4, <1>6, <1>7
<1> QED
  BY <1>4, <1>5, <1>6, <1>8 DEF b

(* The bytes of the packets of s up to each one.                           *)
Flow(all, s) ==
  /\ all[0] = <<>>
  /\ \A i \in 1 .. Len(s) : all[i] = all[i - 1] \o BrokerBytes(s[i])
  /\ \A i \in 0 .. Len(s) : all[i] \in Seq(Octet)

LEMMA FlowExists ==
  ASSUME NEW s \in Seq(Arrivals)
  PROVE  \E all : Flow(all, s) /\ BrokerBytesOf(s) = all[Len(s)]
<1> DEFINE n == Len(s)
           IsAll(f) == f = [i \in 0 .. n |-> IF i = 0 THEN <<>> ELSE f[i - 1] \o BrokerBytes(s[i])]
           all == CHOOSE f : IsAll(f)
<1>1. BrokerBytesOf(s) = all[n]
  BY DEF BrokerBytesOf
<1>2. n \in Nat /\ \A i \in 1 .. n : s[i] \in Arrivals
  OBVIOUS
<1> HIDE DEF n
<1>3. \A i \in 1 .. n : BrokerBytes(s[i]) \in Seq(Octet)
  BY <1>2, ArrivalReadable
<1>4. <<>> \in Seq(Octet)
  OBVIOUS
<1>5. \E f : IsAll(f)
  <2> DEFINE g == [x \in (1 .. n) \X Seq(Octet) |-> x[2] \o BrokerBytes(s[x[1]])]
  <2>1. PICK f : Turns(f, n, <<>>, g)
    BY <1>2, TurnsExist
  <2>2. f[0] = <<>> /\ \A k \in 1 .. n : f[k] = g[<<k, f[k - 1]>>]
    <3>1. \A k \in 0 .. n : f[k] = IF k = 0 THEN <<>> ELSE g[<<k, f[k - 1]>>]
      BY <2>1 DEF Turns
    <3>2. 0 \in 0 .. n /\ \A k \in 1 .. n : k \in 0 .. n /\ k # 0
      BY <1>2
    <3> HIDE DEF g
    <3> QED
      BY <3>1, <3>2
  <2>3. \A k \in 1 .. n : f[k - 1] \in Seq(Octet) => f[k] = f[k - 1] \o BrokerBytes(s[k])
    BY <2>2
  <2> DEFINE P == {k \in 0 .. n : f[k] \in Seq(Octet)}
  <2>4. EachTurn(P, n)
    <3>1. 0 \in P
      <4>1. 0 \in 0 .. n
        BY <1>2
      <4>2. f[0] \in Seq(Octet)
        BY <1>4, <2>2
      <4> QED
        BY <4>1, <4>2
    <3>2. ASSUME NEW k \in 1 .. n, k - 1 \in P PROVE k \in P
      <4>1. /\ f[k] = f[k - 1] \o BrokerBytes(s[k])
            /\ f[k - 1] \in Seq(Octet) /\ BrokerBytes(s[k]) \in Seq(Octet)
        BY <1>3, <2>3, <3>2
      <4>2. f[k] \in Seq(Octet)
        BY <4>1
      <4> QED
        BY <1>2, <4>2
    <3> QED
      BY <1>2, <3>1, <3>2 DEF EachTurn
  <2>5. \A k \in 0 .. n : f[k] \in Seq(Octet)
    BY <2>4, AllTurns
  <2>6. ASSUME NEW k \in 0 .. n
        PROVE  f[k] = IF k = 0 THEN <<>> ELSE f[k - 1] \o BrokerBytes(s[k])
    <3>1. CASE k = 0
      BY <2>2, <3>1
    <3>2. CASE k # 0
      <4>1. k \in 1 .. n /\ k - 1 \in 0 .. n
        BY <1>2, <3>2
      <4> QED
        BY <2>3, <2>5, <3>2, <4>1
    <3> QED
      BY <3>1, <3>2
  <2>7. f = [k \in 0 .. n |-> f[k]]
    BY <2>1 DEF Turns
  <2>8. f = [k \in 0 .. n |-> IF k = 0 THEN <<>> ELSE f[k - 1] \o BrokerBytes(s[k])]
    BY <2>6, <2>7
  <2> QED
    BY <2>8
<1>6. IsAll(all)
  BY <1>5
<1> HIDE DEF all
<1>7. \A i \in 0 .. n : all[i] = IF i = 0 THEN <<>> ELSE all[i - 1] \o BrokerBytes(s[i])
  BY <1>6
<1>8. all[0] = <<>> /\ \A i \in 1 .. n : all[i] = all[i - 1] \o BrokerBytes(s[i])
  <2>1. 0 \in 0 .. n /\ \A i \in 1 .. n : i \in 0 .. n /\ i # 0
    BY <1>2
  <2> QED
    BY <1>7, <2>1
<1> DEFINE P == {i \in 0 .. n : all[i] \in Seq(Octet)}
<1>9. EachTurn(P, n)
  <2>1. 0 \in P
    <3>1. 0 \in 0 .. n
      BY <1>2
    <3>2. all[0] \in Seq(Octet)
      BY <1>4, <1>8
    <3> QED
      BY <3>1, <3>2
  <2>2. ASSUME NEW k \in 1 .. n, k - 1 \in P PROVE k \in P
    <3>1. /\ all[k] = all[k - 1] \o BrokerBytes(s[k])
          /\ all[k - 1] \in Seq(Octet) /\ BrokerBytes(s[k]) \in Seq(Octet)
      BY <1>3, <1>8, <2>2
    <3>2. all[k] \in Seq(Octet)
      BY <3>1
    <3> QED
      BY <1>2, <3>2
  <2> QED
    BY <1>2, <2>1, <2>2 DEF EachTurn
<1>10. \A i \in 0 .. n : all[i] \in Seq(Octet)
  BY <1>9, AllTurns
<1>11. Flow(all, s)
  BY <1>8, <1>10 DEF Flow, n
<1> QED
  BY <1>1, <1>11 DEF n

(* There is only one.                                                      *)
LEMMA FlowOne ==
  ASSUME NEW s \in Seq(Arrivals), NEW f, Flow(f, s)
  PROVE  BrokerBytesOf(s) = f[Len(s)] /\ BrokerBytesOf(s) \in Seq(Octet)
<1> DEFINE n == Len(s)
<1>1. PICK all : Flow(all, s) /\ BrokerBytesOf(s) = all[n]
  BY FlowExists
<1>2. n \in Nat
  OBVIOUS
<1>3. /\ all[0] = <<>> /\ \A i \in 1 .. n : all[i] = all[i - 1] \o BrokerBytes(s[i])
      /\ \A i \in 0 .. n : all[i] \in Seq(Octet)
      /\ f[0] = <<>> /\ \A i \in 1 .. n : f[i] = f[i - 1] \o BrokerBytes(s[i])
  BY <1>1 DEF Flow
<1> HIDE DEF n
<1> DEFINE P == {i \in 0 .. n : f[i] = all[i]}
<1>4. EachTurn(P, n)
  <2>1. 0 \in P
    BY <1>2, <1>3
  <2>2. ASSUME NEW k \in 1 .. n, k - 1 \in P PROVE k \in P
    <3>1. f[k - 1] = all[k - 1]
      BY <2>2
    <3>2. f[k] = all[k]
      BY <1>3, <3>1
    <3> QED
      BY <1>2, <3>2
  <2> QED
    BY <1>2, <2>1, <2>2 DEF EachTurn
<1>5. \A i \in 0 .. n : i \in P
  BY <1>4, AllTurns
<1>6. n \in P /\ n \in 0 .. n
  BY <1>2, <1>5
<1> QED
  BY <1>1, <1>3, <1>6 DEF n

LEMMA FlowMore ==
  ASSUME NEW s \in Seq(Arrivals), NEW p \in Arrivals
  PROVE  BrokerBytesOf(Append(s, p)) = BrokerBytesOf(s) \o BrokerBytes(p)
<1> DEFINE q == Append(s, p)
           n == Len(s)
<1>1. q \in Seq(Arrivals) /\ n \in Nat /\ Len(q) = n + 1 /\ q[n + 1] = p
      /\ \A i \in 1 .. n : q[i] = s[i]
  BY AppendProperties
<1> HIDE DEF q
<1>2. PICK f : Flow(f, q) /\ BrokerBytesOf(q) = f[Len(q)]
  BY <1>1, FlowExists
<1>3. /\ f[0] = <<>> /\ \A i \in 1 .. n + 1 : f[i] = f[i - 1] \o BrokerBytes(q[i])
      /\ \A i \in 0 .. n + 1 : f[i] \in Seq(Octet)
  BY <1>1, <1>2 DEF Flow
<1>4. /\ \A i \in 1 .. n : i \in 1 .. n + 1
      /\ \A i \in 0 .. n : i \in 0 .. n + 1
      /\ n + 1 \in 1 .. n + 1 /\ n + 1 - 1 = n
  <2> HIDE DEF n
  <2> QED
    BY <1>1
<1>5. Flow(f, s)
  <2>1. \A i \in 1 .. n : f[i] = f[i - 1] \o BrokerBytes(s[i])
    BY <1>1, <1>3, <1>4
  <2>2. \A i \in 0 .. n : f[i] \in Seq(Octet)
    BY <1>3, <1>4
  <2> QED
    BY <1>3, <2>1, <2>2 DEF Flow
<1>6. BrokerBytesOf(s) = f[n]
  BY <1>5, FlowOne
<1>7. f[n + 1] = f[n] \o BrokerBytes(p)
  <2> HIDE DEF n
  <2>1. ASSUME NEW i \in 1 .. n + 1, i = n + 1
        PROVE  f[i] = f[n] \o BrokerBytes(p)
    <3>1. f[i] = f[i - 1] \o BrokerBytes(q[i])
      BY <1>3
    <3>2. i - 1 = n /\ q[i] = p
      BY <1>1, <2>1
    <3> QED
      BY <3>1, <3>2
  <2> QED
    BY <1>4, <2>1
<1> QED
  BY <1>1, <1>2, <1>6, <1>7 DEF q

(* What is left of the packets of w when j of them are read.               *)
PacketsLeft(w, j) == SubSeq(w, j + 1, Len(w))

LEMMA LeftItems ==
  ASSUME NEW S, NEW w \in Seq(S), NEW j \in 0 .. Len(w)
  PROVE  /\ PacketsLeft(w, j) \in Seq(S) /\ Len(PacketsLeft(w, j)) = Len(w) - j
         /\ \A i \in 1 .. Len(w) - j : PacketsLeft(w, j)[i] = w[j + i]
<1> DEFINE n == Len(w)
           l == SubSeq(w, j + 1, n)
<1>1. n \in Nat
  OBVIOUS
<1>2. \A i \in j + 1 .. n : w[i] \in S
  <2>1. \A i \in j + 1 .. n : i \in 1 .. n
    BY <1>1
  <2> QED
    BY <2>1
<1>3. /\ l \in Seq(S) /\ Len(l) = IF j + 1 <= n THEN n - (j + 1) + 1 ELSE 0
      /\ \A i \in 1 .. n - (j + 1) + 1 : l[i] = w[(j + 1) + i - 1]
  <2>1. j + 1 \in Int /\ n \in Int
    BY <1>1
  <2> HIDE DEF n
  <2> QED
    BY <1>2, <2>1, SubSeqProperties
<1> HIDE DEF l
<1>4. n - (j + 1) + 1 = n - j /\ (~(j + 1 <= n) => n - j = 0)
      /\ \A i \in 1 .. n - j : (j + 1) + i - 1 = j + i
  <2>1. j \in 0 .. n
    OBVIOUS
  <2> HIDE DEF n
  <2> QED
    BY <1>1, <2>1
<1>5. Len(l) = n - j
  BY <1>3, <1>4
<1> QED
  BY <1>3, <1>4, <1>5 DEF l, PacketsLeft

LEMMA LeftMore ==
  ASSUME NEW S, NEW w \in Seq(S), NEW p \in S, NEW j \in 0 .. Len(w)
  PROVE  PacketsLeft(Append(w, p), j) = Append(PacketsLeft(w, j), p)
<1> DEFINE v == Append(w, p)
           n == Len(w)
           l == PacketsLeft(w, j)
           a == PacketsLeft(v, j)
           b == Append(l, p)
<1>1. v \in Seq(S) /\ n \in Nat /\ Len(v) = n + 1 /\ v[n + 1] = p
      /\ \A i \in 1 .. n : v[i] = w[i]
  BY AppendProperties
<1>2. l \in Seq(S) /\ Len(l) = n - j /\ \A i \in 1 .. n - j : l[i] = w[j + i]
  BY LeftItems
<1> HIDE DEF v
<1>3. j \in 0 .. Len(v) /\ j \in 0 .. n
  BY <1>1
<1>4. a \in Seq(S) /\ Len(a) = (n + 1) - j /\ \A i \in 1 .. (n + 1) - j : a[i] = v[j + i]
  <2>1. a \in Seq(S) /\ Len(a) = Len(v) - j /\ \A i \in 1 .. Len(v) - j : a[i] = v[j + i]
    BY <1>1, <1>3, LeftItems
  <2> HIDE DEF a, n
  <2> QED
    BY <1>1, <2>1
<1> HIDE DEF l
<1>5. b \in Seq(S) /\ Len(b) = (n - j) + 1 /\ b[(n - j) + 1] = p
      /\ \A i \in 1 .. n - j : b[i] = l[i]
  BY <1>2, AppendProperties
<1> HIDE DEF a, b, n
<1>6. Len(a) = Len(b)
  BY <1>1, <1>3, <1>4, <1>5
<1>7. ASSUME NEW i \in 1 .. Len(a) PROVE a[i] = b[i]
  <2>1. i \in 1 .. (n + 1) - j
    BY <1>4
  <2>2. CASE i \in 1 .. n - j
    <3>1. j + i \in 1 .. n
      BY <1>1, <1>3, <2>2
    <3> QED
      BY <1>1, <1>2, <1>4, <1>5, <2>1, <2>2, <3>1
  <2>3. CASE i \notin 1 .. n - j
    <3>1. i = (n - j) + 1 /\ j + i = n + 1
      BY <1>1, <1>3, <2>1, <2>3
    <3> QED
      BY <1>1, <1>4, <1>5, <2>1, <3>1
  <2> QED
    BY <2>2, <2>3
<1>8. a = b
  BY <1>4, <1>5, <1>6, <1>7, SeqEqual
<1> QED
  BY <1>8 DEF a, b, l, v

(* Their bytes begin with those of the next one.                           *)
LEMMA FlowFirst ==
  ASSUME NEW w \in Seq(Arrivals), NEW j \in 0 .. Len(w), j < Len(w)
  PROVE  /\ w[j + 1] \in Arrivals /\ j + 1 \in 0 .. Len(w)
         /\ BrokerBytesOf(PacketsLeft(w, j + 1)) \in Seq(Octet)
         /\ BrokerBytesOf(PacketsLeft(w, j)) = BrokerBytes(w[j + 1]) \o BrokerBytesOf(PacketsLeft(w, j + 1))
<1> DEFINE n == Len(w)
           l == PacketsLeft(w, j)
           r == PacketsLeft(w, j + 1)
           m == n - (j + 1)
           c == BrokerBytes(w[j + 1])
<1>1. n \in Nat /\ m \in Nat /\ j + 1 \in 0 .. n /\ j + 1 \in 1 .. n /\ n - j = m + 1
  <2>1. n \in Nat /\ j \in 0 .. n /\ j < n
    OBVIOUS
  <2> HIDE DEF n
  <2> QED
    BY <2>1
<1>2. w[j + 1] \in Arrivals
  BY <1>1
<1>3. c \in Seq(Octet)
  BY <1>2, ArrivalReadable
<1>4. l \in Seq(Arrivals) /\ Len(l) = m + 1 /\ \A i \in 1 .. m + 1 : l[i] = w[j + i]
  BY <1>1, LeftItems
<1>5. r \in Seq(Arrivals) /\ Len(r) = m /\ \A i \in 1 .. m : r[i] = w[(j + 1) + i]
  BY <1>1, LeftItems
<1> HIDE DEF l, r, m
<1>6. PICK f : Flow(f, l) /\ BrokerBytesOf(l) = f[m + 1]
  BY <1>4, FlowExists
<1>7. PICK g : Flow(g, r) /\ BrokerBytesOf(r) = g[m]
  BY <1>5, FlowExists
<1>8. f[0] = <<>> /\ \A i \in 1 .. m + 1 : f[i] = f[i - 1] \o BrokerBytes(l[i])
  BY <1>4, <1>6 DEF Flow
<1>9. /\ g[0] = <<>> /\ \A i \in 1 .. m : g[i] = g[i - 1] \o BrokerBytes(r[i])
      /\ \A i \in 0 .. m : g[i] \in Seq(Octet)
  BY <1>5, <1>7 DEF Flow
<1>10. ASSUME NEW k \in 1 .. m
       PROVE  BrokerBytes(r[k]) \in Seq(Octet) /\ l[k + 1] = r[k]
  <2>1. r[k] \in Arrivals
    BY <1>5
  <2>2. k + 1 \in 1 .. m + 1 /\ j + (k + 1) = (j + 1) + k
    BY <1>1
  <2> QED
    BY <1>4, <1>5, <2>1, <2>2, ArrivalReadable
<1> HIDE DEF c
<1> DEFINE P == {k \in 0 .. m : f[k + 1] = c \o g[k]}
<1>11. EachTurn(P, m)
  <2>1. 0 \in P
    <3>1. 0 \in 0 .. m /\ 1 \in 1 .. m + 1 /\ 1 - 1 = 0 /\ 0 + 1 = 1
      BY <1>1
    <3>2. f[1] = <<>> \o BrokerBytes(l[1]) /\ l[1] = w[j + 1]
      BY <1>4, <1>8, <3>1
    <3>3. f[1] = <<>> \o c
      BY <3>2 DEF c
    <3>4. <<>> \o c = c /\ c \o <<>> = c
      BY <1>3, ConcatEmptySeq
    <3>5. f[0 + 1] = c \o g[0]
      BY <1>9, <3>1, <3>3, <3>4
    <3> QED
      BY <3>1, <3>5
  <2>2. ASSUME NEW k \in 1 .. m, k - 1 \in P PROVE k \in P
    <3>1. k \in 0 .. m /\ k - 1 \in 0 .. m /\ k + 1 \in 1 .. m + 1 /\ (k - 1) + 1 = k /\ (k + 1) - 1 = k
      BY <1>1
    <3>2. f[k] = c \o g[k - 1]
      BY <2>2, <3>1
    <3>3. f[k + 1] = f[k] \o BrokerBytes(r[k])
      BY <1>8, <1>10, <3>1
    <3>4. g[k] = g[k - 1] \o BrokerBytes(r[k])
      BY <1>9
    <3>5. g[k - 1] \in Seq(Octet) /\ BrokerBytes(r[k]) \in Seq(Octet)
      BY <1>9, <1>10, <3>1
    <3>6. (c \o g[k - 1]) \o BrokerBytes(r[k]) = c \o (g[k - 1] \o BrokerBytes(r[k]))
      BY <1>3, <3>5, Regrouped
    <3>7. f[k + 1] = c \o g[k]
      BY <3>2, <3>3, <3>4, <3>6, Zenon
    <3> QED
      BY <3>1, <3>7
  <2> QED
    BY <1>1, <2>1, <2>2 DEF EachTurn
<1>12. \A k \in 0 .. m : k \in P
  BY <1>11, AllTurns
<1>13. m \in 0 .. m
  BY <1>1
<1>14. f[m + 1] = c \o g[m] /\ g[m] \in Seq(Octet)
  BY <1>9, <1>12, <1>13
<1> QED
  BY <1>1, <1>2, <1>6, <1>7, <1>14 DEF l, r, c

LEMMA FlowNone == BrokerBytesOf(<<>>) = <<>>
<1>1. <<>> \in Seq(Arrivals) /\ Len(<<>>) = 0
  OBVIOUS
<1>2. PICK f : Flow(f, <<>>) /\ BrokerBytesOf(<<>>) = f[0]
  BY <1>1, FlowExists
<1> QED
  BY <1>2 DEF Flow

(* The next packet of what has not been read.                              *)
LEMMA NextArrival ==
  ASSUME NEW w \in Seq(Arrivals), NEW j \in 0 .. Len(w), NEW d, d = BrokerBytesOf(PacketsLeft(w, j)), d # <<>>
  PROVE  /\ w[j + 1] \in Arrivals /\ j + 1 \in 0 .. Len(w)
         /\ PacketLen(d) = Len(BrokerBytes(w[j + 1])) /\ PacketLen(d) \in Nat \ {0}
         /\ PacketLen(d) <= Len(d) /\ d \in Seq(Octet)
         /\ Deserialize(SubSeq(d, 1, PacketLen(d))) = w[j + 1]
         /\ SubSeq(d, PacketLen(d) + 1, Len(d)) = BrokerBytesOf(PacketsLeft(w, j + 1))
<1> DEFINE n == Len(w)
           c == BrokerBytes(w[j + 1])
           rest == BrokerBytesOf(PacketsLeft(w, j + 1))
<1>1. j < n
  <2>1. CASE j = n
    <3>1. PacketsLeft(w, j) \in Seq(Arrivals) /\ Len(PacketsLeft(w, j)) = n - j
      BY LeftItems
    <3>2. n \in Nat
      OBVIOUS
    <3>3. Len(PacketsLeft(w, j)) = 0
      BY <2>1, <3>1, <3>2
    <3>4. PacketsLeft(w, j) = <<>>
      BY <3>1, <3>3, EmptySeq
    <3> QED
      BY <3>4, FlowNone
  <2>2. j \in 0 .. n /\ n \in Nat
    OBVIOUS
  <2> HIDE DEF n
  <2> QED
    BY <2>1, <2>2
<1>2. w[j + 1] \in Arrivals /\ j + 1 \in 0 .. n /\ rest \in Seq(Octet) /\ d = c \o rest
  BY <1>1, FlowFirst
<1>3. /\ c \in Seq(Octet) /\ Len(c) \in Nat \ {0} /\ Deserialize(c) = w[j + 1]
      /\ \A t \in Seq(Octet) : At(t, 1, c) => PacketLen(t) = Len(c)
  BY <1>2, ArrivalReadable
<1> HIDE DEF c, rest
<1>4. d \in Seq(Octet) /\ Len(d) = Len(c) + Len(rest) /\ Len(rest) \in Nat
  BY <1>2, <1>3, Joined
<1>5. At(c, 1, c)
  BY <1>3 DEF At
<1>6. At(d, 1, c)
  BY <1>2, <1>3, <1>5, AtFront
<1>7. PacketLen(d) = Len(c)
  BY <1>3, <1>4, <1>6
<1>8. SubSeq(d, 1, Len(c)) = c
  <2>1. Len(c) = 1 + Len(c) - 1
    BY <1>3
  <2> QED
    BY <1>3, <1>4, <1>6, <2>1, Cut
<1>9. SubSeq(d, Len(c) + 1, Len(d)) = rest
  <2>1. At(d, Len(c) + 1, rest)
    BY <1>2, <1>3, AtEnd
  <2>2. Len(d) = (Len(c) + 1) + Len(rest) - 1
    BY <1>3, <1>4
  <2> QED
    BY <1>2, <1>4, <2>1, <2>2, Cut
<1>10. Len(c) <= Len(d)
  BY <1>3, <1>4
<1> QED
  BY <1>2, <1>3, <1>4, <1>7, <1>8, <1>9, <1>10 DEF c, rest

(* A read or a write that ends short ends before the end.                  *)
LEMMA CutBefore ==
  ASSUME NEW n, NEW k \in Cuts(n)
  PROVE  k \in Nat /\ k < n
<1>1. CutAt \subseteq Nat
  BY WireAssumption
<1> QED
  BY <1>1 DEF Cuts

(* What a write puts on the connection.                                    *)
LEMMA WriteBytes ==
  ASSUME NEW b \in Seq(Octet), NEW w \in Writes(b)
  PROVE  w.out \in Seq(Octet) /\ w.ok \in BOOLEAN /\ (waits /\ w.ok => w.out = b)
<1> DEFINE n == Len(b)
           pad == [i \in 1 .. n |-> 255]
           c == b \o pad
<1>1. n \in Nat
  OBVIOUS
<1>2. CASE w = [out |-> b, ok |-> TRUE]
  BY <1>2
<1>3. ASSUME NEW k \in Cuts(n), w = [out |-> Prefix(b, k), ok |-> FALSE]
      PROVE  w.out \in Seq(Octet) /\ w.ok \in BOOLEAN /\ (waits /\ w.ok => w.out = b)
  <2>1. k \in Int /\ 1 \in Int /\ \A i \in 1 .. k : i \in 1 .. n
    <3>1. k \in Nat /\ k < n
      BY CutBefore
    <3> HIDE DEF n
    <3> QED
      BY <1>1, <3>1
  <2>2. \A i \in 1 .. k : b[i] \in Octet
    BY <2>1
  <2>3. SubSeq(b, 1, k) \in Seq(Octet)
    BY <2>1, <2>2, SubSeqProperties
  <2> QED
    BY <1>3, <2>3 DEF Prefix
<1>4. ASSUME ~waits, NEW k \in Cuts(n) \ {0}, NEW j \in (Cuts(n) \ {0}) \cup {n},
             w = [out |-> Prefix(c, k + j), ok |-> k + j = n]
      PROVE  w.out \in Seq(Octet) /\ w.ok \in BOOLEAN /\ (waits /\ w.ok => w.out = b)
  <2>1. pad \in Seq(Octet) /\ Len(pad) = n
    <3>1. \A i \in 1 .. n : 255 \in Octet
      BY DEF Octet
    <3> HIDE DEF n
    <3> QED
      BY <1>1, <3>1
  <2> HIDE DEF pad
  <2>2. c \in Seq(Octet) /\ Len(c) = n + n
    BY <2>1, Joined
  <2> HIDE DEF c
  <2>3. k + j \in Int /\ 1 \in Int /\ \A i \in 1 .. k + j : i \in 1 .. n + n
    <3>1. k \in Nat /\ k < n
      BY CutBefore
    <3>2. j = n \/ (j \in Nat /\ j < n)
      BY CutBefore
    <3> HIDE DEF n
    <3> QED
      BY <1>1, <3>1, <3>2
  <2>4. \A i \in 1 .. k + j : c[i] \in Octet
    BY <2>2, <2>3
  <2>5. SubSeq(c, 1, k + j) \in Seq(Octet)
    BY <2>3, <2>4, SubSeqProperties
  <2> QED
    BY <1>4, <2>5 DEF Prefix
<1>5. \/ w = [out |-> b, ok |-> TRUE]
      \/ \E k \in Cuts(n) : w = [out |-> Prefix(b, k), ok |-> FALSE]
      \/ ~waits /\ \E k \in Cuts(n) \ {0}, j \in (Cuts(n) \ {0}) \cup {n} :
                      w = [out |-> Prefix(c, k + j), ok |-> k + j = n]
  <2> DEFINE whole == {[out |-> b, ok |-> TRUE]}
             part == {[out |-> Prefix(b, k), ok |-> FALSE] : k \in Cuts(n)}
             past == {[out |-> Prefix(c, k + j), ok |-> k + j = n] :
                        k \in Cuts(n) \ {0}, j \in (Cuts(n) \ {0}) \cup {n}}
  <2>1. Writes(b) = whole \cup part \cup IF waits THEN {} ELSE past
    BY DEF Writes
  <2> HIDE DEF n, c
  <2>2. w \in part => \E k \in Cuts(n) : w = [out |-> Prefix(b, k), ok |-> FALSE]
    OBVIOUS
  <2>3. w \in past => \E k \in Cuts(n) \ {0}, j \in (Cuts(n) \ {0}) \cup {n} :
                       w = [out |-> Prefix(c, k + j), ok |-> k + j = n]
    OBVIOUS
  <2>4. w \in whole => w = [out |-> b, ok |-> TRUE]
    OBVIOUS
  <2> HIDE DEF whole, part, past
  <2>5. w \in whole \/ w \in part \/ (~waits /\ w \in past)
    BY <2>1
  <2> QED
    BY <2>2, <2>3, <2>4, <2>5, Zenon
<1> HIDE DEF n, c
<1> QED
  BY <1>2, <1>3, <1>4, <1>5, Zenon

-----------------------------------------------------------------------------
(* The inductive invariant.                                                *)
Outgoing ==
  Requests \cup {ConnectPacket} \cup BarePackets({DISCONNECT}) \cup AckPackets({PUBACK, PUBREC})
Dropped == [type |-> 0]

WireTypes ==
  /\ waits \in BOOLEAN /\ ack_cut \in BOOLEAN
  /\ up \in Seq(Octet) /\ down \in Seq(Octet)
  /\ link \in {"closed", "waiting", "connected", "disconnected"}
  /\ sent \in Seq(Outgoing) /\ pushed \in Seq(Arrivals) /\ seen \in Seq(Arrivals \cup {Dropped})

(* The bytes of the packets sent, and no others while the client goes on.  *)
SentCarried == waits /\ ~ack_cut => Carried(up, sent, link \in {"waiting", "connected"})

NothingSent == link = "closed" => sent = <<>>

SeenRight ==
  /\ Len(seen) <= Len(pushed)
  /\ \A i \in 1 .. Len(seen) :
       seen[i] = IF Len(BrokerBytes(pushed[i])) > ReadBufLen THEN Dropped ELSE pushed[i]

(* The bytes of the packets not handled yet, until the client gives up.    *)
DownRight == link # "disconnected" => down = BrokerBytesOf(PacketsLeft(pushed, Len(seen)))

WireIInv == WireTypes /\ SentCarried /\ NothingSent /\ SeenRight /\ DownRight

(* A packet is put on the connection.                                      *)
LEMMA Sending ==
  ASSUME NEW p \in Outgoing, Writable(p), NEW w \in Writes(Serialize(p)),
         NEW u \in Seq(Octet), NEW s \in Seq(Outgoing)
  PROVE  /\ u \o w.out \in Seq(Octet) /\ Append(s, p) \in Seq(Outgoing) /\ w.ok \in BOOLEAN
         /\ w.out \in Seq(Octet)
         /\ waits /\ Carried(u, s, TRUE) =>
              /\ w.ok => Carried(u \o w.out, Append(s, p), TRUE)
              /\ w.ok => Carried(u \o w.out, Append(s, p), FALSE)
              /\ ~w.ok => Carried(u \o w.out, s, FALSE)
<1>1. Serialize(p) \in Seq(Octet)
  BY WritableRead
<1>2. w.out \in Seq(Octet) /\ w.ok \in BOOLEAN /\ (waits /\ w.ok => w.out = Serialize(p))
  BY <1>1, WriteBytes
<1>3. u \o w.out \in Seq(Octet) /\ Append(s, p) \in Seq(Outgoing)
  BY <1>2
<1>4. ASSUME waits, Carried(u, s, TRUE), w.ok
      PROVE  Carried(u \o w.out, Append(s, p), TRUE) /\ Carried(u \o w.out, Append(s, p), FALSE)
  <2>1. Carried(u \o Serialize(p), Append(s, p), TRUE)
    BY <1>4, CarriedMore
  <2>2. Carried(u \o w.out, Append(s, p), TRUE)
    BY <1>2, <1>4, <2>1
  <2> QED
    BY <2>2 DEF Carried
<1>5. ASSUME Carried(u, s, TRUE)
      PROVE  Carried(u \o w.out, s, FALSE)
  BY <1>2, <1>5, CarriedOn
<1> QED
  BY <1>2, <1>3, <1>4, <1>5

LEMMA ConnectKeeps ==
  ASSUME WireIInv, ClientConnects
  PROVE  WireIInv'
<1> USE DEF WireIInv
<1>1. PICK w \in Writes(Serialize(ConnectPacket)) :
        /\ up' = w.out
        /\ IF w.ok THEN link' = "waiting" /\ sent' = <<ConnectPacket>>
                   ELSE link' = "disconnected" /\ UNCHANGED sent
  BY DEF ClientConnects
<1>2. link = "closed" /\ sent = <<>> /\ UNCHANGED <<waits, down, ack_cut, pushed, seen>>
  BY DEF ClientConnects, NothingSent
<1>3. ConnectPacket \in Outgoing /\ Writable(ConnectPacket)
  BY RequestWritable DEF ClientConnects, Outgoing
<1>4. <<>> \in Seq(Octet) /\ <<>> \in Seq(Outgoing)
  OBVIOUS
<1>5. Carried(<<>>, <<>>, TRUE)
  BY <1>4, CarriedNone
<1>6. w.out \in Seq(Octet) /\ <<>> \o w.out = w.out /\ Append(<<>>, ConnectPacket) = <<ConnectPacket>>
  <2>1. w.out \in Seq(Octet)
    BY <1>3, <1>4, Sending
  <2> QED
    BY <2>1, ConcatEmptySeq
<1>7. /\ <<ConnectPacket>> \in Seq(Outgoing) /\ w.ok \in BOOLEAN
      /\ waits => /\ w.ok => Carried(w.out, <<ConnectPacket>>, TRUE)
                  /\ ~w.ok => Carried(w.out, <<>>, FALSE)
  <2>1. /\ Append(<<>>, ConnectPacket) \in Seq(Outgoing) /\ w.ok \in BOOLEAN
        /\ waits /\ Carried(<<>>, <<>>, TRUE) =>
             /\ w.ok => Carried(<<>> \o w.out, Append(<<>>, ConnectPacket), TRUE)
             /\ ~w.ok => Carried(<<>> \o w.out, <<>>, FALSE)
    BY <1>3, <1>4, Sending
  <2> QED
    BY <1>5, <1>6, <2>1
<1>8. CASE w.ok
  <2>1. link' = "waiting" /\ sent' = <<ConnectPacket>> /\ (link' \in {"waiting", "connected"}) = TRUE
    BY <1>1, <1>8
  <2>2. WireTypes'
    BY <1>1, <1>2, <1>6, <1>7, <2>1 DEF WireTypes
  <2>3. SentCarried'
    BY <1>1, <1>2, <1>7, <1>8, <2>1 DEF SentCarried
  <2> QED
    BY <1>2, <2>1, <2>2, <2>3 DEF NothingSent, SeenRight, DownRight
<1>9. CASE ~w.ok
  <2>1. link' = "disconnected" /\ sent' = sent /\ (link' \in {"waiting", "connected"}) = FALSE
    BY <1>1, <1>9
  <2>2. WireTypes'
    BY <1>1, <1>2, <1>6, <2>1 DEF WireTypes
  <2>3. SentCarried'
    BY <1>1, <1>2, <1>7, <1>9, <2>1 DEF SentCarried
  <2> QED
    BY <1>2, <2>1, <2>2, <2>3 DEF NothingSent, SeenRight, DownRight
<1> QED
  BY <1>7, <1>8, <1>9

LEMMA SendKeeps ==
  ASSUME WireIInv, NEW p \in Requests, ClientSends(p)
  PROVE  WireIInv'
<1> USE DEF WireIInv
<1>1. PICK w \in Writes(Serialize(p)) :
        /\ up' = up \o w.out
        /\ IF w.ok THEN sent' = Append(sent, p) /\ UNCHANGED link
                   ELSE link' = "disconnected" /\ UNCHANGED sent
  BY DEF ClientSends
<1>2. link = "connected" /\ UNCHANGED <<waits, down, ack_cut, pushed, seen>>
  BY DEF ClientSends
<1>3. p \in Outgoing /\ Writable(p)
  BY RequestWritable DEF ClientSends, Outgoing
<1>4. up \in Seq(Octet) /\ sent \in Seq(Outgoing)
  BY DEF WireTypes
<1>5. /\ up \o w.out \in Seq(Octet) /\ Append(sent, p) \in Seq(Outgoing) /\ w.ok \in BOOLEAN
      /\ waits /\ Carried(up, sent, TRUE) =>
           /\ w.ok => Carried(up \o w.out, Append(sent, p), TRUE)
           /\ ~w.ok => Carried(up \o w.out, sent, FALSE)
  BY <1>3, <1>4, Sending
<1>6. waits /\ ~ack_cut => Carried(up, sent, TRUE)
  <2>1. (link \in {"waiting", "connected"}) = TRUE
    BY <1>2
  <2> QED
    BY <2>1 DEF SentCarried
<1>7. CASE w.ok
  <2>1. link' = "connected" /\ sent' = Append(sent, p) /\ (link' \in {"waiting", "connected"}) = TRUE
    BY <1>1, <1>2, <1>7
  <2>2. WireTypes'
    BY <1>1, <1>2, <1>5, <2>1 DEF WireTypes
  <2>3. SentCarried'
    BY <1>1, <1>2, <1>5, <1>6, <1>7, <2>1 DEF SentCarried
  <2> QED
    BY <1>2, <2>1, <2>2, <2>3 DEF NothingSent, SeenRight, DownRight
<1>8. CASE ~w.ok
  <2>1. link' = "disconnected" /\ sent' = sent /\ (link' \in {"waiting", "connected"}) = FALSE
    BY <1>1, <1>8
  <2>2. WireTypes'
    BY <1>1, <1>2, <1>5, <2>1 DEF WireTypes
  <2>3. SentCarried'
    BY <1>1, <1>2, <1>5, <1>6, <1>8, <2>1 DEF SentCarried
  <2> QED
    BY <1>2, <2>1, <2>2, <2>3 DEF NothingSent, SeenRight, DownRight
<1> QED
  BY <1>5, <1>7, <1>8

LEMMA DisconnectKeeps ==
  ASSUME WireIInv, ClientDisconnects
  PROVE  WireIInv'
<1> USE DEF WireIInv
<1> DEFINE p == [type |-> DISCONNECT]
<1>1. PICK w \in Writes(Serialize(p)) :
        up' = up \o w.out /\ sent' = IF w.ok THEN Append(sent, p) ELSE sent
  BY DEF ClientDisconnects
<1>2. /\ link = "connected" /\ link' = "disconnected"
      /\ UNCHANGED <<waits, down, ack_cut, pushed, seen>>
  BY DEF ClientDisconnects
<1>3. p \in BarePackets({DISCONNECT}) /\ p \in BarePackets({PINGREQ, DISCONNECT})
  BY DEF BarePackets
<1> HIDE DEF p
<1>4. p \in Outgoing /\ Writable(p)
  BY <1>3, BareWritable DEF Outgoing
<1>5. up \in Seq(Octet) /\ sent \in Seq(Outgoing)
  BY DEF WireTypes
<1>6. /\ up \o w.out \in Seq(Octet) /\ Append(sent, p) \in Seq(Outgoing) /\ w.ok \in BOOLEAN
      /\ waits /\ Carried(up, sent, TRUE) =>
           /\ w.ok => Carried(up \o w.out, Append(sent, p), FALSE)
           /\ ~w.ok => Carried(up \o w.out, sent, FALSE)
  BY <1>4, <1>5, Sending
<1>7. waits /\ ~ack_cut => Carried(up, sent, TRUE)
  <2>1. (link \in {"waiting", "connected"}) = TRUE
    BY <1>2
  <2> QED
    BY <2>1 DEF SentCarried
<1>8. (link' \in {"waiting", "connected"}) = FALSE
  BY <1>2
<1>9. WireTypes'
  BY <1>1, <1>2, <1>5, <1>6 DEF WireTypes
<1>10. SentCarried'
  <2>1. CASE w.ok
    BY <1>1, <1>2, <1>6, <1>7, <1>8, <2>1 DEF SentCarried
  <2>2. CASE ~w.ok
    BY <1>1, <1>2, <1>6, <1>7, <1>8, <2>2 DEF SentCarried
  <2> QED
    BY <2>1, <2>2
<1> QED
  BY <1>2, <1>9, <1>10 DEF NothingSent, SeenRight, DownRight

LEMMA BrokerKeeps ==
  ASSUME WireIInv, NEW p \in Arrivals, BrokerSends(p)
  PROVE  WireIInv'
<1> USE DEF WireIInv
<1> DEFINE n == Len(pushed)
           j == Len(seen)
<1>1. /\ down' = down \o BrokerBytes(p) /\ pushed' = Append(pushed, p)
      /\ UNCHANGED <<waits, up, link, sent, ack_cut, seen>>
  BY DEF BrokerSends
<1>2. BrokerBytes(p) \in Seq(Octet)
  BY ArrivalReadable
<1>3. down \in Seq(Octet) /\ pushed \in Seq(Arrivals) /\ n \in Nat /\ j \in Nat /\ j <= n
  BY DEF WireTypes, SeenRight
<1>4. /\ pushed' \in Seq(Arrivals) /\ Len(pushed') = n + 1
      /\ \A i \in 1 .. n : pushed'[i] = pushed[i]
  BY <1>1, <1>3, AppendProperties
<1>5. down' \in Seq(Octet)
  BY <1>1, <1>2, <1>3
<1>6. WireTypes'
  BY <1>1, <1>4, <1>5 DEF WireTypes
<1>7. SeenRight'
  <2>1. ASSUME NEW i \in 1 .. j
        PROVE  seen[i] = IF Len(BrokerBytes(pushed'[i])) > ReadBufLen THEN Dropped ELSE pushed'[i]
    <3>1. i \in 1 .. n
      <4>1. i \in 1 .. j
        OBVIOUS
      <4> HIDE DEF n, j
      <4> QED
        BY <1>3, <4>1
    <3>2. pushed'[i] = pushed[i]
      BY <1>4, <3>1
    <3> QED
      BY <3>2 DEF SeenRight
  <2>2. j <= n + 1
    <3> HIDE DEF n, j
    <3> QED
      BY <1>3
  <2> QED
    BY <1>1, <1>4, <2>1, <2>2 DEF SeenRight
<1>8. DownRight'
  <2>1. j \in 0 .. n
    <3> HIDE DEF n, j
    <3> QED
      BY <1>3
  <2>2. PacketsLeft(pushed', j) = Append(PacketsLeft(pushed, j), p)
    BY <1>1, <1>3, <2>1, LeftMore
  <2>3. PacketsLeft(pushed, j) \in Seq(Arrivals)
    BY <1>3, <2>1, LeftItems
  <2>4. BrokerBytesOf(PacketsLeft(pushed', j)) = BrokerBytesOf(PacketsLeft(pushed, j)) \o BrokerBytes(p)
    BY <2>2, <2>3, FlowMore
  <2>5. ASSUME link # "disconnected" PROVE down' = BrokerBytesOf(PacketsLeft(pushed', j))
    <3>1. down = BrokerBytesOf(PacketsLeft(pushed, j))
      BY <2>5 DEF DownRight
    <3> QED
      BY <1>1, <2>4, <3>1
  <2> QED
    BY <1>1, <2>5 DEF DownRight
<1> QED
  BY <1>1, <1>6, <1>7, <1>8 DEF SentCarried, NothingSent

LEMMA CutShortKeeps ==
  ASSUME WireIInv, ReadCutShort
  PROVE  WireIInv'
<1> USE DEF WireIInv
<1> DEFINE n == PacketLen(down)
<1>1. PICK k \in Cuts(n) \ {0} : down' = SubSeq(down, k + 1, Len(down))
  BY DEF ReadCutShort, Unread
<1>2. /\ link \in {"waiting", "connected"} /\ down # <<>> /\ link' = "disconnected"
      /\ UNCHANGED <<waits, up, sent, ack_cut, pushed, seen>>
  BY DEF ReadCutShort, Reads
<1>3. down' \in Seq(Octet)
  <2>1. down = BrokerBytesOf(PacketsLeft(pushed, Len(seen)))
    BY <1>2 DEF DownRight
  <2>2. Len(seen) \in 0 .. Len(pushed) /\ pushed \in Seq(Arrivals) /\ down \in Seq(Octet)
    BY DEF WireTypes, SeenRight
  <2>3. n \in Nat \ {0}
    BY <1>2, <2>1, <2>2, NextArrival
  <2> DEFINE m == Len(down)
  <2>4. m \in Nat
    BY <2>2
  <2>5. k + 1 \in Int /\ m \in Int /\ \A i \in k + 1 .. m : i \in 1 .. m
    <3>1. k \in Nat /\ k < n
      BY CutBefore
    <3> HIDE DEF n, m
    <3> QED
      BY <2>4, <3>1
  <2>6. \A i \in k + 1 .. m : down[i] \in Octet
    BY <2>2, <2>5
  <2> HIDE DEF m
  <2>7. SubSeq(down, k + 1, m) \in Seq(Octet)
    BY <2>5, <2>6, SubSeqProperties
  <2> QED
    BY <1>1, <2>7 DEF m
<1>4. WireTypes'
  BY <1>2, <1>3 DEF WireTypes
<1>5. SentCarried'
  <2>1. (link \in {"waiting", "connected"}) = TRUE /\ (link' \in {"waiting", "connected"}) = FALSE
    BY <1>2
  <2>2. ASSUME waits, ~ack_cut PROVE Carried(up, sent, FALSE)
    <3>1. Carried(up, sent, TRUE)
      BY <2>1, <2>2 DEF SentCarried
    <3> QED
      BY <3>1 DEF Carried
  <2> QED
    BY <1>2, <2>1, <2>2 DEF SentCarried
<1> QED
  BY <1>2, <1>4, <1>5 DEF NothingSent, SeenRight, DownRight

(* The next packet m is handled, or dropped.                               *)
LEMMA OneMoreSeen ==
  ASSUME WireIInv, Reads, NEW m, seen' = Append(seen, m), UNCHANGED pushed,
         down' = Unread(PacketLen(down)),
         m = (IF TooLong THEN Dropped ELSE Deserialize(Prefix(down, PacketLen(down))))
  PROVE  /\ SeenRight' /\ down' = BrokerBytesOf(PacketsLeft(pushed', Len(seen'))) /\ down' \in Seq(Octet)
         /\ seen' \in Seq(Arrivals \cup {Dropped})
         /\ Deserialize(Prefix(down, PacketLen(down))) \in Arrivals
<1> USE DEF WireIInv
<1> DEFINE j == Len(seen)
           n == Len(pushed)
           p == pushed[j + 1]
<1>1. link # "disconnected" /\ down # <<>>
  BY DEF Reads
<1>2. down = BrokerBytesOf(PacketsLeft(pushed, j))
  BY <1>1 DEF DownRight
<1>3. /\ j \in Nat /\ n \in Nat /\ j <= n
      /\ pushed \in Seq(Arrivals) /\ seen \in Seq(Arrivals \cup {Dropped})
  BY DEF WireTypes, SeenRight
<1>4. j \in 0 .. n
  <2> HIDE DEF j, n
  <2> QED
    BY <1>3
<1>5. /\ p \in Arrivals /\ j + 1 \in 0 .. n
      /\ PacketLen(down) = Len(BrokerBytes(p))
      /\ Deserialize(SubSeq(down, 1, PacketLen(down))) = p
      /\ SubSeq(down, PacketLen(down) + 1, Len(down)) = BrokerBytesOf(PacketsLeft(pushed, j + 1))
  BY <1>1, <1>2, <1>3, <1>4, NextArrival
<1>6. TooLong <=> Len(BrokerBytes(p)) > ReadBufLen
  BY <1>5 DEF TooLong
<1>7. m = IF Len(BrokerBytes(p)) > ReadBufLen THEN Dropped ELSE p
  BY <1>5, <1>6 DEF Prefix
<1>8. m \in Arrivals \cup {Dropped} /\ Deserialize(Prefix(down, PacketLen(down))) \in Arrivals
  BY <1>5, <1>6, <1>7 DEF Prefix
<1>9. /\ seen' \in Seq(Arrivals \cup {Dropped}) /\ Len(seen') = j + 1 /\ seen'[j + 1] = m
      /\ \A i \in 1 .. j : seen'[i] = seen[i]
  BY <1>3, <1>8, AppendProperties
<1>10. down' = BrokerBytesOf(PacketsLeft(pushed', Len(seen')))
  BY <1>5, <1>9 DEF Unread
<1>11. down' \in Seq(Octet)
  <2>1. j + 1 \in 0 .. n /\ PacketsLeft(pushed, j + 1) \in Seq(Arrivals)
    BY <1>3, <1>5, LeftItems
  <2>2. PICK f : Flow(f, PacketsLeft(pushed, j + 1))
    BY <2>1, FlowExists
  <2>3. BrokerBytesOf(PacketsLeft(pushed, j + 1)) \in Seq(Octet)
    BY <2>1, <2>2, FlowOne
  <2> QED
    BY <1>9, <1>10, <2>3
<1>12. SeenRight'
  <2>1. ASSUME NEW i \in 1 .. j + 1
        PROVE  seen'[i] = IF Len(BrokerBytes(pushed[i])) > ReadBufLen THEN Dropped ELSE pushed[i]
    <3>1. CASE i = j + 1
      BY <1>7, <1>9, <3>1
    <3>2. CASE i # j + 1
      <4>1. i \in 1 .. j
        <5>1. i \in 1 .. j + 1
          OBVIOUS
        <5> HIDE DEF j
        <5> QED
          BY <1>3, <3>2, <5>1
      <4>2. seen[i] = IF Len(BrokerBytes(pushed[i])) > ReadBufLen THEN Dropped ELSE pushed[i]
        BY <4>1 DEF SeenRight
      <4> QED
        BY <1>9, <4>1, <4>2
    <3> QED
      BY <3>1, <3>2
  <2>2. j + 1 <= n
    <3> HIDE DEF j, n
    <3> QED
      BY <1>3, <1>5
  <2> QED
    BY <1>9, <2>1, <2>2 DEF SeenRight
<1> QED
  BY <1>8, <1>9, <1>10, <1>11, <1>12

(* The packet id of a PUBLISH of the broker has 16 bits.                   *)
LEMMA ArrivalId ==
  ASSUME NEW m \in Arrivals, m.type = PUBLISH
  PROVE  m.packetid \in 0 .. MaxUint16
<1>1. m \in PublishPackets \cup ConnackPackets \cup SubackPackets
            \cup AckPackets({PUBACK, UNSUBACK}) \cup BarePackets({PINGRESP})
  BY WireAssumption
<1>2. m \in PublishPackets
  BY <1>1 DEF ConnackPackets, SubackPackets, AckPackets, BarePackets,
              PUBLISH, CONNACK, SUBACK, PUBACK, UNSUBACK, PINGRESP
<1> QED
  BY <1>2 DEF PublishPackets

(* What Acknowledge writes.                                                *)
LEMMA AcknowledgeKeeps ==
  ASSUME WireIInv, link = "connected", NEW m, m.type = PUBLISH => m.packetid \in 0 .. MaxUint16,
         Acknowledge(m), UNCHANGED waits
  PROVE  /\ up' \in Seq(Octet) /\ sent' \in Seq(Outgoing) /\ ack_cut' \in BOOLEAN
         /\ waits' /\ ~ack_cut' => Carried(up', sent', TRUE)
<1> USE DEF WireIInv
<1>1. up \in Seq(Octet) /\ sent \in Seq(Outgoing) /\ ack_cut \in BOOLEAN
  BY DEF WireTypes
<1>2. waits /\ ~ack_cut => Carried(up, sent, TRUE)
  <2>1. (link \in {"waiting", "connected"}) = TRUE
    OBVIOUS
  <2> QED
    BY <2>1 DEF SentCarried
<1>3. CASE m.type = PUBLISH /\ m.qos > 0
  <2> DEFINE ack == [type |-> IF m.qos = 1 THEN PUBACK ELSE PUBREC, packetid |-> m.packetid]
  <2>1. PICK w \in Writes(Serialize(ack)) :
          /\ up' = up \o w.out
          /\ sent' = IF w.ok THEN Append(sent, ack) ELSE sent
          /\ ack_cut' = (ack_cut \/ ~w.ok)
    BY <1>3 DEF Acknowledge
  <2>3. m.packetid \in 0 .. MaxUint16
    BY <1>3
  <2>4. ack \in AckPackets({PUBACK, PUBREC})
    <3>1. (IF m.qos = 1 THEN PUBACK ELSE PUBREC) \in {PUBACK, PUBREC}
      OBVIOUS
    <3> QED
      BY <2>3, <3>1 DEF AckPackets
  <2> HIDE DEF ack
  <2>5. ack \in Outgoing /\ Writable(ack)
    BY <2>4, AckWritable DEF Outgoing
  <2>6. /\ up \o w.out \in Seq(Octet) /\ Append(sent, ack) \in Seq(Outgoing) /\ w.ok \in BOOLEAN
        /\ waits /\ Carried(up, sent, TRUE) =>
             (w.ok => Carried(up \o w.out, Append(sent, ack), TRUE))
    BY <1>1, <2>5, Sending
  <2>7. ASSUME waits', ~ack_cut' PROVE Carried(up', sent', TRUE)
    <3>1. waits /\ ~ack_cut /\ w.ok
      BY <2>1, <2>6, <2>7, Zenon
    <3> QED
      BY <1>2, <2>1, <2>6, <3>1
  <2>8. ack_cut' \in BOOLEAN
    BY <2>1, Zenon
  <2> QED
    BY <1>1, <2>1, <2>6, <2>7, <2>8
<1>4. CASE ~(m.type = PUBLISH /\ m.qos > 0)
  <2>1. UNCHANGED <<up, sent, ack_cut>>
    BY <1>4 DEF Acknowledge
  <2> QED
    BY <1>1, <1>2, <2>1
<1> QED
  BY <1>3, <1>4

LEMMA TooLongKeeps ==
  ASSUME WireIInv, ReadPacketTooLong
  PROVE  WireIInv'
<1> DEFINE front == Deserialize(Prefix(down, PacketLen(down)))
<1>1. /\ Reads /\ TooLong /\ seen' = Append(seen, Dropped) /\ down' = Unread(PacketLen(down))
      /\ \/ UNCHANGED <<up, sent, ack_cut>>
         \/ link = "connected" /\ \E m \in Truncated : Acknowledge(m)
      /\ UNCHANGED <<waits, link, pushed>>
  BY DEF ReadPacketTooLong, Dropped
<1>2. /\ SeenRight' /\ down' = BrokerBytesOf(PacketsLeft(pushed', Len(seen'))) /\ down' \in Seq(Octet)
      /\ seen' \in Seq(Arrivals \cup {Dropped}) /\ front \in Arrivals
  BY <1>1, OneMoreSeen
<1>3. /\ up' \in Seq(Octet) /\ sent' \in Seq(Outgoing) /\ ack_cut' \in BOOLEAN /\ SentCarried'
  <2>1. CASE UNCHANGED <<up, sent, ack_cut>>
    BY <1>1, <2>1 DEF WireIInv, WireTypes, SentCarried
  <2>2. ASSUME link = "connected", NEW m \in Truncated, Acknowledge(m)
        PROVE  up' \in Seq(Octet) /\ sent' \in Seq(Outgoing) /\ ack_cut' \in BOOLEAN /\ SentCarried'
    <3>1. m.packetid \in 0 .. MaxUint16
      <4>1. front.type = PUBLISH /\ (m.packetid = front.packetid \/ m.packetid \in StrayIds)
        BY DEF Truncated
      <4>2. StrayIds \subseteq 0 .. MaxUint16
        BY WireAssumption
      <4>3. front.packetid \in 0 .. MaxUint16
        BY <1>2, <4>1, ArrivalId
      <4> QED
        BY <4>1, <4>2, <4>3
    <3>2. /\ up' \in Seq(Octet) /\ sent' \in Seq(Outgoing) /\ ack_cut' \in BOOLEAN
          /\ waits' /\ ~ack_cut' => Carried(up', sent', TRUE)
      BY <1>1, <2>2, <3>1, AcknowledgeKeeps
    <3>3. (link' \in {"waiting", "connected"}) = TRUE
      BY <1>1, <2>2
    <3> QED
      BY <3>2, <3>3 DEF SentCarried
  <2> QED
    BY <1>1, <2>1, <2>2
<1>4. link # "closed"
  BY <1>1 DEF Reads
<1>5. WireTypes'
  BY <1>1, <1>2, <1>3 DEF WireIInv, WireTypes
<1>6. DownRight'
  BY <1>2 DEF DownRight
<1> QED
  BY <1>1, <1>2, <1>3, <1>4, <1>5, <1>6 DEF WireIInv, NothingSent

LEMMA WholeKeeps ==
  ASSUME WireIInv, ReadPacketWhole
  PROVE  WireIInv'
<1> DEFINE m == Deserialize(Prefix(down, PacketLen(down)))
<1>1. /\ Reads /\ ~TooLong /\ seen' = Append(seen, m) /\ down' = Unread(PacketLen(down))
      /\ link' = IF link = "waiting"
                   THEN IF m.type # CONNACK THEN link
                        ELSE IF m.code = 0 THEN "connected" ELSE "disconnected"
                   ELSE link
      /\ IF link = "connected" THEN Acknowledge(m) ELSE UNCHANGED <<up, sent, ack_cut>>
      /\ UNCHANGED <<waits, pushed>>
  BY DEF ReadPacketWhole
<1> HIDE DEF m
<1>2. /\ SeenRight' /\ down' = BrokerBytesOf(PacketsLeft(pushed', Len(seen'))) /\ down' \in Seq(Octet)
      /\ seen' \in Seq(Arrivals \cup {Dropped}) /\ m \in Arrivals
  BY <1>1, OneMoreSeen DEF m
<1>3. link \in {"waiting", "connected"} /\ link' \in {"waiting", "connected", "disconnected"}
  BY <1>1 DEF Reads
<1>4. /\ up' \in Seq(Octet) /\ sent' \in Seq(Outgoing) /\ ack_cut' \in BOOLEAN
      /\ waits' /\ ~ack_cut' => Carried(up', sent', TRUE)
  <2>1. CASE link = "connected"
    <3>1. m.type = PUBLISH => m.packetid \in 0 .. MaxUint16
      BY <1>2, ArrivalId
    <3> QED
      BY <1>1, <2>1, <3>1, AcknowledgeKeeps
  <2>2. CASE link # "connected"
    <3>1. UNCHANGED <<up, sent, ack_cut, waits>>
      BY <1>1, <2>2
    <3>2. (link \in {"waiting", "connected"}) = TRUE
      BY <1>3
    <3> QED
      BY <3>1, <3>2 DEF WireIInv, WireTypes, SentCarried
  <2> QED
    BY <2>1, <2>2
<1>5. WireTypes'
  BY <1>1, <1>2, <1>3, <1>4 DEF WireIInv, WireTypes
<1>6. SentCarried'
  <2>1. CASE link' \in {"waiting", "connected"}
    <3>1. (link' \in {"waiting", "connected"}) = TRUE
      BY <2>1
    <3> QED
      BY <1>4, <3>1 DEF SentCarried
  <2>2. CASE link' \notin {"waiting", "connected"}
    <3>1. (link' \in {"waiting", "connected"}) = FALSE
      BY <2>2
    <3>2. waits' /\ ~ack_cut' => Carried(up', sent', FALSE)
      BY <1>4 DEF Carried
    <3> QED
      BY <3>1, <3>2 DEF SentCarried
  <2> QED
    BY <2>1, <2>2
<1>7. DownRight'
  BY <1>2 DEF DownRight
<1> QED
  BY <1>2, <1>3, <1>5, <1>6, <1>7 DEF WireIInv, NothingSent

-----------------------------------------------------------------------------
LEMMA WireIInvInit == WireInit => WireIInv
<1> SUFFICES ASSUME WireInit PROVE WireIInv
  OBVIOUS
<1> USE DEF WireInit
<1>1. WireTypes
  <2>1. /\ <<>> \in Seq(Octet) /\ <<>> \in Seq(Outgoing) /\ <<>> \in Seq(Arrivals)
        /\ <<>> \in Seq(Arrivals \cup {Dropped})
    BY EmptySeq
  <2> QED
    BY <2>1 DEF WireTypes
<1>2. SentCarried
  <2>1. <<>> \in Seq(Octet)
    OBVIOUS
  <2>2. Carried(<<>>, <<>>, FALSE)
    BY <2>1, CarriedNone
  <2>3. (link \in {"waiting", "connected"}) = FALSE
    OBVIOUS
  <2> QED
    BY <2>2, <2>3 DEF SentCarried
<1>3. SeenRight
  BY DEF SeenRight
<1>4. DownRight
  <2>1. <<>> \in Seq(Arrivals) /\ Len(<<>>) = 0 /\ 0 \in 0 .. 0
    OBVIOUS
  <2>2. PacketsLeft(<<>>, 0) \in Seq(Arrivals) /\ Len(PacketsLeft(<<>>, 0)) = 0 - 0
    BY <2>1, LeftItems
  <2>3. PacketsLeft(<<>>, 0) = <<>>
    BY <2>2, EmptySeq
  <2>4. down = BrokerBytesOf(PacketsLeft(pushed, Len(seen)))
    BY <2>1, <2>3, FlowNone
  <2> QED
    BY <2>4 DEF DownRight
<1> QED
  BY <1>1, <1>2, <1>3, <1>4 DEF WireIInv, NothingSent

LEMMA WireIInvNext == WireIInv /\ [WireNext]_wireVars => WireIInv'
<1> SUFFICES ASSUME WireIInv, [WireNext]_wireVars PROVE WireIInv'
  OBVIOUS
<1>1. CASE ClientConnects
  BY <1>1, ConnectKeeps
<1>2. CASE ClientDisconnects
  BY <1>2, DisconnectKeeps
<1>3. ASSUME NEW p \in Requests, ClientSends(p) PROVE WireIInv'
  BY <1>3, SendKeeps
<1>4. ASSUME NEW p \in Arrivals, BrokerSends(p) PROVE WireIInv'
  BY <1>4, BrokerKeeps
<1>5. CASE ReadCutShort
  BY <1>5, CutShortKeeps
<1>6. CASE ReadPacketWhole
  BY <1>6, WholeKeeps
<1>7. CASE ReadPacketTooLong
  BY <1>7, TooLongKeeps
<1>8. CASE UNCHANGED wireVars
  BY <1>8 DEF wireVars, WireIInv, WireTypes, SentCarried, NothingSent, SeenRight, DownRight
<1> QED
  BY <1>1, <1>2, <1>3, <1>4, <1>5, <1>6, <1>7, <1>8 DEF WireNext

(* What the invariant says of both directions.                             *)
LEMMA WireIInvReads == WireIInv => WireTypeOK /\ ConnectionInStep
<1> SUFFICES ASSUME WireIInv PROVE WireTypeOK /\ ConnectionInStep
  OBVIOUS
<1> USE DEF WireIInv
<1>1. WireTypeOK
  BY DEF WireTypeOK, WireTypes, Octet
<1>2. ASSUME waits, ~ack_cut
      PROVE  /\ BrokerParses(up, Len(sent)).read = sent
             /\ link \in {"waiting", "connected"} => BrokerParses(up, Len(sent)).left = 0
  <2>1. up \in Seq(Octet) /\ sent \in Seq(Outgoing)
    BY DEF WireTypes
  <2>2. Carried(up, sent, link \in {"waiting", "connected"})
    BY <1>2 DEF SentCarried
  <2> QED
    BY <2>1, <2>2, CarriedParsed
<1>3. BrokerReadsWhatWasSent
  BY <1>2, RequestWritable DEF BrokerReadsWhatWasSent
<1>4. ClientStaysInStep
  BY DEF ClientStaysInStep, SeenRight, DownRight, PacketsLeft, Dropped
<1> QED
  BY <1>1, <1>3, <1>4 DEF ConnectionInStep

(* Each side reads the packets the other one has written, in order, with   *)
(* the fields they were given and nothing between them: the broker those   *)
(* of MQTTConnect, MQTTPublish, MQTTSubscribe, MQTTUnsubscribe, MQTTPuback,*)
(* MQTTKeepalive and MQTTDisconnect, the client those iotx_mc_read_packet  *)
(* takes off the connection, whole or dropped to their end.                *)
THEOREM ConnectionIsRead == WireSpec => []ConnectionInStep
<1>1. WireIInv => ConnectionInStep
  BY WireIInvReads
<1> QED
  BY WireIInvInit, WireIInvNext, <1>1, PTL DEF WireSpec

(* The bytes on the connection stay bytes, the states those of the client. *)
THEOREM WireTypeCorrect == WireSpec => []WireTypeOK
<1>1. WireIInv => WireTypeOK
  BY WireIInvReads
<1> QED
  BY WireIInvInit, WireIInvNext, <1>1, PTL DEF WireSpec

-----------------------------------------------------------------------------
(* Ota: as long as the server announces the length of the right file, the  *)
(* bytes in the buffer of the call and those that still come (data \o wire)*)
(* go on with the response at a place k, and k is what the lengths of the  *)
(* handle say: before the header, or retrieve_len bytes before the end.    *)
(* So the bytes copied out are the next of the file.                       *)

(* The server announces the length of the right file.                      *)
Announced == server.mode = "length" /\ server.good

(* What a response is made of.                                             *)
FileToken == {"http", "crlf", "content-length", "empty", "byte"} \X Int

(* Token i of the response of a server that announces the length n.        *)
ResponseToken(n, i) ==
  IF i = 1 THEN Tok("http", 0)
  ELSE IF i = 2 THEN Tok("crlf", 0)
  ELSE IF i = 3 THEN Tok("content-length", n)
  ELSE IF i = 4 THEN Tok("empty", 0)
  ELSE Tok("byte", i - 4)

(* s goes on with the response where its first k tokens end; what comes    *)
(* after the response is not said.                                         *)
Continues(s, n, k) ==
  /\ k + Len(s) >= 4 + n
  /\ \A i \in 1 .. Len(s) : k + i <= 4 + n => s[i] = ResponseToken(n, k + i)

(* Before the first call of ofc_Init.                                      *)
Unstarted ==
  /\ http = [handle |-> -1, is_more |-> FALSE, is_chunked |-> FALSE,
             retrieve_len |-> 0, response_content_len |-> 0]
  /\ wire = <<>> /\ call = NoCall /\ got = <<>>

(* The handle and the call, for a server that announces the length.        *)
HttpType == [handle : {-1, 1}, is_more : BOOLEAN, is_chunked : {FALSE},
             retrieve_len : Nat, response_content_len : Nat \cup {-1}]
CallType ==
  [pc : {"idle", "fetch", "rest", "first", "head", "copy", "back", "done", "freed"},
   diff : Int, data : Seq(FileToken), readLen : Nat, out : Seq(FileToken), ret : Int]

OtaStruct == [state : {"uninited", "inited", "fetched"},
              err : {"none", "fetch_failed", "check_failed"}, size_file : OtaSizes \cup {0}]

OtaTypes ==
  /\ server.n \in Nat
  /\ wire \in Seq(FileToken) /\ got \in Seq(FileToken)
  /\ http \in HttpType /\ call \in CallType

(* Between two calls: what has been got is what has been read of the       *)
(* response, and the connection goes on with the rest of it.               *)
Between(count) ==
  /\ http.response_content_len \in {0, server.n}
  /\ count = http.response_content_len - http.retrieve_len
  /\ IF http.is_more THEN http.handle = 1 /\ Continues(wire, server.n, 4 + server.n - http.retrieve_len)
     ELSE http.handle = -1 /\ http.retrieve_len = 0

(* Where a call is: about to receive the first bytes of a response, ...    *)
AtFirst ==
  call.pc = "first" =>
    /\ http.is_more /\ http.handle = 1 /\ http.retrieve_len = 0
    /\ http.response_content_len \in {0, server.n}
    /\ call.diff = http.response_content_len
    /\ Continues(wire, server.n, 0)

(* ... with what may be a part of its header, ...                          *)
AtHead ==
  call.pc = "head" =>
    /\ http.is_more /\ http.handle = 1 /\ call.diff \in {0, server.n}
    /\ Len(call.data) < HttpChunkSize
    /\ \E k \in 2 .. 3 :
         /\ Continues(call.data \o wire, server.n, k)
         /\ k = 3 => http.response_content_len = server.n /\ http.retrieve_len = server.n

(* (the bytes of the file before those in the buffer of the caller)        *)
OutFrom == http.response_content_len - http.retrieve_len - Len(call.out)

(* ... copying the content, ...                                            *)
AtCopy ==
  call.pc = "copy" =>
    /\ http.is_more /\ http.handle = 1 /\ call.readLen = http.retrieve_len
    /\ http.response_content_len \in {0, server.n}
    /\ Len(call.data) <= Free
    /\ Continues(call.data \o wire, server.n, 4 + server.n - call.readLen)
    /\ OutFrom = call.diff \/ (OutFrom = 0 /\ call.diff = server.n)
    /\ OutFrom >= 0
    /\ \A i \in 1 .. Len(call.out) : call.out[i] = Tok("byte", OutFrom + i)

(* ... and on the way back.                                                *)
AtBack ==
  call.pc = "back" /\ call.ret >= 0 =>
    /\ Between(Len(got) + call.ret)
    /\ call.ret <= Len(call.out)
    /\ \A i \in 1 .. call.ret : call.out[i] = Tok("byte", Len(got) + i)

(* diff, the bytes got before the call, are those the application has.     *)
Counted ==
  /\ call.pc = "fetch" => Between(Len(got))
  /\ call.pc = "rest" => Between(Len(got)) /\ http.is_more /\ call.data = <<>>
  /\ call.pc \in {"rest", "first", "head", "copy"} => call.diff = Len(got)

OtaAnnounced ==
  OtaTypes /\ OtaInOrder /\ Counted /\ AtFirst /\ AtHead /\ AtCopy /\ AtBack

OtaIInv ==
  /\ ota \in OtaStruct
  /\ ota.state = "uninited" => Unstarted
  /\ Announced => OtaAnnounced

(* The first n of a sequence, and the rest of it.                          *)
LEMMA Taken ==
  ASSUME NEW T, NEW w \in Seq(T), NEW n \in 0 .. Len(w)
  PROVE  /\ SubSeq(w, 1, n) \in Seq(T) /\ Rest(w, n) \in Seq(T)
         /\ Len(SubSeq(w, 1, n)) = n /\ Len(Rest(w, n)) = Len(w) - n
         /\ \A i \in 1 .. n : SubSeq(w, 1, n)[i] = w[i]
         /\ \A i \in 1 .. Len(w) - n : Rest(w, n)[i] = w[n + i]
BY DEF Rest

(* A function on 1 .. n is a sequence of length n.                         *)
LEMMA FunctionIsSeq ==
  ASSUME NEW T, NEW n \in Nat, NEW f \in [1 .. n -> T]
  PROVE  f \in Seq(T) /\ Len(f) = n
<1>1. f \in Seq(T)
  BY SeqDef
<1>2. Len(f) \in Nat /\ 1 .. Len(f) = 1 .. n
  BY <1>1, LenProperties
<1>3. Len(f) = n
  BY <1>2
<1> QED
  BY <1>1, <1>3

(* Bytes moved from the connection to the end of the buffer.               *)
LEMMA StreamKept ==
  ASSUME NEW T, NEW data \in Seq(T), NEW w \in Seq(T), NEW n \in 0 .. Len(w)
  PROVE  (data \o SubSeq(w, 1, n)) \o Rest(w, n) = data \o w
<1>1. SubSeq(w, 1, n) \in Seq(T) /\ Rest(w, n) \in Seq(T)
  BY Taken
<1>2. SubSeq(w, 1, n) \o Rest(w, n) = w
  <2>1. SubSeq(w, 1, n) \o SubSeq(w, n + 1, Len(w)) = SubSeq(w, 1, Len(w))
    <3>1. 1 \in 1 .. Len(w) + 1 /\ n \in 1 - 1 .. Len(w) /\ Len(w) \in n .. Len(w)
      BY LenProperties
    <3> QED
      BY <3>1, ConcatAdjacentSubSeq
  <2> QED
    BY <2>1, SubSeqFull DEF Rest
<1> DEFINE s == SubSeq(w, 1, n)
           r == Rest(w, n)
<1> HIDE DEF s, r
<1>3. s \in Seq(T) /\ r \in Seq(T)
  BY <1>1 DEF s, r
<1>4. (data \o s) \o r = data \o (s \o r)
  BY <1>3, ConcatAssociative
<1> QED
  BY <1>2, <1>4 DEF s, r

(* Bytes taken off a buffer are taken off all that is still to come.       *)
LEMMA RestOfJoin ==
  ASSUME NEW T, NEW s \in Seq(T), NEW w \in Seq(T), NEW m \in 0 .. Len(s)
  PROVE  Rest(s, m) \o w = Rest(s \o w, m)
<1> DEFINE r == Rest(s, m)
           joined == s \o w
           all == Rest(joined, m)
<1>1. /\ r \in Seq(T) /\ Len(r) = Len(s) - m
      /\ \A i \in 1 .. Len(s) - m : r[i] = s[m + i]
  BY Taken
<1>2. /\ joined \in Seq(T) /\ Len(joined) = Len(s) + Len(w)
      /\ \A i \in 1 .. Len(s) + Len(w) :
           joined[i] = IF i <= Len(s) THEN s[i] ELSE w[i - Len(s)]
  BY ConcatProperties
<1> HIDE DEF joined
<1>3. /\ all \in Seq(T) /\ Len(all) = Len(s) + Len(w) - m
      /\ \A i \in 1 .. Len(s) + Len(w) - m : all[i] = joined[m + i]
  <2>1. m \in 0 .. Len(joined)
    BY <1>2, LenProperties
  <2>2. /\ all \in Seq(T) /\ Len(all) = Len(joined) - m
        /\ \A i \in 1 .. Len(joined) - m : all[i] = joined[m + i]
    BY <1>2, <2>1, Taken, Zenon
  <2> HIDE DEF all
  <2> QED
    BY <1>2, <2>2
<1> HIDE DEF r, all
<1>4. /\ r \o w \in Seq(T) /\ Len(r \o w) = Len(r) + Len(w)
      /\ \A i \in 1 .. Len(r) + Len(w) :
           (r \o w)[i] = IF i <= Len(r) THEN r[i] ELSE w[i - Len(r)]
  BY <1>1, ConcatProperties
<1>5. Len(s) \in Nat /\ Len(w) \in Nat
  BY LenProperties
<1>6. Len(r \o w) = Len(all)
  BY <1>1, <1>3, <1>4, <1>5
<1>7. ASSUME NEW i \in 1 .. Len(all) PROVE (r \o w)[i] = all[i]
  <2>1. i \in 1 .. Len(s) + Len(w) - m /\ m + i \in 1 .. Len(s) + Len(w)
    BY <1>3, <1>5
  <2>2. all[i] = IF m + i <= Len(s) THEN s[m + i] ELSE w[m + i - Len(s)]
    BY <1>2, <1>3, <2>1
  <2>3. CASE m + i <= Len(s)
    BY <1>1, <1>4, <1>5, <2>1, <2>2, <2>3
  <2>4. CASE m + i > Len(s)
    <3>1. i - Len(r) = m + i - Len(s) /\ ~(i <= Len(r))
      BY <1>1, <1>5, <2>4
    <3> QED
      BY <1>1, <1>4, <1>5, <2>1, <2>2, <2>4, <3>1
  <2>5. m + i <= Len(s) \/ m + i > Len(s)
    BY <1>5, <2>1
  <2> QED
    BY <2>3, <2>4, <2>5
<1>8. r \o w = all
  BY <1>3, <1>4, <1>6, <1>7, SeqEqual
<1> QED
  BY <1>8 DEF r, all, joined

(* A stream that goes on with the response does so m tokens further on.    *)
LEMMA Shorter ==
  ASSUME NEW n \in Nat, NEW T, NEW s \in Seq(T), NEW k \in Nat, NEW m \in 0 .. Len(s),
         Continues(s, n, k)
  PROVE  Continues(Rest(s, m), n, k + m)
<1>1. /\ Rest(s, m) \in Seq(T) /\ Len(Rest(s, m)) = Len(s) - m
      /\ \A i \in 1 .. Len(s) - m : Rest(s, m)[i] = s[m + i]
  BY Taken
<1> DEFINE r == Rest(s, m)
<1> HIDE DEF r
<1>2. ASSUME NEW i \in 1 .. Len(r), k + m + i <= 4 + n
      PROVE  r[i] = ResponseToken(n, k + m + i)
  <2>1. m + i \in 1 .. Len(s) /\ r[i] = s[m + i] /\ k + (m + i) = k + m + i
    BY <1>1 DEF r
  <2> QED
    BY <1>2, <2>1 DEF Continues
<1>3. k + m + Len(r) >= 4 + n
  BY <1>1 DEF Continues, r
<1>4. Continues(r, n, k + m)
  BY <1>2, <1>3 DEF Continues
<1> QED
  BY <1>4 DEF r

(* So does a stream that has more behind it, and the end of one.           *)
LEMMA Longer ==
  ASSUME NEW n \in Nat, NEW T, NEW s \in Seq(T), NEW w \in Seq(T), NEW k \in Nat,
         Continues(s, n, k)
  PROVE  Continues(s \o w, n, k)
<1>1. Len(s \o w) = Len(s) + Len(w) /\ \A i \in 1 .. Len(s) : (s \o w)[i] = s[i]
  OBVIOUS
<1>2. Len(s) \in Nat /\ Len(w) \in Nat
  BY LenProperties
<1>3. ASSUME NEW i \in 1 .. Len(s \o w), k + i <= 4 + n
      PROVE  (s \o w)[i] = ResponseToken(n, k + i)
  <2>1. i \in 1 .. Len(s)
    BY <1>1, <1>2, <1>3 DEF Continues
  <2> QED
    BY <1>1, <1>3, <2>1 DEF Continues
<1>4. k + Len(s \o w) >= 4 + n
  BY <1>1, <1>2 DEF Continues
<1> QED
  BY <1>3, <1>4 DEF Continues

(* What comes behind a buffer of a stream that goes on with the response.  *)
LEMMA EndContinues ==
  ASSUME NEW n \in Nat, NEW T, NEW s \in Seq(T), NEW w \in Seq(T), NEW k \in Nat,
         Continues(s \o w, n, k)
  PROVE  /\ Continues(w, n, k + Len(s))
         /\ \A i \in 1 .. Len(s) : k + i <= 4 + n => s[i] = ResponseToken(n, k + i)
<1>1. \A i \in 1 .. Len(s) : k + i <= 4 + n => s[i] = ResponseToken(n, k + i)
  BY DEF Continues
<1>2. ASSUME NEW i \in 1 .. Len(w), k + Len(s) + i <= 4 + n
      PROVE  w[i] = ResponseToken(n, k + Len(s) + i)
  <2>1. Len(s) + i \in 1 .. Len(s \o w) /\ (s \o w)[Len(s) + i] = w[i]
    OBVIOUS
  <2>2. k + (Len(s) + i) = k + Len(s) + i
    OBVIOUS
  <2> QED
    BY <1>2, <2>1, <2>2 DEF Continues
<1>3. k + Len(s) + Len(w) >= 4 + n
  BY DEF Continues
<1> QED
  BY <1>1, <1>2, <1>3 DEF Continues

(* A request brings the whole response.                                    *)
LEMMA TheResponse ==
  ASSUME Announced, server.n \in Nat
  PROVE  /\ Response(server) \in Seq(FileToken)
         /\ Continues(Response(server), server.n, 0)
<1> DEFINE front == <<Tok("http", 0), Tok("crlf", 0)>>
           head == <<Tok("content-length", server.n), Tok("empty", 0)>>
           content == Content(server)
<1>1. Response(server) = front \o (head \o content)
  BY Zenon DEF Response, Announced
<1>2. front \in Seq(FileToken) /\ Len(front) = 2
      /\ front[1] = Tok("http", 0) /\ front[2] = Tok("crlf", 0)
  <2>1. Tok("http", 0) \in FileToken /\ Tok("crlf", 0) \in FileToken
    BY DEF Tok, FileToken
  <2> QED
    BY <2>1
<1>3. head \in Seq(FileToken) /\ Len(head) = 2
      /\ head[1] = Tok("content-length", server.n) /\ head[2] = Tok("empty", 0)
  <2>1. Tok("content-length", server.n) \in FileToken /\ Tok("empty", 0) \in FileToken
    BY DEF Tok, FileToken
  <2> QED
    BY <2>1
<1>4. content \in Seq(FileToken) /\ Len(content) = server.n
      /\ \A i \in 1 .. server.n : content[i] = Tok("byte", i)
  <2>1. content = [i \in 1 .. server.n |-> Tok("byte", i)]
    BY DEF Content, Announced
  <2>2. \A i \in 1 .. server.n : Tok("byte", i) \in FileToken
    BY DEF Tok, FileToken
  <2>3. content \in [1 .. server.n -> FileToken]
    BY <2>1, <2>2
  <2> HIDE DEF content
  <2> QED
    BY <2>1, <2>3, FunctionIsSeq
<1> DEFINE more == head \o content
           all == front \o more
<1> HIDE DEF front, head, content
<1>5. /\ more \in Seq(FileToken)
      /\ Len(more) = Len(head) + Len(content)
      /\ \A i \in 1 .. Len(head) + Len(content) :
           more[i] = IF i <= Len(head) THEN head[i] ELSE content[i - Len(head)]
  BY <1>3, <1>4, ConcatProperties, Zenon
<1> HIDE DEF more
<1>a. more \in Seq(FileToken)
  BY <1>5
<1>6. /\ all \in Seq(FileToken)
      /\ Len(all) = Len(front) + Len(more)
      /\ \A i \in 1 .. Len(front) + Len(more) :
           all[i] = IF i <= Len(front) THEN front[i] ELSE more[i - Len(front)]
  BY <1>2, <1>a, ConcatProperties
<1> HIDE DEF all
<1>7. Len(more) = 2 + server.n /\ Len(all) = 4 + server.n
  BY <1>2, <1>3, <1>4, <1>5, <1>6
<1>8. ASSUME NEW i \in 1 .. 4 + server.n
      PROVE  all[i] = ResponseToken(server.n, i)
  <2>1. CASE i = 1 \/ i = 2
    BY <2>1, <1>2, <1>6, <1>7 DEF ResponseToken
  <2>2. CASE i > 2
    <3>1. all[i] = more[i - 2]
      <4>1. i \in 1 .. Len(front) + Len(more) /\ ~(i <= Len(front)) /\ i - Len(front) = i - 2
        BY <2>2, <1>2, <1>7
      <4> QED
        BY <4>1, <1>6
    <3>2. CASE i = 3 \/ i = 4
      <4>1. i - 2 \in 1 .. Len(head) + Len(content) /\ i - 2 <= Len(head)
        BY <3>2, <1>2, <1>3, <1>4
      <4>2. more[i - 2] = head[i - 2]
        BY <4>1, <1>5
      <4>3. (i = 3 => i - 2 = 1) /\ (i = 4 => i - 2 = 2)
        OBVIOUS
      <4>4. i = 3 => all[i] = Tok("content-length", server.n)
        BY <3>1, <4>2, <4>3, <1>3
      <4>5. i = 4 => all[i] = Tok("empty", 0)
        BY <3>1, <4>2, <4>3, <1>3
      <4> QED
        BY <3>2, <4>4, <4>5 DEF ResponseToken
    <3>3. CASE i > 4
      <4>1. i - 2 \in 1 .. Len(head) + Len(content) /\ ~(i - 2 <= Len(head))
            /\ i - 2 - Len(head) = i - 4
        BY <3>3, <1>2, <1>3, <1>4
      <4>2. more[i - 2] = content[i - 4]
        BY <4>1, <1>5
      <4>3. content[i - 4] = Tok("byte", i - 4)
        BY <3>3, <1>2, <1>4
      <4>4. i # 1 /\ i # 2 /\ i # 3 /\ i # 4
        BY <3>3
      <4> QED
        BY <3>1, <4>2, <4>3, <4>4 DEF ResponseToken
    <3> QED
      BY <2>2, <3>2, <3>3
  <2> QED
    BY <2>1, <2>2
<1>9. Continues(all, server.n, 0)
  BY <1>7, <1>8 DEF Continues
<1> QED
  BY <1>1, <1>6, <1>9 DEF all, more

-----------------------------------------------------------------------------
(* What the ends of the steps have in common.                              *)

(* The step of call to where it goes back with an error or a result.       *)
LEMMA CallGoesBack ==
  ASSUME call \in CallType, NEW out \in Seq(FileToken), NEW ret \in Int,
         call' = [call EXCEPT !.pc = "back", !.out = out, !.data = <<>>, !.ret = ret]
  PROVE  /\ call' \in CallType /\ call'.pc = "back"
         /\ call'.out = out /\ call'.ret = ret /\ call'.diff = call.diff
<1>1. <<>> \in Seq(FileToken)
  BY EmptySeq
<1> QED
  BY <1>1 DEF CallType

(* A call fails, returns what it copied, or starts to copy.                *)
LEMMA FailKeeps ==
  ASSUME OtaAnnounced, Fail, UNCHANGED <<server, ota, got>>
  PROVE  OtaAnnounced'
<1>1. OtaTypes'
  <2>1. wire' \in Seq(FileToken)
    BY DEF Fail
  <2>2. http \in HttpType /\ call \in CallType
    BY DEF OtaAnnounced, OtaTypes
  <2>3. http' \in HttpType
    BY <2>2 DEF Fail, HttpType
  <2>5. <<>> \in Seq(FileToken)
    BY EmptySeq
  <2>6. -1 \in Int /\ call' = [call EXCEPT !.pc = "back", !.ret = -1, !.data = <<>>]
    BY DEF Fail
  <2>4. call' \in CallType
    BY <2>2, <2>5, <2>6 DEF CallType
  <2> QED
    BY <2>1, <2>3, <2>4 DEF OtaAnnounced, OtaTypes
<1>2. call'.pc = "back" /\ call'.ret = -1
  BY DEF OtaAnnounced, OtaTypes, CallType, Fail
<1>3. OtaInOrder'
  BY DEF OtaAnnounced, OtaInOrder
<1> QED
  BY <1>1, <1>2, <1>3 DEF OtaAnnounced, Counted, AtFirst, AtHead, AtCopy, AtBack

LEMMA ReturnKeeps ==
  ASSUME OtaAnnounced, UNCHANGED <<server, ota, got>>, wire' \in Seq(FileToken),
         NEW h \in HttpType, NEW out \in Seq(FileToken), Return(h, out),
         NEW from \in Nat, from = h.response_content_len - h.retrieve_len - Len(out),
         call.diff = Len(got),
         from = call.diff \/ (from = 0 /\ call.diff = server.n),
         \A i \in 1 .. Len(out) : out[i] = Tok("byte", from + i),
         h.handle = 1, h.response_content_len \in {0, server.n},
         IF h.is_more THEN Continues(wire', server.n, 4 + server.n - h.retrieve_len)
         ELSE h.retrieve_len = 0
  PROVE  OtaAnnounced'
<1>1. /\ call' = [call EXCEPT !.pc = "back", !.out = out, !.data = <<>>,
                    !.ret = h.response_content_len - h.retrieve_len - call.diff]
      /\ http' = IF h.is_more THEN h ELSE [h EXCEPT !.handle = -1]
  BY DEF Return
<1>2. OtaTypes'
  <2>1. call \in CallType /\ Len(got) \in Nat
    BY DEF OtaAnnounced, OtaTypes
  <2>2. h.response_content_len - h.retrieve_len - call.diff \in Int
    BY <2>1 DEF HttpType
  <2>3. call' \in CallType
    BY <1>1, <2>1, <2>2, CallGoesBack
  <2>4. http' \in HttpType
    BY <1>1 DEF HttpType
  <2> QED
    BY <2>3, <2>4 DEF OtaAnnounced, OtaTypes
<1>3. /\ call'.pc = "back" /\ call'.out = out
      /\ call'.ret = from + Len(out) - Len(got)
  <2> DEFINE kept == h.response_content_len
             rest == h.retrieve_len
             len == Len(out)
             before == Len(got)
  <2>1. call \in CallType /\ before \in Nat /\ len \in Nat /\ kept \in Int /\ rest \in Nat
    BY DEF OtaAnnounced, OtaTypes, HttpType
  <2> DEFINE ret == kept - rest - before
  <2>2. call'.pc = "back" /\ call'.out = out /\ call'.ret = ret
    <3>1. call' = [call EXCEPT !.pc = "back", !.out = out, !.data = <<>>, !.ret = ret]
      BY <1>1
    <3> HIDE DEF ret, kept, rest, before
    <3>2. call'.pc = "back" /\ call'.out = out /\ call'.ret = ret
      BY <2>1, <3>1 DEF CallType
    <3> QED
      BY <3>2 DEF ret
  <2>3. from = kept - rest - len
    OBVIOUS
  <2> HIDE DEF kept, rest, len, before
  <2>4. ret = from + len - before
    BY <2>1, <2>3
  <2> HIDE DEF ret
  <2> QED
    BY <2>2, <2>4 DEF len, before
<1>4. /\ http'.response_content_len = h.response_content_len
      /\ http'.retrieve_len = h.retrieve_len /\ http'.is_more = h.is_more
      /\ http'.handle = IF h.is_more THEN 1 ELSE -1
  BY <1>1 DEF HttpType
<1>5. server.n \in Nat /\ Len(got) \in Nat /\ Len(out) \in Nat
      /\ h.response_content_len \in Nat /\ h.retrieve_len \in Nat
  BY DEF OtaAnnounced, OtaTypes, HttpType
<1>6. AtBack'
  <2>1. SUFFICES ASSUME call'.ret >= 0
                 PROVE  /\ Between(Len(got) + call.ret)'
                        /\ call'.ret <= Len(out)
                        /\ \A i \in 1 .. call'.ret : out[i] = Tok("byte", Len(got) + i)
    BY <1>3 DEF AtBack
  <2>2. h.response_content_len - h.retrieve_len = Len(got) + call'.ret
    BY <1>3, <1>5
  <2>3. Between(Len(got) + call.ret)'
    BY <1>4, <2>2 DEF Between
  <2>4. CASE from = Len(got)
    <3>1. call'.ret = Len(out)
      <4> DEFINE ret == call'.ret
                 len == Len(out)
                 before == Len(got)
      <4>1. ret = from + len - before /\ from = before /\ len \in Nat /\ before \in Nat
        BY <1>3, <1>5, <2>4
      <4> HIDE DEF ret, len, before
      <4>2. ret = len
        BY <4>1
      <4> QED
        BY <4>2 DEF ret, len
    <3>2. \A i \in 1 .. Len(out) : out[i] = Tok("byte", Len(got) + i)
      BY <2>4
    <3>3. call'.ret <= Len(out)
      BY <1>5, <3>1
    <3> QED
      BY <2>3, <3>1, <3>2, <3>3
  <2>5. CASE from = 0 /\ Len(got) = server.n
    <3>1. Len(out) <= server.n
      BY <1>5, <2>5
    <3>2. call'.ret = 0
      BY <1>3, <1>5, <2>1, <2>5, <3>1
    <3> QED
      BY <1>5, <2>3, <3>2
  <2> QED
    BY <2>4, <2>5
<1>7. OtaInOrder'
  BY DEF OtaAnnounced, OtaInOrder
<1> QED
  BY <1>2, <1>3, <1>6, <1>7 DEF OtaAnnounced, Counted, AtFirst, AtHead, AtCopy

LEMMA RetrieveKeeps ==
  ASSUME OtaAnnounced, UNCHANGED <<server, ota, got>>, wire' \in Seq(FileToken),
         NEW h \in HttpType, NEW data \in Seq(FileToken), RetrieveContent(h, data),
         h.handle = 1, h.response_content_len \in {0, server.n},
         h.retrieve_len <= h.response_content_len, call.diff = Len(got),
         \/ h.response_content_len - h.retrieve_len = call.diff
         \/ h.response_content_len = h.retrieve_len /\ call.diff = server.n,
         Len(data) < RespBufLen,
         Continues(data \o wire', server.n, 4 + server.n - h.retrieve_len)
  PROVE  OtaAnnounced'
<1>1. server.n \in Nat /\ h.response_content_len \in Nat /\ h.retrieve_len \in Nat
      /\ h.response_content_len # -1 /\ RespBufLen \in Nat
  BY OtaAssumption DEF OtaAnnounced, OtaTypes, HttpType
<1>a. h.is_chunked = FALSE
  BY DEF HttpType
<1>2. /\ http' = [h EXCEPT !.is_more = TRUE]
      /\ call' = [call EXCEPT !.data = data, !.out = <<>>, !.readLen = h.retrieve_len,
                    !.pc = "copy"]
  BY <1>1, <1>a DEF RetrieveContent
<1>3. OtaTypes'
  <2>1. call \in CallType
    BY DEF OtaAnnounced, OtaTypes
  <2>2. call' \in CallType
    BY <1>1, <1>2, <2>1, EmptySeq DEF CallType
  <2>3. http' \in HttpType
    BY <1>2 DEF HttpType
  <2> QED
    BY <2>2, <2>3 DEF OtaAnnounced, OtaTypes
<1>4. /\ call'.pc = "copy" /\ call'.data = data /\ call'.out = <<>>
      /\ call'.readLen = h.retrieve_len /\ call'.diff = call.diff
  BY <1>2 DEF OtaAnnounced, OtaTypes, CallType
<1>5. /\ http'.is_more /\ http'.handle = 1 /\ http'.retrieve_len = h.retrieve_len
      /\ http'.response_content_len = h.response_content_len
  BY <1>2 DEF HttpType
<1>6. OutFrom' = h.response_content_len - h.retrieve_len /\ Free' = RespBufLen - 1
  BY <1>1, <1>4, <1>5 DEF OutFrom, Free
<1>7. AtCopy'
  BY <1>1, <1>4, <1>5, <1>6 DEF AtCopy
<1>8. OtaInOrder'
  BY DEF OtaAnnounced, OtaInOrder
<1> QED
  BY <1>3, <1>4, <1>7, <1>8 DEF OtaAnnounced, Counted, AtFirst, AtHead, AtBack

-----------------------------------------------------------------------------
(* The steps, for a server that announces the length of the right file.    *)

LEMMA StartKeeps ==
  ASSUME NEW size \in OtaSizes, NEW s \in OtaServers, OtaStart(size, s), Unstarted, ota \in OtaStruct
  PROVE  OtaIInv'
<1>1. /\ wire' = <<>> /\ got' = <<>>
      /\ http' = [handle |-> -1, is_more |-> FALSE, is_chunked |-> FALSE,
                  retrieve_len |-> 0, response_content_len |-> 0]
      /\ call' = [NoCall EXCEPT !.pc = "fetch"] /\ server' = s /\ server'.n \in Nat
  BY OtaAssumption DEF OtaStart, Unstarted
<1>2. ota'.state # "uninited" /\ ota' \in OtaStruct
  BY DEF OtaStart, OtaStruct
<1>3. OtaTypes'
  <2>1. <<>> \in Seq(FileToken)
    BY EmptySeq
  <2>2. http' \in HttpType
    BY <1>1 DEF HttpType
  <2>3. call' = [pc |-> "fetch", diff |-> 0, data |-> <<>>, readLen |-> 0, out |-> <<>>,
                 ret |-> 0]
    BY <1>1 DEF NoCall
  <2>4. call' \in CallType
    BY <2>1, <2>3 DEF CallType
  <2> QED
    BY <1>1, <2>1, <2>2, <2>4 DEF OtaTypes
<1>4. OtaInOrder'
  BY <1>1 DEF OtaInOrder
<1>5. call'.pc = "fetch"
  BY <1>1 DEF NoCall
<1>6. Counted'
  BY <1>1, <1>5 DEF Counted, Between
<1> QED
  BY <1>2, <1>3, <1>4, <1>5, <1>6 DEF OtaIInv, OtaAnnounced, AtFirst, AtHead, AtCopy, AtBack

LEMMA RequestKeeps ==
  ASSUME OtaAnnounced, Announced, OtaRequest
  PROVE  OtaAnnounced'
<1>1. CASE Fail /\ UNCHANGED <<server, ota, got>>
  BY <1>1, FailKeeps
<1>2. CASE ~Fail
  <2> DEFINE before == IF http.handle < 0 THEN <<>> ELSE wire
  <2>1. call.pc = "fetch" /\ UNCHANGED <<server, ota, got>>
    BY <1>2 DEF OtaRequest
  <2>2. /\ wire' = IF Len(before) >= OtaMaxWire THEN before ELSE before \o Response(server)
        /\ http' = IF http.is_more THEN [http EXCEPT !.handle = 1]
                   ELSE [http EXCEPT !.handle = 1, !.is_more = TRUE]
        /\ call' = [NoCall EXCEPT !.diff = http.response_content_len - http.retrieve_len,
                                  !.pc = IF http.is_more THEN "rest" ELSE "first"]
    BY <1>2 DEF OtaRequest, NoCall
  <2>3. /\ server.n \in Nat /\ http \in HttpType /\ wire \in Seq(FileToken)
        /\ Between(Len(got)) /\ Len(got) \in Nat
    BY <2>1 DEF OtaAnnounced, OtaTypes, Counted
  <2>4. /\ Response(server) \in Seq(FileToken)
        /\ Continues(Response(server), server.n, 0)
    BY <2>3, TheResponse
  <2>5. before \in Seq(FileToken) /\ <<>> \in Seq(FileToken)
    BY <2>3, EmptySeq
  <2>6. wire' \in Seq(FileToken)
    BY <2>2, <2>4, <2>5, ConcatProperties
  <2>7. http' \in HttpType /\ http'.handle = 1 /\ http'.is_more
        /\ http'.retrieve_len = http.retrieve_len
        /\ http'.response_content_len = http.response_content_len
    BY <2>2, <2>3 DEF HttpType
  <2>8. call' \in CallType /\ call'.data = <<>> /\ call'.diff = Len(got)
        /\ call'.pc = IF http.is_more THEN "rest" ELSE "first"
    <3>1. http.response_content_len - http.retrieve_len = Len(got)
      BY <2>3 DEF Between
    <3>2. call' = [pc |-> IF http.is_more THEN "rest" ELSE "first", diff |-> Len(got),
                   data |-> <<>>, readLen |-> 0, out |-> <<>>, ret |-> 0]
      BY <2>2, <3>1 DEF NoCall
    <3> QED
      BY <2>3, <2>5, <3>2 DEF CallType
  <2>9. OtaTypes' /\ OtaInOrder'
    BY <2>1, <2>3, <2>6, <2>7, <2>8 DEF OtaAnnounced, OtaTypes, OtaInOrder
  <2>10. CASE http.is_more
    <3>1. before = wire
      BY <2>3, <2>10 DEF Between
    <3>2. Continues(wire, server.n, 4 + server.n - http.retrieve_len)
      BY <2>3, <2>10 DEF Between
    <3>3. Continues(wire', server.n, 4 + server.n - http.retrieve_len)
      <4>1. 4 + server.n - http.retrieve_len \in Nat
        BY <2>3 DEF Between, HttpType
      <4> QED
        BY <2>2, <2>3, <2>4, <3>1, <3>2, <4>1, Longer
    <3> QED
      BY <2>1, <2>3, <2>7, <2>8, <2>9, <2>10, <3>3
         DEF OtaAnnounced, Counted, Between, AtFirst, AtHead, AtCopy, AtBack
  <2>11. CASE ~http.is_more
    <3>1. before = <<>> /\ http.retrieve_len = 0
      BY <2>3, <2>11 DEF Between
    <3>2. Continues(wire', server.n, 0)
      <4>1. ~(Len(before) >= OtaMaxWire)
        BY <3>1, EmptySeq, OtaAssumption
      <4>2. <<>> \o Response(server) = Response(server)
        BY <2>4, ConcatEmptySeq
      <4> QED
        BY <2>2, <2>4, <3>1, <4>1, <4>2
    <3>3. http.response_content_len \in {0, server.n}
          /\ http.response_content_len = Len(got)
      BY <2>3, <3>1 DEF Between, HttpType
    <3> QED
      BY <2>1, <2>3, <2>7, <2>8, <2>9, <2>11, <3>1, <3>2, <3>3
         DEF OtaAnnounced, Counted, Between, AtFirst, AtHead, AtCopy, AtBack
  <2> QED
    BY <2>10, <2>11
<1> QED
  BY <1>1, <1>2 DEF OtaRequest

LEMMA RestKeeps ==
  ASSUME OtaAnnounced, OtaRest
  PROVE  OtaAnnounced'
<1>1. call.pc = "rest" /\ RetrieveContent(http, <<>>) /\ UNCHANGED <<server, wire, ota, got>>
  BY DEF OtaRest
<1>2. /\ Between(Len(got)) /\ http.is_more /\ call.diff = Len(got)
      /\ http \in HttpType /\ wire \in Seq(FileToken) /\ wire' \in Seq(FileToken)
      /\ server.n \in Nat /\ Len(got) \in Nat
  BY <1>1 DEF OtaAnnounced, OtaTypes, Counted
<1>3. /\ http.handle = 1 /\ http.response_content_len \in {0, server.n}
      /\ http.response_content_len - http.retrieve_len = call.diff
      /\ http.retrieve_len <= http.response_content_len
  BY <1>2 DEF Between, HttpType
<1>4. <<>> \in Seq(FileToken) /\ Len(<<>>) = 0 /\ <<>> \o wire' = wire
  BY <1>1, <1>2, EmptySeq, ConcatEmptySeq
<1>5. Continues(<<>> \o wire', server.n, 4 + server.n - http.retrieve_len)
  BY <1>2, <1>4 DEF Between
<1>6. Len(<<>>) < RespBufLen
  BY <1>4, OtaAssumption
<1> QED
  BY <1>1, <1>2, <1>3, <1>4, <1>5, <1>6, RetrieveKeeps

LEMMA FirstKeeps ==
  ASSUME OtaAnnounced, OtaFirst
  PROVE  OtaAnnounced'
<1>1. /\ call.pc = "first" /\ UNCHANGED <<server, ota, got>>
      /\ wire \in Seq(FileToken) /\ http \in HttpType /\ call \in CallType
      /\ server.n \in Nat /\ Len(got) \in Nat
  BY DEF OtaFirst, OtaAnnounced, OtaTypes
<1>2. /\ http.is_more /\ http.handle = 1 /\ http.retrieve_len = 0
      /\ http.response_content_len \in {0, server.n}
      /\ call.diff = http.response_content_len /\ call.diff = Len(got)
      /\ Continues(wire, server.n, 0)
  BY <1>1 DEF OtaAnnounced, AtFirst, Counted
<1>3. CASE Fail
  BY <1>1, <1>3, FailKeeps
<1>4. CASE ~Fail
  <2>1. PICK n \in RecvLengths(HttpChunkSize - 1) :
          /\ wire' = Rest(wire, n)
          /\ IF SubSeq(wire, 1, n) = <<>> THEN Return(http, <<>>)
             ELSE IF Len(SubSeq(wire, 1, n)) < 2 \/ SubSeq(wire, 1, n)[1][1] # "http"
             THEN /\ http' = [http EXCEPT !.handle = -1, !.response_content_len = -1]
                  /\ call' = [call EXCEPT !.pc = "back", !.ret = -1]
             ELSE /\ http' = [http EXCEPT !.response_content_len = -1, !.is_chunked = FALSE]
                  /\ call' = [call EXCEPT !.pc = "head", !.data = Rest(SubSeq(wire, 1, n), 2)]
    BY <1>4 DEF OtaFirst, Recv
  <2>2. n \in 0 .. Len(wire) /\ n <= HttpChunkSize - 1
    BY <1>1, OtaAssumption DEF RecvLengths, HTTPCLIENT_MIN
  <2> DEFINE s == SubSeq(wire, 1, n)
  <2>3. /\ s \in Seq(FileToken) /\ wire' \in Seq(FileToken) /\ Len(s) = n
    BY <1>1, <2>1, <2>2, Taken
  <2>4. s \o wire' = wire
    <3>1. (<<>> \o s) \o Rest(wire, n) = <<>> \o wire
      BY <1>1, <2>2, EmptySeq, StreamKept
    <3> QED
      BY <1>1, <2>1, <2>3, <3>1, ConcatEmptySeq
  <2> HIDE DEF s
  <2>5. CASE s = <<>>
    <3>1. Return(http, <<>>) /\ <<>> \in Seq(FileToken) /\ Len(<<>>) = 0
      BY <2>1, <2>5, EmptySeq DEF s
    <3>2. wire' = wire
      BY <1>1, <2>3, <2>4, <2>5, ConcatEmptySeq
    <3>3. 4 + server.n - http.retrieve_len = 4 + server.n
      BY <1>1, <1>2
    <3>4. Continues(wire', server.n, 4 + server.n - http.retrieve_len)
      BY <1>1, <2>3, <3>3, LenProperties DEF Continues
    <3>5. http.response_content_len = http.response_content_len - http.retrieve_len - Len(<<>>)
          /\ http.response_content_len \in Nat
      BY <1>1, <1>2, <3>1
    <3>6. \A i \in 1 .. Len(<<>>) : <<>>[i] = Tok("byte", http.response_content_len + i)
      BY <3>1
    <3> QED
      BY <1>1, <1>2, <2>3, <3>1, <3>4, <3>5, <3>6, ReturnKeeps
  <2>6. CASE s # <<>> /\ (Len(s) < 2 \/ s[1][1] # "http")
    <3>1. /\ http' = [http EXCEPT !.handle = -1, !.response_content_len = -1]
          /\ call' = [call EXCEPT !.pc = "back", !.ret = -1]
      BY <2>1, <2>6 DEF s
    <3>2. http' \in HttpType
      BY <1>1, <3>1 DEF HttpType
    <3>3. call' \in CallType /\ call'.pc = "back" /\ call'.ret = -1
      <4>1. -1 \in Int
        OBVIOUS
      <4> QED
        BY <1>1, <3>1, <4>1 DEF CallType
    <3>4. OtaTypes' /\ OtaInOrder'
      BY <1>1, <2>3, <3>2, <3>3 DEF OtaAnnounced, OtaTypes, OtaInOrder
    <3> QED
      BY <3>3, <3>4 DEF OtaAnnounced, Counted, AtFirst, AtHead, AtCopy, AtBack
  <2>7. CASE s # <<>> /\ ~(Len(s) < 2 \/ s[1][1] # "http")
    <3> DEFINE data == Rest(s, 2)
    <3>1. /\ http' = [http EXCEPT !.response_content_len = -1, !.is_chunked = FALSE]
          /\ call' = [call EXCEPT !.pc = "head", !.data = data]
      BY <2>1, <2>7 DEF s
    <3>2. 2 \in 0 .. Len(s) /\ n >= 2
      BY <2>2, <2>3, <2>7
    <3>3. data \in Seq(FileToken) /\ Len(data) = n - 2
      BY <2>3, <3>2, Taken
    <3>4. data \o wire' = Rest(wire, 2)
      <4>1. data \o wire' = Rest(s \o wire', 2)
        BY <2>3, <3>2, RestOfJoin
      <4> QED
        BY <2>4, <4>1
    <3>5. Continues(data \o wire', server.n, 2)
      <4>1. 2 \in 0 .. Len(wire) /\ 0 + 2 = 2
        BY <2>2, <3>2
      <4>2. Continues(Rest(wire, 2), server.n, 0 + 2)
        BY <1>1, <1>2, <4>1, Shorter
      <4> QED
        BY <3>4, <4>1, <4>2
    <3> HIDE DEF data
    <3>6. http' \in HttpType /\ http'.is_more /\ http'.handle = 1
      BY <1>1, <1>2, <3>1 DEF HttpType
    <3>7. call' \in CallType /\ call'.pc = "head" /\ call'.data = data
          /\ call'.diff = call.diff
      BY <1>1, <3>1, <3>3 DEF CallType
    <3>8. OtaTypes' /\ OtaInOrder'
      BY <1>1, <2>3, <3>6, <3>7 DEF OtaAnnounced, OtaTypes, OtaInOrder
    <3>9. Len(data) < HttpChunkSize
      BY <2>2, <3>3, OtaAssumption
    <3>10. AtHead'
      <4>1. 2 \in 2 .. 3 /\ 2 # 3
        OBVIOUS
      <4>2. Continues(call.data \o wire, server.n, 2)'
        BY <1>1, <3>5, <3>7
      <4> QED
        BY <1>1, <1>2, <3>6, <3>7, <3>9, <4>1, <4>2 DEF AtHead
    <3> QED
      BY <1>1, <1>2, <3>7, <3>8, <3>10 DEF OtaAnnounced, Counted, AtFirst, AtCopy, AtBack
  <2> QED
    BY <2>5, <2>6, <2>7
<1> QED
  BY <1>3, <1>4

LEMMA ReadLength ==
  ASSUME wire \in Seq(FileToken), NEW max \in Int, max >= 0, NEW n \in RecvLengths(max)
  PROVE  n \in 0 .. Len(wire) /\ n <= max
BY LenProperties DEF RecvLengths, HTTPCLIENT_MIN

LEMMA HeadKeeps ==
  ASSUME OtaAnnounced, OtaHead
  PROVE  OtaAnnounced'
<1> DEFINE data == call.data
<1>1. /\ call.pc = "head" /\ UNCHANGED <<server, ota, got>>
      /\ wire \in Seq(FileToken) /\ http \in HttpType /\ call \in CallType
      /\ data \in Seq(FileToken) /\ server.n \in Nat /\ OtaInOrder
      /\ got \in Seq(FileToken) /\ Len(got) \in Nat /\ Len(data) \in Nat /\ Len(wire) \in Nat
  BY DEF OtaHead, OtaAnnounced, OtaTypes, CallType
<1>2. /\ http.is_more /\ http.handle = 1 /\ call.diff = Len(got)
      /\ call.diff \in {0, server.n} /\ Len(data) < HttpChunkSize
  BY <1>1 DEF OtaAnnounced, AtHead, Counted
<1>3. PICK k \in 2 .. 3 :
        /\ Continues(data \o wire, server.n, k)
        /\ k = 3 => http.response_content_len = server.n /\ http.retrieve_len = server.n
  BY <1>1 DEF OtaAnnounced, AtHead
<1>a. /\ data \in Seq(FileToken) /\ wire \in Seq(FileToken) /\ server.n \in Nat
      /\ HttpChunkSize \in Nat /\ Len(data) \in Nat /\ Len(data) < HttpChunkSize
      /\ Len(wire) \in Nat
  BY <1>1, <1>2, OtaAssumption
<1>4. \A i \in 1 .. Len(data) : k + i <= 4 + server.n => data[i] = ResponseToken(server.n, k + i)
  <2>1. Continues(data \o wire, server.n, k) /\ k \in Nat
    BY <1>3
  <2> QED
    BY <1>a, <2>1, EndContinues
<1>5. CASE Fail
  BY <1>1, <1>5, FailKeeps
<1>6. CASE data = <<>> /\ ~Fail
  <2>1. PICK n \in RecvLengths(HttpChunkSize - Len(data) - 1) :
          /\ wire' = Rest(wire, n) /\ http' = http
          /\ call' = [call EXCEPT !.data = @ \o SubSeq(wire, 1, n)]
    BY <1>6 DEF OtaHead, Recv
  <2>2. n \in 0 .. Len(wire) /\ n <= HttpChunkSize - Len(data) - 1
    BY <1>a, ReadLength
  <2> DEFINE s == SubSeq(wire, 1, n)
             more == data \o s
  <2>3. s \in Seq(FileToken) /\ wire' \in Seq(FileToken) /\ Len(s) = n
    BY <1>1, <2>1, <2>2, Taken
  <2>4. more \o wire' = data \o wire
    BY <1>1, <2>1, <2>2, StreamKept
  <2>5. call' = [call EXCEPT !.data = more]
    BY <2>1
  <2> HIDE DEF s
  <2>6. more \in Seq(FileToken) /\ Len(more) = Len(data) + n
    BY <1>1, <2>3, ConcatProperties
  <2> HIDE DEF more
  <2>7. call' \in CallType /\ call'.pc = "head" /\ call'.data = more /\ call'.diff = call.diff
    BY <1>1, <2>5, <2>6 DEF CallType
  <2>8. AtHead'
    <3>1. Len(more) < HttpChunkSize
      <4> DEFINE size == Len(data)
      <4>1. size \in Nat /\ HttpChunkSize \in Nat
        BY <1>a
      <4>2. n \in Int
        BY <1>a, <2>2
      <4>3. n <= HttpChunkSize - size - 1
        BY <2>2
      <4>4. Len(more) = size + n
        BY <2>6
      <4> HIDE DEF size
      <4> QED
        BY <4>1, <4>2, <4>3, <4>4
    <3>2. Continues(call.data \o wire, server.n, k)'
      BY <1>1, <1>3, <2>4, <2>7
    <3> QED
      BY <1>1, <1>2, <1>3, <2>1, <2>7, <3>1, <3>2 DEF AtHead
  <2>9. OtaTypes' /\ OtaInOrder'
    BY <1>1, <2>1, <2>3, <2>7 DEF OtaTypes, OtaInOrder
  <2> QED
    BY <1>1, <1>2, <2>7, <2>8, <2>9 DEF OtaAnnounced, Counted, AtFirst, AtCopy, AtBack
<1>7. CASE data # <<>> /\ ~Fail
  <2> DEFINE line == data[1]
             more == Tail(data)
  <2>1. Len(data) \in Nat /\ Len(data) >= 1
    BY <1>1, <1>7, EmptySeq, LenProperties
  <2>2. line = ResponseToken(server.n, k + 1)
    BY <1>1, <1>4, <2>1
  <2>3. line[1] # "part"
    BY <2>2, <1>3 DEF ResponseToken, Tok
  <2>4. wire' = wire /\ wire' \in Seq(FileToken)
    BY <1>1, <1>7, <2>3 DEF OtaHead
  <2>5. more \in Seq(FileToken) /\ Len(more) = Len(data) - 1 /\ more = Rest(data, 1)
    BY <1>1, <1>7 DEF Rest
  <2>6. Continues(more \o wire', server.n, k + 1)
    <3>1. 1 \in 0 .. Len(data) /\ 1 \in 0 .. Len(data \o wire)
      BY <1>1, <2>1
    <3>2. more \o wire' = Rest(data \o wire, 1)
      <4>1. data \in Seq(FileToken) /\ wire \in Seq(FileToken)
        BY <1>1
      <4>2. Rest(data, 1) \o wire = Rest(data \o wire, 1)
        BY <3>1, <4>1, RestOfJoin
      <4> QED
        BY <2>4, <2>5, <4>2
    <3> DEFINE stream == data \o wire
    <3>3. stream \in Seq(FileToken) /\ Continues(stream, server.n, k) /\ 1 \in 0 .. Len(stream)
      BY <1>1, <1>3, <3>1, ConcatProperties
    <3> HIDE DEF stream
    <3>4. Continues(Rest(stream, 1), server.n, k + 1)
      BY <1>1, <1>3, <3>3, Shorter
    <3> QED
      BY <3>2, <3>4 DEF stream
  <2>7. CASE k = 2
    <3>1. line[1] = "content-length" /\ line[2] = server.n
      BY <2>2, <2>7 DEF ResponseToken, Tok
    <3>2. /\ http' = [http EXCEPT !.response_content_len = server.n, !.retrieve_len = server.n]
          /\ call' = [call EXCEPT !.data = more]
      BY <1>1, <1>7, <2>3, <3>1 DEF OtaHead
    <3> HIDE DEF more
    <3>3. call' \in CallType /\ call'.pc = "head" /\ call'.data = more /\ call'.diff = call.diff
      BY <1>1, <2>5, <3>2 DEF CallType
    <3>4. http' \in HttpType /\ http'.is_more /\ http'.handle = 1
          /\ http'.response_content_len = server.n /\ http'.retrieve_len = server.n
      BY <1>1, <1>2, <3>2 DEF HttpType
    <3>5. OtaTypes' /\ OtaInOrder'
      BY <1>1, <2>4, <3>3, <3>4 DEF OtaTypes, OtaInOrder
    <3>6. AtHead'
      <4>1. Len(more) < HttpChunkSize /\ 3 \in 2 .. 3
        BY <1>1, <1>2, <2>5, <2>1, OtaAssumption
      <4>2. Continues(call.data \o wire, server.n, 3)'
        BY <1>1, <2>6, <2>7, <3>3
      <4> QED
        BY <1>1, <1>2, <3>3, <3>4, <4>1, <4>2 DEF AtHead
    <3> QED
      BY <1>1, <1>2, <3>3, <3>5, <3>6 DEF OtaAnnounced, Counted, AtFirst, AtCopy, AtBack
  <2>8. CASE k = 3
    <3>1. line[1] = "empty"
      BY <2>2, <2>8 DEF ResponseToken, Tok
    <3>2. RetrieveContent(http, more)
      BY <1>1, <1>7, <2>3, <3>1 DEF OtaHead
    <3> HIDE DEF more
    <3>3. http.response_content_len = server.n /\ http.retrieve_len = server.n
      BY <1>3, <2>8
    <3>4. Len(more) < RespBufLen
      BY <1>2, <2>1, <2>5, OtaAssumption
    <3>5. Continues(more \o wire', server.n, 4 + server.n - http.retrieve_len)
      <4>1. 4 + server.n - http.retrieve_len = k + 1
        BY <1>1, <2>8, <3>3
      <4> QED
        BY <2>6, <4>1
    <3>6. /\ http.retrieve_len <= http.response_content_len
          /\ \/ http.response_content_len - http.retrieve_len = call.diff
             \/ http.response_content_len = http.retrieve_len /\ call.diff = server.n
      BY <1>1, <1>2, <3>3
    <3> QED
      BY <1>1, <1>2, <2>4, <2>5, <3>2, <3>3, <3>4, <3>5, <3>6, RetrieveKeeps
  <2> QED
    BY <2>7, <2>8
<1> QED
  BY <1>5, <1>6, <1>7

(* A copy under way: `out` holds the bytes of the file behind the first     *)
(* `from`, `data` and then `w` bring the `left` ones that are missing.     *)
Copying(n, data, w, out, left, total, from) ==
  /\ n \in Nat /\ data \in Seq(FileToken) /\ w \in Seq(FileToken) /\ out \in Seq(FileToken)
  /\ left \in Nat /\ total \in {0, n} /\ from \in Nat
  /\ from = total - left - Len(out)
  /\ Continues(data \o w, n, 4 + n - left)
  /\ \A i \in 1 .. Len(out) : out[i] = Tok("byte", from + i)

(* t bytes more of them are the next of the file.                          *)
LEMMA BytesCopied ==
  ASSUME NEW n, NEW data, NEW w, NEW out, NEW left, NEW total, NEW from,
         Copying(n, data, w, out, left, total, from),
         NEW t \in Nat, t <= Len(data), t <= left
  PROVE  /\ out \o SubSeq(data, 1, t) \in Seq(FileToken)
         /\ Len(out \o SubSeq(data, 1, t)) = Len(out) + t
         /\ \A i \in 1 .. Len(out \o SubSeq(data, 1, t)) :
              (out \o SubSeq(data, 1, t))[i] = Tok("byte", from + i)
<1> DEFINE part == SubSeq(data, 1, t)
           longer == out \o part
           k == 4 + n - left
<1>0. n \in Nat /\ data \in Seq(FileToken) /\ w \in Seq(FileToken) /\ out \in Seq(FileToken)
  BY DEF Copying
<1>b. /\ left \in Nat /\ total \in {0, n} /\ from \in Nat
      /\ from = total - left - Len(out) /\ k = 4 + n - left
  BY DEF Copying
<1>c. Continues(data \o w, n, k)
  BY DEF Copying
<1>d. \A i \in 1 .. Len(out) : out[i] = Tok("byte", from + i)
  BY DEF Copying
<1> HIDE DEF k
<1>1. Len(data) \in Nat /\ Len(out) \in Nat
  BY <1>0, LenProperties
<1>2. k \in Nat /\ left <= total
  BY <1>0, <1>b, <1>1
<1>3. \A i \in 1 .. Len(data) : k + i <= 4 + n => data[i] = ResponseToken(n, k + i)
  BY <1>0, <1>c, <1>2, EndContinues
<1>4. t \in 0 .. Len(data)
  BY <1>0, <1>1
<1>5. part \in Seq(FileToken) /\ Len(part) = t /\ \A i \in 1 .. t : part[i] = data[i]
  BY <1>0, <1>4, Taken
<1> HIDE DEF part
<1>6. /\ longer \in Seq(FileToken) /\ Len(longer) = Len(out) + Len(part)
      /\ \A i \in 1 .. Len(out) + Len(part) :
           longer[i] = IF i <= Len(out) THEN out[i] ELSE part[i - Len(out)]
  BY <1>0, <1>5, ConcatProperties
<1> HIDE DEF longer
<1>7. ASSUME NEW i \in 1 .. Len(longer) PROVE longer[i] = Tok("byte", from + i)
  <2>1. CASE i <= Len(out)
    <3>1. i \in 1 .. Len(out) /\ longer[i] = out[i]
      BY <1>1, <1>5, <1>6, <2>1
    <3> QED
      BY <1>d, <3>1
  <2>2. CASE i > Len(out)
    <3> DEFINE j == i - Len(out)
    <3>1. i \in Int /\ j \in 1 .. t /\ longer[i] = data[j] /\ j <= left
      <4>1. i \in Int /\ j \in 1 .. t /\ j <= left
        BY <1>1, <1>5, <1>6, <2>2, <1>b
      <4>2. longer[i] = part[j]
        BY <1>1, <1>5, <1>6, <2>2
      <4> QED
        BY <1>5, <4>1, <4>2
    <3>2. data[j] = ResponseToken(n, k + j)
      BY <1>0, <1>b, <1>1, <1>2, <1>3, <3>1
    <3>3. total = n
      BY <1>0, <1>b, <1>2, <3>1
    <3> DEFINE place == k + j
    <3>4. place \in Int /\ place - 4 = from + i /\ place > 4
      <4> DEFINE m == Len(out)
      <4>1. /\ n \in Nat /\ m \in Nat /\ left \in Nat /\ from \in Nat /\ i \in Int /\ i > m
            /\ from = n - left - m /\ place = 4 + n - left + (i - m)
        BY <1>0, <1>b, <1>1, <2>2, <3>1, <3>3
      <4> HIDE DEF m, place
      <4> QED
        BY <4>1
    <3>5. data[j] = ResponseToken(n, place)
      BY <3>2
    <3> HIDE DEF place, j
    <3> QED
      BY <3>1, <3>4, <3>5 DEF ResponseToken
  <2>3. i <= Len(out) \/ i > Len(out)
    BY <1>1, <1>5, <1>6
  <2> QED
    BY <2>1, <2>2, <2>3
<1> QED
  BY <1>5, <1>6, <1>7 DEF longer, part

LEMMA CopyKeeps ==
  ASSUME OtaAnnounced, OtaCopy
  PROVE  OtaAnnounced'
<1> DEFINE data == call.data
           left == call.readLen
           total == http.response_content_len
           had == Len(call.out)
           size == Len(data)
           from == OutFrom
           t == HTTPCLIENT_MIN(Len(data), left)
           out == call.out \o SubSeq(data, 1, t)
           n == server.n
<1>1. /\ call.pc = "copy" /\ UNCHANGED <<server, ota, got>>
      /\ wire \in Seq(FileToken) /\ http \in HttpType /\ call \in CallType
      /\ OtaInOrder /\ got \in Seq(FileToken)
  BY DEF OtaCopy, OtaAnnounced, OtaTypes
<1>2. /\ call.out \in Seq(FileToken) /\ data \in Seq(FileToken) /\ n \in Nat /\ size \in Nat
      /\ had \in Nat /\ http.is_chunked = FALSE
  BY <1>1, LenProperties DEF OtaAnnounced, OtaTypes, CallType, HttpType
<1>3. /\ http.is_more /\ http.handle = 1 /\ left = http.retrieve_len
      /\ total \in {0, n} /\ Len(data) <= Free
      /\ Continues(data \o wire, n, 4 + n - left)
      /\ from = call.diff \/ (from = 0 /\ call.diff = n)
      /\ from >= 0
      /\ \A i \in 1 .. Len(call.out) : call.out[i] = Tok("byte", from + i)
      /\ call.diff = Len(got)
  BY <1>1 DEF OtaAnnounced, AtCopy, Counted
<1>4. left \in Nat /\ from = total - left - had
  BY <1>1, <1>3 DEF OutFrom, HttpType
<1>5. from \in Nat
  BY <1>2, <1>3, <1>4
<1>6. t \in Nat /\ t <= size /\ t <= left /\ (t = size \/ t = left)
  BY <1>2, <1>4 DEF HTTPCLIENT_MIN
<1>7. /\ out \in Seq(FileToken) /\ Len(out) = had + t
      /\ \A i \in 1 .. Len(out) : out[i] = Tok("byte", from + i)
  <2> DEFINE behind == call.out
  <2>1. Copying(n, data, wire, behind, left, total, from)
    BY <1>1, <1>2, <1>3, <1>4, <1>5 DEF Copying
  <2> HIDE DEF data, left, total, from, t, n, behind
  <2>2. /\ behind \o SubSeq(data, 1, t) \in Seq(FileToken)
        /\ Len(behind \o SubSeq(data, 1, t)) = Len(behind) + t
        /\ \A i \in 1 .. Len(behind \o SubSeq(data, 1, t)) :
              (behind \o SubSeq(data, 1, t))[i] = Tok("byte", from + i)
    BY <1>6, <2>1, BytesCopied
  <2> QED
    BY <2>2 DEF behind
<1>8. Free = RespBufLen - 1 - had /\ RespBufLen \in Nat /\ HttpChunkSize \in Nat
  BY OtaAssumption DEF Free
<1>9. size <= Free /\ Free \in Int
  <2>1. size <= Free
    BY <1>3
  <2> HIDE DEF size, had
  <2> QED
    BY <1>2, <1>8, <2>1
<1>10. HTTPCLIENT_MIN(t, Free) = t
  BY <1>6, <1>9, <1>2 DEF HTTPCLIENT_MIN
<1>11. 4 + n - left \in Nat /\ left <= n
  <2>1. n \in Nat /\ had \in Nat /\ total \in {0, n} /\ left \in Nat /\ from \in Nat
        /\ from = total - left - had
    BY <1>2, <1>3, <1>4, <1>5
  <2> HIDE DEF n, had, total, left, from
  <2> QED
    BY <2>1
<1>12. t = size => Continues(wire, n, 4 + n - (left - t))
  <2>1. Continues(wire, n, 4 + n - left + size)
    BY <1>1, <1>2, <1>3, <1>11, EndContinues
  <2> HIDE DEF size, left, n
  <2>2. t = size => 4 + n - left + size = 4 + n - (left - t)
    BY <1>2, <1>4, <1>6
  <2> QED
    BY <2>1, <2>2
<1>13. CASE Fail
  BY <1>1, <1>13, FailKeeps
<1>14. CASE t >= Free /\ ~Fail
  <2> DEFINE h == [http EXCEPT !.retrieve_len = @ - Free]
  <2>1. Return(h, out) /\ wire' = wire
    BY <1>14, <1>10 DEF OtaCopy
  <2>2. t = size /\ t = Free
    BY <1>2, <1>6, <1>9, <1>14
  <2>3. /\ h \in HttpType /\ h.handle = 1 /\ h.is_more
        /\ h.response_content_len = total /\ h.retrieve_len = left - t
    <3>1. http.retrieve_len - Free = left - t /\ left - t \in Nat
      BY <1>3, <1>4, <1>6, <2>2
    <3> QED
      BY <1>1, <1>3, <3>1 DEF HttpType
  <2>4. from = h.response_content_len - h.retrieve_len - Len(out)
    <3> DEFINE kept == h.response_content_len
               rest == h.retrieve_len
               len == Len(out)
    <3>1. kept = total /\ rest = left - t /\ len = had + t
      BY <1>7, <2>3
    <3>2. /\ from = total - left - had /\ left \in Nat /\ t \in Nat
          /\ had \in Nat /\ total \in Nat
      BY <1>2, <1>3, <1>4, <1>6
    <3> HIDE DEF h, out, from, t, left, total, had, n, kept, rest, len
    <3>3. from = kept - rest - len
      BY <3>1, <3>2
    <3> QED
      BY <3>3 DEF kept, rest, len
  <2> HIDE DEF h, out
  <2>5. Continues(wire', n, 4 + n - h.retrieve_len)
    BY <1>12, <2>1, <2>2, <2>3
  <2> QED
    BY <1>1, <1>3, <1>5, <1>7, <2>1, <2>3, <2>4, <2>5, ReturnKeeps
<1>15. CASE ~(t >= Free) /\ t < left /\ ~Fail
  <2> DEFINE max == HTTPCLIENT_MIN(HTTPCLIENT_MIN(HttpChunkSize - 1, Free - t), left - t)
  <2>1. PICK m \in RecvLengths(max) :
          /\ wire' = Rest(wire, m)
          /\ http' = [http EXCEPT !.retrieve_len = @ - t]
          /\ call' = [call EXCEPT !.data = SubSeq(wire, 1, m), !.out = out, !.readLen = @ - t]
    BY <1>15, <1>10 DEF OtaCopy, Recv
  <2>2. max \in Int /\ max >= 0 /\ max <= Free - t
    <3> DEFINE room == Free
    <3>1. t \in Nat /\ left \in Nat /\ room \in Int /\ HttpChunkSize \in Nat
          /\ HttpChunkSize > 3 /\ ~(t >= room) /\ t < left
      BY <1>4, <1>6, <1>9, <1>15, OtaAssumption
    <3> HIDE DEF t, left, room
    <3>2. /\ HTTPCLIENT_MIN(HTTPCLIENT_MIN(HttpChunkSize - 1, room - t), left - t) \in Int
          /\ HTTPCLIENT_MIN(HTTPCLIENT_MIN(HttpChunkSize - 1, room - t), left - t) >= 0
          /\ HTTPCLIENT_MIN(HTTPCLIENT_MIN(HttpChunkSize - 1, room - t), left - t) <= room - t
      BY <3>1 DEF HTTPCLIENT_MIN
    <3> QED
      BY <3>2 DEF room
  <2> HIDE DEF max
  <2>3. m \in 0 .. Len(wire) /\ m <= Free - t
    <3>1. m \in 0 .. Len(wire) /\ m <= max
      BY <1>1, <2>2, ReadLength
    <3> QED
      BY <1>1, <1>6, <1>9, <2>2, <3>1
  <2> DEFINE s == SubSeq(wire, 1, m)
  <2>4. s \in Seq(FileToken) /\ wire' \in Seq(FileToken) /\ Len(s) = m
    BY <1>1, <2>1, <2>3, Taken
  <2>5. s \o wire' = wire
    <3>1. (<<>> \o s) \o Rest(wire, m) = <<>> \o wire
      BY <1>1, <2>3, EmptySeq, StreamKept
    <3> QED
      BY <1>1, <2>1, <2>4, <3>1, ConcatEmptySeq
  <2>6. call' = [call EXCEPT !.data = s, !.out = out, !.readLen = @ - t]
    BY <2>1
  <2> HIDE DEF s, out
  <2>7. left - t \in Nat /\ t = size
    BY <1>4, <1>6, <1>15
  <2>8. call' \in CallType /\ call'.pc = "copy" /\ call'.data = s /\ call'.out = out
        /\ call'.readLen = left - t /\ call'.diff = call.diff
    <3> DEFINE rest == left - t
    <3>1. call' = [call EXCEPT !.data = s, !.out = out, !.readLen = rest]
      BY <2>6
    <3>2. rest \in Nat
      BY <2>7
    <3>x. call \in CallType /\ call.pc = "copy" /\ out \in Seq(FileToken)
      BY <1>1, <1>7
    <3> HIDE DEF rest, t, left, data
    <3>3. /\ call' \in CallType /\ call'.pc = "copy" /\ call'.data = s /\ call'.out = out
          /\ call'.readLen = rest /\ call'.diff = call.diff
      BY <2>4, <3>x, <3>1, <3>2 DEF CallType
    <3> QED
      BY <3>3 DEF rest
  <2>9. /\ http' \in HttpType /\ http'.is_more /\ http'.handle = 1
        /\ http'.response_content_len = total /\ http'.retrieve_len = left - t
    <3>1. http.retrieve_len - t \in Nat /\ http.retrieve_len - t = left - t
      BY <1>3, <2>7
    <3> QED
      BY <1>1, <1>3, <2>1, <3>1 DEF HttpType
  <2>10. OtaTypes' /\ OtaInOrder'
    BY <1>1, <1>2, <2>4, <2>8, <2>9 DEF OtaTypes, OtaInOrder
  <2>11. AtCopy'
    <3>1. OutFrom' = from
      <4>1. OutFrom' = total - (left - t) - (had + t)
        BY <1>7, <2>8, <2>9 DEF OutFrom
      <4> HIDE DEF total, left, t, had, from
      <4> QED
        BY <1>2, <1>3, <1>4, <1>6, <4>1
    <3>2. Len(call'.data) <= Free'
      <4>1. Free' = RespBufLen - 1 - (had + t)
        BY <1>7, <2>8 DEF Free
      <4>2. m \in Int /\ Len(call'.data) = m
        BY <1>1, <2>3, <2>4, <2>8
      <4> HIDE DEF t, had
      <4> QED
        BY <1>2, <1>6, <1>8, <2>3, <4>1, <4>2
    <3>3. Continues(call.data \o wire, server.n, 4 + server.n - call.readLen)'
      BY <1>1, <1>12, <2>5, <2>7, <2>8
    <3> QED
      BY <1>1, <1>3, <1>7, <2>8, <2>9, <3>1, <3>2, <3>3 DEF AtCopy
  <2> QED
    BY <1>1, <1>3, <2>8, <2>10, <2>11 DEF OtaAnnounced, Counted, AtFirst, AtHead, AtBack
<1>16. CASE ~(t >= Free) /\ ~(t < left) /\ ~Fail
  <2> DEFINE h == [http EXCEPT !.retrieve_len = @ - t, !.is_more = FALSE]
  <2>1. Return(h, out) /\ wire' = wire
    BY <1>2, <1>10, <1>16 DEF OtaCopy
  <2>2. t = left
    BY <1>4, <1>6, <1>16
  <2>3. /\ h \in HttpType /\ h.handle = 1 /\ ~h.is_more
        /\ h.response_content_len = total /\ h.retrieve_len = 0
    <3>1. http.retrieve_len - t = 0
      BY <1>3, <1>4, <2>2
    <3>2. h = [http EXCEPT !.retrieve_len = 0, !.is_more = FALSE]
      BY <3>1
    <3> HIDE DEF h
    <3> QED
      BY <1>1, <1>3, <3>2 DEF HttpType
  <2>4. from = h.response_content_len - h.retrieve_len - Len(out)
    <3> DEFINE kept == h.response_content_len
               rest == h.retrieve_len
               len == Len(out)
    <3>1. kept = total /\ rest = left - t /\ len = had + t
      BY <1>7, <2>2, <2>3
    <3>2. /\ from = total - left - had /\ left \in Nat /\ t \in Nat
          /\ had \in Nat /\ total \in Nat
      BY <1>2, <1>3, <1>4, <1>6
    <3> HIDE DEF h, out, from, t, left, total, had, n, kept, rest, len
    <3>3. from = kept - rest - len
      BY <3>1, <3>2
    <3> QED
      BY <3>3 DEF kept, rest, len
  <2> HIDE DEF h, out
  <2> QED
    BY <1>1, <1>3, <1>5, <1>7, <2>1, <2>3, <2>4, ReturnKeeps
<1> QED
  BY <1>13, <1>14, <1>15, <1>16

LEMMA FetchedKeeps ==
  ASSUME OtaAnnounced, OtaFetched
  PROVE  OtaAnnounced'
<1>1. /\ call.pc = "back" /\ UNCHANGED <<server, wire, http>>
      /\ wire \in Seq(FileToken) /\ http \in HttpType /\ call \in CallType
      /\ server.n \in Nat /\ got \in Seq(FileToken) /\ Len(got) \in Nat /\ OtaInOrder
  BY DEF OtaFetched, OtaAnnounced, OtaTypes
<1>2. /\ call' = [NoCall EXCEPT !.pc = "done"] \/ call' = [NoCall EXCEPT !.pc = "fetch"]
      /\ call.ret < 0 => call' = [NoCall EXCEPT !.pc = "done"] /\ got' = got
      /\ ~(call.ret < 0) => got' = got \o Given(call.out, call.ret)
  BY <1>1 DEF OtaFetched
<1>3. /\ call' \in CallType /\ call'.pc \in {"done", "fetch"}
      /\ call.ret < 0 => call'.pc = "done"
  <2>1. <<>> \in Seq(FileToken)
    BY EmptySeq
  <2>2. PICK pc \in {"done", "fetch"} :
          /\ call' = [pc |-> pc, diff |-> 0, data |-> <<>>, readLen |-> 0, out |-> <<>>, ret |-> 0]
          /\ call.ret < 0 => pc = "done"
    BY <1>2 DEF NoCall
  <2>3. call'.pc = pc
    BY <2>2
  <2>4. call' \in CallType
    BY <2>1, <2>2 DEF CallType
  <2> QED
    BY <2>2, <2>3, <2>4
<1>4. CASE call.ret < 0
  <2>1. OtaTypes' /\ OtaInOrder'
    BY <1>1, <1>2, <1>3, <1>4 DEF OtaTypes, OtaInOrder
  <2> QED
    BY <1>3, <1>4, <2>1 DEF OtaAnnounced, Counted, AtFirst, AtHead, AtCopy, AtBack
<1>5. CASE ~(call.ret < 0)
  <2> DEFINE ret == call.ret
             out == call.out
             given == Given(out, ret)
  <2>1. ret \in Nat /\ out \in Seq(FileToken)
    BY <1>1, <1>5 DEF CallType
  <2>2. /\ Between(Len(got) + ret) /\ ret <= Len(out)
        /\ \A i \in 1 .. ret : out[i] = Tok("byte", Len(got) + i)
    BY <1>1, <1>5, <2>1 DEF OtaAnnounced, AtBack
  <2>3. got' = got \o given
    BY <1>2, <1>5
  <2>4. given = [i \in 1 .. ret |-> out[i]]
    <3>1. Len(out) \in Nat
      BY <2>1, LenProperties
    <3>2. \A i \in 1 .. ret : i <= Len(out)
      BY <2>1, <2>2, <3>1
    <3> QED
      BY <3>2, Zenon DEF Given
  <2>5. given \in [1 .. ret -> FileToken]
    BY <2>1, <2>2, <2>4
  <2> HIDE DEF given, ret, out
  <2>6. given \in Seq(FileToken) /\ Len(given) = ret
    BY <2>1, <2>5, FunctionIsSeq
  <2>7. /\ got' \in Seq(FileToken) /\ Len(got') = Len(got) + Len(given)
        /\ \A i \in 1 .. Len(got) + Len(given) :
             got'[i] = IF i <= Len(got) THEN got[i] ELSE given[i - Len(got)]
    BY <1>1, <2>3, <2>6, ConcatProperties
  <2>8. OtaInOrder'
    <3>1. SUFFICES ASSUME Announced, NEW i \in 1 .. Len(got')
                   PROVE  got'[i] = Tok("byte", i)
      BY <1>1 DEF OtaInOrder, Announced
    <3>2. i \in 1 .. Len(got) + ret
      BY <2>6, <2>7
    <3>3. CASE i <= Len(got)
      <4>1. i \in 1 .. Len(got) /\ got'[i] = got[i]
        BY <1>1, <2>6, <2>7, <3>2, <3>3, <2>1
      <4> QED
        BY <1>1, <3>1, <4>1 DEF OtaInOrder, Announced
    <3>4. CASE i > Len(got)
      <4> DEFINE j == i - Len(got)
      <4>1. j \in 1 .. ret /\ Len(got) + j = i
        BY <1>1, <2>1, <3>2, <3>4
      <4>2. got'[i] = given[j]
        BY <1>1, <2>1, <2>6, <2>7, <3>2, <3>4
      <4> HIDE DEF j
      <4>3. given[j] = out[j] /\ out[j] = Tok("byte", Len(got) + j)
        BY <2>2, <2>4, <4>1
      <4> QED
        BY <4>1, <4>2, <4>3
    <3>5. i <= Len(got) \/ i > Len(got)
      BY <1>1, <2>1, <3>2
    <3> QED
      BY <3>3, <3>4, <3>5
  <2>9. OtaTypes'
    BY <1>1, <1>3, <2>7 DEF OtaTypes
  <2>10. Between(Len(got))'
    <3>1. Len(got') = Len(got) + ret
      BY <2>6, <2>7
    <3> QED
      BY <1>1, <2>2, <3>1 DEF Between
  <2> QED
    BY <1>3, <2>8, <2>9, <2>10 DEF OtaAnnounced, Counted, AtFirst, AtHead, AtCopy, AtBack
<1> QED
  BY <1>4, <1>5

LEMMA DeinitKeeps ==
  ASSUME OtaAnnounced, OtaDeinit
  PROVE  OtaAnnounced'
<1>1. call' = [NoCall EXCEPT !.pc = "freed"] /\ UNCHANGED <<server, wire, http, ota, got>>
  BY DEF OtaDeinit
<1>2. call' \in CallType /\ call'.pc = "freed"
  <2>1. <<>> \in Seq(FileToken)
    BY EmptySeq
  <2>2. call' = [pc |-> "freed", diff |-> 0, data |-> <<>>, readLen |-> 0, out |-> <<>>, ret |-> 0]
    BY <1>1 DEF NoCall
  <2>3. 0 \in Int /\ 0 \in Nat
    OBVIOUS
  <2> QED
    BY <2>1, <2>2, <2>3 DEF CallType
<1>3. OtaTypes' /\ OtaInOrder'
  BY <1>1, <1>2 DEF OtaAnnounced, OtaTypes, OtaInOrder
<1> QED
  BY <1>2, <1>3 DEF OtaAnnounced, Counted, AtFirst, AtHead, AtCopy, AtBack

-----------------------------------------------------------------------------
LEMMA OtaInitial == OtaInit => OtaIInv
<1> SUFFICES ASSUME OtaInit PROVE OtaIInv
  OBVIOUS
<1>1. Unstarted /\ ~Announced /\ ota \in OtaStruct
  BY DEF OtaInit, Unstarted, Announced, OtaStruct
<1> QED
  BY <1>1 DEF OtaIInv

LEMMA OtaStep == OtaIInv /\ [OtaNext]_otaVars => OtaIInv'
<1> SUFFICES ASSUME OtaIInv, [OtaNext]_otaVars PROVE OtaIInv'
  OBVIOUS
<1>1. ASSUME NEW size \in OtaSizes, NEW s \in OtaServers, OtaStart(size, s)
      PROVE  OtaIInv'
  <2>1. Unstarted /\ ota \in OtaStruct
    BY <1>1 DEF OtaStart, OtaIInv
  <2> QED
    BY <1>1, <2>1, StartKeeps
<1>2. CASE UNCHANGED otaVars
  BY <1>2 DEF otaVars, OtaIInv, Unstarted, Announced, OtaAnnounced, OtaTypes, OtaInOrder,
              Counted, Between, AtFirst, AtHead, AtCopy, AtBack, OutFrom, Free
<1>3. CASE OtaRequest \/ OtaRest \/ OtaFirst \/ OtaHead \/ OtaUnknown
           \/ OtaSize \/ OtaCopy \/ OtaTrailer \/ OtaFetched \/ OtaDeinit
  <2>1. call.pc # "idle" /\ server' = server
    BY <1>3 DEF OtaRequest, OtaRest, OtaFirst, OtaHead, OtaUnknown, OtaSize, OtaCopy,
                OtaTrailer, OtaFetched, OtaDeinit
  <2>2. ota.state # "uninited"
    BY <2>1 DEF OtaIInv, Unstarted, NoCall
  <2>a. ota \in OtaStruct
    BY DEF OtaIInv
  <2>b. ota' = ota \/ (\E err \in {"none", "fetch_failed", "check_failed"} :
                         ota' = [ota EXCEPT !.state = "fetched", !.err = err])
    BY <1>3 DEF OtaRequest, OtaRest, OtaFirst, OtaHead, OtaUnknown, OtaSize, OtaCopy,
                OtaTrailer, OtaFetched, OtaDeinit
  <2>3. ota'.state # "uninited" /\ ota' \in OtaStruct
    BY <2>2, <2>a, <2>b DEF OtaStruct
  <2>4. ASSUME Announced PROVE OtaAnnounced'
    <3>1. OtaAnnounced
      BY <2>4 DEF OtaIInv
    <3>2. call.pc \notin {"unknown", "size", "trailer"}
      BY <3>1 DEF OtaAnnounced, OtaTypes, CallType
    <3>3. ~OtaUnknown /\ ~OtaSize /\ ~OtaTrailer
      BY <3>2 DEF OtaUnknown, OtaSize, OtaTrailer
    <3> QED
      BY <1>3, <2>4, <3>1, <3>3, RequestKeeps, RestKeeps, FirstKeeps, HeadKeeps, CopyKeeps,
         FetchedKeeps, DeinitKeeps
  <2> QED
    BY <2>1, <2>3, <2>4 DEF OtaIInv, Announced
<1> QED
  BY <1>1, <1>2, <1>3 DEF OtaNext

(* The firmware the application and the MD5 get is the announced file's,   *)
(* byte by byte in order (ofc_Fetch, httpclient_retrieve_content), for     *)
(* every file, buffer size and way the bytes arrive in.                    *)
THEOREM FirmwareInOrder == OtaSpec => []OtaInOrder
<1>1. OtaIInv => OtaInOrder
  BY DEF OtaIInv, OtaAnnounced, Announced, OtaInOrder
<1> QED
  BY OtaInitial, OtaStep, <1>1, PTL DEF OtaSpec

-----------------------------------------------------------------------------
(* Ota, whatever the server answers: the types.                            *)
Kinds == {"http", "crlf", "content-length", "empty", "byte", "chunked", "other", "size", "part"}
AnyToken == Kinds \X Nat

AnyHttp == [handle : {-1, 1}, is_more : BOOLEAN, is_chunked : BOOLEAN,
            retrieve_len : Nat, response_content_len : Nat \cup {-1}]
CallStates == {"idle", "fetch", "rest", "first", "head", "unknown", "size", "copy", "trailer",
               "back", "done", "freed"}
AnyCall ==
  [pc : CallStates, diff : Int, data : Seq(AnyToken), readLen : Nat, out : Seq(AnyToken),
   ret : Int]

(* A response in chunks has a length as long as the update goes on.        *)
ChunksCounted(h, c) ==
  h.is_chunked /\ h.response_content_len = -1 =>
    c.pc \in {"done", "freed"} \/ (c.pc = "back" /\ c.ret < 0)

OtaTyped ==
  /\ server.n \in Nat /\ server.mode \in {"length", "chunked", "neither", "endless"}
  /\ wire \in Seq(AnyToken)
  /\ http \in AnyHttp /\ call \in AnyCall
  /\ Len(call.data) < HttpChunkSize /\ Len(call.out) < RespBufLen
  /\ call.pc = "copy" => call.readLen = http.retrieve_len
  /\ ChunksCounted(http, call)
  /\ ota \in OtaStruct
  /\ ota.state = "uninited" => call.pc = "idle"

(* The chunks cover the bytes of the content.                              *)
LEMMA ChunkInContent ==
  ASSUME NEW s, s.n \in Nat, NEW k \in 1 .. Len(ChunkSizes(s)), NEW j \in 1 .. ChunkSizes(s)[k]
  PROVE  (k - 1) * OtaChunk + j \in 1 .. s.n
<1> DEFINE K == (s.n + OtaChunk - 1) \div OtaChunk
<1>1. K \in Nat
  BY OtaAssumption
<1>2. \A i \in 1 .. K : HTTPCLIENT_MIN(OtaChunk, s.n - (i - 1) * OtaChunk) \in Int
  BY OtaAssumption DEF HTTPCLIENT_MIN
<1> HIDE DEF K
<1>3. ChunkSizes(s) \in [1 .. K -> Int]
  BY <1>2 DEF ChunkSizes, K
<1>4. Len(ChunkSizes(s)) = K
  BY <1>1, <1>3, FunctionIsSeq
<1> DEFINE from == (k - 1) * OtaChunk
<1>5. from \in Nat
  BY <1>4, <1>1, OtaAssumption
<1>6. ChunkSizes(s)[k] = HTTPCLIENT_MIN(OtaChunk, s.n - from)
  BY <1>4 DEF ChunkSizes, K
<1> HIDE DEF from
<1>7. ChunkSizes(s)[k] <= s.n - from
  BY <1>5, <1>6, OtaAssumption DEF HTTPCLIENT_MIN
<1>8. from + j \in 1 .. s.n
  <2>1. ChunkSizes(s)[k] \in Int
    BY <1>5, <1>6, OtaAssumption DEF HTTPCLIENT_MIN
  <2> QED
    BY <1>5, <1>7, <2>1
<1> QED
  BY <1>8 DEF from

(* A number and the multiple of another one below it.                      *)
LEMMA QuotientFits ==
  ASSUME NEW B \in Nat \ {0}, NEW j \in Nat
  PROVE  j \div B \in Nat /\ B * (j \div B) <= j /\ j < B * (j \div B) + B
<1>1. j \div B \in Int /\ j \div B >= 0
  OBVIOUS
<1>2. B * (j \div B) <= j
  OBVIOUS
<1>3. j < B * (j \div B) + B
  OBVIOUS
<1> QED
  BY <1>1, <1>2, <1>3

(* There are so many chunks, none of a negative length.                    *)
LEMMA ChunkCount ==
  ASSUME NEW s, s.n \in Nat
  PROVE  Len(ChunkSizes(s)) \in Nat /\ \A k \in 1 .. Len(ChunkSizes(s)) : ChunkSizes(s)[k] \in Nat
<1> DEFINE K == (s.n + OtaChunk - 1) \div OtaChunk
<1>1. K \in Nat /\ K * OtaChunk < s.n + OtaChunk
  BY OtaAssumption
<1>2. ASSUME NEW i \in 1 .. K PROVE HTTPCLIENT_MIN(OtaChunk, s.n - (i - 1) * OtaChunk) \in Nat
  <2> DEFINE from == (i - 1) * OtaChunk
  <2>1. from + OtaChunk <= K * OtaChunk /\ from \in Nat
    <3> HIDE DEF K
    <3> QED
      BY <1>1, OtaAssumption
  <2> HIDE DEF from
  <2>2. s.n - from \in Nat
    <3> DEFINE z == K * OtaChunk
    <3>1. z \in Int
      BY <1>1, OtaAssumption
    <3> HIDE DEF z
    <3> QED
      BY <1>1, <2>1, <3>1, OtaAssumption DEF z
  <2>3. HTTPCLIENT_MIN(OtaChunk, s.n - from) \in Nat
    BY <2>2, OtaAssumption DEF HTTPCLIENT_MIN
  <2> QED
    BY <2>3 DEF from
<1> HIDE DEF K
<1>3. ChunkSizes(s) \in [1 .. K -> Nat]
  BY <1>2 DEF ChunkSizes, K
<1>4. Len(ChunkSizes(s)) = K
  BY <1>1, <1>3, FunctionIsSeq
<1> QED
  BY <1>1, <1>3, <1>4

(* What a response in chunks is made of.                                   *)
LEMMA ChunkedTyped ==
  ASSUME NEW s, s.n \in Nat
  PROVE  Chunked(s) \in Seq(AnyToken)
<1> DEFINE C == Len(ChunkSizes(s))
           whole == OtaChunk + 2
           total == s.n + 2 * C + 2
           at(i) == ((i - 1) \div whole) + 1
           p(i) == i - (at(i) - 1) * whole
           byte(i) ==
             IF at(i) > C THEN IF p(i) = 1 THEN Tok("size", 0) ELSE Tok("crlf", 0)
             ELSE IF p(i) = 1 THEN Tok("size", ChunkSizes(s)[at(i)])
             ELSE IF p(i) - 1 > ChunkSizes(s)[at(i)] THEN Tok("crlf", 0)
             ELSE Content(s)[(at(i) - 1) * OtaChunk + p(i) - 1]
<1>1. Chunked(s) = [i \in 1 .. total |-> byte(i)]
  BY DEF Chunked
<1>2. C \in Nat /\ \A k \in 1 .. C : ChunkSizes(s)[k] \in Nat
  BY ChunkCount
<1>3. whole \in Nat \ {0} /\ total \in Nat
  BY <1>2, OtaAssumption
<1> HIDE DEF C, total
<1>4. ASSUME NEW i \in 1 .. total PROVE byte(i) \in AnyToken
  <2>1. at(i) \in Nat \ {0} /\ p(i) \in 1 .. whole
    <3> DEFINE q == (i - 1) \div whole
               m == whole * q
    <3>1. q \in Nat /\ m <= i - 1 /\ i - 1 < m + whole
      <4>1. i - 1 \in Nat
        OBVIOUS
      <4> HIDE DEF whole
      <4> QED
        BY <1>3, <4>1, QuotientFits
    <3>2. m \in Nat /\ q * whole = m
      <4> HIDE DEF whole, q
      <4> QED
        BY <1>3, <3>1
    <3>3. at(i) = q + 1 /\ at(i) - 1 = q
      <4>1. at(i) = q + 1
        OBVIOUS
      <4> HIDE DEF at, q
      <4> QED
        BY <3>1, <4>1
    <3>4. p(i) = i - m
      <4>1. p(i) = i - (at(i) - 1) * whole
        OBVIOUS
      <4> HIDE DEF p, at, q, whole
      <4> QED
        BY <3>2, <3>3, <4>1 DEF m
    <3>5. i \in Int /\ whole \in Int
      BY <1>3
    <3> HIDE DEF q, m, whole, p, at
    <3> QED
      BY <3>1, <3>2, <3>3, <3>4, <3>5
  <2> DEFINE k == at(i)
             j == p(i) - 1
  <2>2. ASSUME k \in 1 .. C, j \in 1 .. ChunkSizes(s)[k]
        PROVE  Content(s)[(k - 1) * OtaChunk + j] \in AnyToken
    <3>1. (k - 1) * OtaChunk + j \in 1 .. s.n
      <4> HIDE DEF k, j
      <4> QED
        BY <2>2, ChunkInContent DEF C
    <3> DEFINE x == (k - 1) * OtaChunk + j
    <3> HIDE DEF x
    <3>2. x \in 1 .. s.n
      BY <3>1 DEF x
    <3>3. Content(s)[x] \in AnyToken
      BY <3>2 DEF Content, Tok, AnyToken, Kinds
    <3> QED
      BY <3>3 DEF x
  <2>3. (k - 1) * OtaChunk + p(i) - 1 = (k - 1) * OtaChunk + j
    <3>1. (k - 1) * OtaChunk \in Int
      <4> HIDE DEF k
      <4> QED
        BY <2>1, OtaAssumption DEF k
    <3> DEFINE y == (k - 1) * OtaChunk
    <3> HIDE DEF y, p
    <3> QED
      BY <2>1, <3>1 DEF y
  <2>4. \A v \in Nat : Tok("size", v) \in AnyToken /\ Tok("crlf", v) \in AnyToken
    BY DEF Tok, AnyToken, Kinds
  <2> DEFINE c == Content(s)[(k - 1) * OtaChunk + p(i) - 1]
  <2>5. k \in 1 .. C /\ j \in 1 .. ChunkSizes(s)[k] => c \in AnyToken
    BY <2>2, <2>3
  <2> HIDE DEF c
  <2>6. byte(i) = IF k > C THEN IF p(i) = 1 THEN Tok("size", 0) ELSE Tok("crlf", 0)
                  ELSE IF p(i) = 1 THEN Tok("size", ChunkSizes(s)[k])
                  ELSE IF j > ChunkSizes(s)[k] THEN Tok("crlf", 0) ELSE c
    BY DEF c
  <2> HIDE DEF at, p, byte, whole
  <2>7. k \in Nat \ {0} /\ j \in Nat /\ (p(i) # 1 => j >= 1)
    BY <1>3, <2>1
  <2> HIDE DEF k, j
  <2> QED
    BY <1>2, <2>4, <2>5, <2>6, <2>7
<1> HIDE DEF byte
<1> QED
  BY <1>1, <1>3, <1>4, FunctionIsSeq

(* What any response is made of.                                           *)
LEMMA ResponseTyped ==
  ASSUME NEW s, s.n \in Nat, s.mode \in {"length", "chunked", "neither", "endless"}
  PROVE  Response(s) \in Seq(AnyToken)
<1>1. /\ Tok("http", 0) \in AnyToken /\ Tok("crlf", 0) \in AnyToken /\ Tok("empty", 0) \in AnyToken
      /\ Tok("chunked", 0) \in AnyToken /\ Tok("other", 0) \in AnyToken
      /\ Tok("part", 0) \in AnyToken /\ Tok("content-length", s.n) \in AnyToken
  BY DEF Tok, AnyToken, Kinds
<1>2. Content(s) \in Seq(AnyToken)
  <2>1. \A i \in 1 .. s.n : Tok("byte", IF s.good THEN i ELSE 0) \in AnyToken
    BY DEF Tok, AnyToken, Kinds
  <2>2. Content(s) \in [1 .. s.n -> AnyToken]
    BY <2>1 DEF Content
  <2> QED
    BY <2>2, FunctionIsSeq
<1>3. Chunked(s) \in Seq(AnyToken)
  BY ChunkedTyped
<1>4. [i \in 1 .. HttpChunkSize |-> Tok("part", 0)] \in Seq(AnyToken)
  BY <1>1, OtaAssumption, FunctionIsSeq
<1> DEFINE begun(x, y, rest) == <<x, y>> \o rest
<1>5. \A x, y \in AnyToken : \A rest \in Seq(AnyToken) : <<x, y>> \o rest \in Seq(AnyToken)
  OBVIOUS
<1> DEFINE a == Content(s)
           b == Chunked(s)
           e == [i \in 1 .. HttpChunkSize |-> Tok("part", 0)]
           h == Tok("http", 0)
           c == Tok("crlf", 0)
           o == Tok("empty", 0)
           l == Tok("content-length", s.n)
           u == Tok("chunked", 0)
           v == Tok("other", 0)
           body == CASE s.mode = "length" -> <<l, o>> \o a
                     [] s.mode = "chunked" -> <<u, o>> \o b
                     [] s.mode = "neither" -> <<v, o>> \o a
                     [] s.mode = "endless" -> e
<1>6. Response(s) = <<h, c>> \o body
  BY DEF Response
<1> HIDE DEF a, b, e, h, c, o, l, u, v
<1>7. /\ <<l, o>> \o a \in Seq(AnyToken) /\ <<u, o>> \o b \in Seq(AnyToken)
      /\ <<v, o>> \o a \in Seq(AnyToken)
  BY <1>1, <1>2, <1>3, <1>5 DEF a, b, o, l, u, v
<1>8. body \in Seq(AnyToken)
  BY <1>4, <1>7 DEF e
<1> HIDE DEF body
<1>9. h \in AnyToken /\ c \in AnyToken
  BY <1>1 DEF h, c
<1> QED
  BY <1>5, <1>6, <1>8, <1>9

-----------------------------------------------------------------------------
(* What the steps write into a call.                                       *)
LEMMA CallValues ==
  /\ {"fetch", "rest", "first", "head", "unknown", "size", "copy", "trailer", "back", "done",
      "freed"} \subseteq CallStates
  /\ 0 \in Nat /\ 0 \in Int /\ -1 \in Int /\ <<>> \in Seq(AnyToken) /\ Len(<<>>) = 0
BY DEF CallStates

(* What the ends of a call keep.                                           *)
LEMMA FailTyped ==
  ASSUME OtaTyped, Fail, UNCHANGED <<server, ota, got>>, call.pc # "idle"
  PROVE  OtaTyped'
<1>1. http' = [http EXCEPT !.handle = -1] /\ wire' = <<>>
      /\ call' = [call EXCEPT !.pc = "back", !.ret = -1, !.data = <<>>]
  BY DEF Fail
<1>2. http' \in AnyHttp /\ http'.is_chunked = http.is_chunked
      /\ http'.response_content_len = http.response_content_len
  BY <1>1 DEF OtaTyped, AnyHttp
<1>3. /\ call' \in AnyCall /\ call'.pc = "back" /\ call'.ret = -1
      /\ Len(call'.data) = 0 /\ call'.out = call.out
  BY <1>1, CallValues DEF OtaTyped, AnyCall
<1>4. wire' \in Seq(AnyToken)
  BY <1>1, EmptySeq
<1> QED
  BY <1>2, <1>3, <1>4, OtaAssumption DEF OtaTyped, ChunksCounted

(* A call ends with what its buffer holds.                                 *)
LEMMA ReturnTyped ==
  ASSUME OtaTyped, UNCHANGED <<server, ota, got>>, call.pc # "idle", wire' \in Seq(AnyToken),
         NEW h \in AnyHttp, NEW out \in Seq(AnyToken), Len(out) < RespBufLen,
         h.is_chunked => h.response_content_len # -1, Return(h, out)
  PROVE  OtaTyped'
<1>1. /\ http' = IF h.is_more THEN h ELSE [h EXCEPT !.handle = -1]
      /\ call' = [call EXCEPT !.pc = "back", !.out = out, !.data = <<>>,
                    !.ret = h.response_content_len - h.retrieve_len - call.diff]
  BY DEF Return
<1>2. http' \in AnyHttp /\ http'.is_chunked = h.is_chunked
      /\ http'.response_content_len = h.response_content_len
  BY <1>1 DEF AnyHttp
<1>3. h.response_content_len - h.retrieve_len - call.diff \in Int
  BY DEF OtaTyped, AnyHttp, AnyCall
<1>4. call' \in AnyCall /\ call'.pc = "back" /\ Len(call'.data) = 0 /\ call'.out = out
  BY <1>1, <1>3, CallValues DEF OtaTyped, AnyCall
<1> QED
  BY <1>2, <1>4, OtaAssumption DEF OtaTyped, ChunksCounted

(* Content is asked for: what is left decides which state reads it.        *)
LEMMA RetrieveTyped ==
  ASSUME OtaTyped, UNCHANGED <<server, ota, got>>, call.pc # "idle", wire' \in Seq(AnyToken),
         NEW data \in Seq(AnyToken), Len(data) < HttpChunkSize,
         http.is_chunked => http.response_content_len # -1, RetrieveContent(http, data)
  PROVE  OtaTyped'
<1>1. /\ http' = [http EXCEPT !.is_more = TRUE]
      /\ call' = [call EXCEPT !.data = data, !.out = <<>>, !.readLen = http.retrieve_len,
                    !.pc = IF http.is_chunked THEN IF http.retrieve_len <= 0 THEN "size" ELSE "copy"
                           ELSE IF http.response_content_len = -1 THEN "unknown" ELSE "copy"]
  BY DEF RetrieveContent
<1>2. /\ http' \in AnyHttp /\ http'.is_chunked = http.is_chunked
      /\ http'.response_content_len = http.response_content_len
      /\ http'.retrieve_len = http.retrieve_len /\ http.retrieve_len \in Nat
  BY <1>1 DEF OtaTyped, AnyHttp
<1>3. /\ call' \in AnyCall /\ call'.data = data /\ Len(call'.out) = 0
      /\ call'.readLen = http.retrieve_len
  BY <1>1, <1>2, CallValues DEF OtaTyped, AnyCall
<1> QED
  BY <1>2, <1>3, OtaAssumption DEF OtaTyped, ChunksCounted

(* What a read takes from the connection.                                  *)
LEMMA Received ==
  ASSUME OtaTyped, NEW max \in Nat, NEW n \in RecvLengths(max)
  PROVE  /\ n \in 0 .. Len(wire) /\ n <= max
         /\ SubSeq(wire, 1, n) \in Seq(AnyToken) /\ Rest(wire, n) \in Seq(AnyToken)
         /\ Len(SubSeq(wire, 1, n)) = n
<1>1. wire \in Seq(AnyToken) /\ Len(wire) \in Nat
  BY LenProperties DEF OtaTyped
<1>2. n \in 0 .. Len(wire) /\ n <= max
  BY <1>1 DEF RecvLengths, HTTPCLIENT_MIN
<1> QED
  BY <1>1, <1>2, Taken

(* A fetch sends its request.                                              *)
LEMMA RequestTyped ==
  ASSUME OtaTyped, OtaRequest
  PROVE  OtaTyped'
<1>1. CASE Fail /\ UNCHANGED <<server, ota, got>>
  BY <1>1, FailTyped DEF OtaRequest
<1>2. ASSUME ~(Fail /\ UNCHANGED <<server, ota, got>>) PROVE OtaTyped'
  <2> DEFINE before == IF http.handle < 0 THEN <<>> ELSE wire
             h == [http EXCEPT !.handle = 1]
             c == [NoCall EXCEPT !.diff = http.response_content_len - http.retrieve_len]
  <2>1. /\ wire' = IF Len(before) >= OtaMaxWire THEN before ELSE before \o Response(server)
        /\ \/ http' = h /\ call' = [c EXCEPT !.pc = "rest"]
           \/ http' = [h EXCEPT !.is_more = TRUE] /\ call' = [c EXCEPT !.pc = "first"]
        /\ UNCHANGED <<server, ota, got>> /\ call.pc = "fetch"
    BY <1>2 DEF OtaRequest
  <2>2. before \in Seq(AnyToken) /\ Response(server) \in Seq(AnyToken)
    BY EmptySeq, ResponseTyped DEF OtaTyped
  <2>3. wire' \in Seq(AnyToken)
    <3> HIDE DEF before
    <3>1. before \o Response(server) \in Seq(AnyToken)
      BY <2>2, ConcatProperties
    <3> QED
      BY <2>1, <2>2, <3>1
  <2>4. /\ http' \in AnyHttp /\ http'.is_chunked = http.is_chunked
        /\ http'.response_content_len = http.response_content_len
    BY <2>1 DEF OtaTyped, AnyHttp
  <2>5. c = [pc |-> "idle", diff |-> http.response_content_len - http.retrieve_len,
             data |-> <<>>, readLen |-> 0, out |-> <<>>, ret |-> 0]
    BY DEF NoCall
  <2>6. http.response_content_len - http.retrieve_len \in Int
    BY DEF OtaTyped, AnyHttp
  <2>7. /\ call' \in AnyCall /\ call'.pc \in {"rest", "first"}
        /\ Len(call'.data) = 0 /\ Len(call'.out) = 0
    <3>1. PICK pc \in {"rest", "first"} : call' = [c EXCEPT !.pc = pc]
      BY <2>1
    <3>2. pc \in CallStates
      BY CallValues
    <3>3. call' = [pc |-> pc, diff |-> http.response_content_len - http.retrieve_len,
                   data |-> <<>>, readLen |-> 0, out |-> <<>>, ret |-> 0]
      BY <2>5, <3>1
    <3> QED
      BY <2>6, <3>2, <3>3, CallValues DEF AnyCall
  <2> HIDE DEF before, h, c
  <2> QED
    BY <2>1, <2>3, <2>4, <2>7, OtaAssumption DEF OtaTyped, ChunksCounted
<1> QED
  BY <1>1, <1>2

(* The first bytes of an answer, read for its head.                        *)
LEMMA FirstTyped ==
  ASSUME OtaTyped, OtaFirst
  PROVE  OtaTyped'
<1>1. CASE Fail
  BY <1>1, FailTyped DEF OtaFirst
<1>2. ASSUME ~Fail PROVE OtaTyped'
  <2>1. PICK n \in RecvLengths(HttpChunkSize - 1) :
          /\ wire' = Rest(wire, n)
          /\ LET s == SubSeq(wire, 1, n)
             IN  IF s = <<>> THEN Return(http, <<>>)
                 ELSE IF Len(s) < 2 \/ s[1][1] # "http"
                   THEN /\ http' = [http EXCEPT !.handle = -1, !.response_content_len = -1]
                        /\ call' = [call EXCEPT !.pc = "back", !.ret = -1]
                   ELSE /\ http' = [http EXCEPT !.response_content_len = -1, !.is_chunked = FALSE]
                        /\ call' = [call EXCEPT !.pc = "head", !.data = Rest(s, 2)]
    BY <1>2 DEF OtaFirst, Recv
  <2>2. UNCHANGED <<server, ota, got>> /\ call.pc = "first"
    BY DEF OtaFirst
  <2> DEFINE s == SubSeq(wire, 1, n)
  <2>3. s \in Seq(AnyToken) /\ Len(s) <= HttpChunkSize - 1 /\ wire' \in Seq(AnyToken)
        /\ Len(s) \in Nat
    BY <2>1, OtaAssumption, Received
  <2>4. CASE Return(http, <<>>)
    <3>1. http \in AnyHttp /\ http.is_chunked => http.response_content_len # -1
      BY <2>2 DEF OtaTyped, ChunksCounted
    <3>2. <<>> \in Seq(AnyToken) /\ Len(<<>>) < RespBufLen /\ http \in AnyHttp
      BY OtaAssumption, EmptySeq DEF OtaTyped
    <3> QED
      BY <2>2, <2>3, <2>4, <3>1, <3>2, ReturnTyped
  <2>5. CASE /\ http' = [http EXCEPT !.handle = -1, !.response_content_len = -1]
             /\ call' = [call EXCEPT !.pc = "back", !.ret = -1]
    <3>1. http' \in AnyHttp
      BY <2>5 DEF OtaTyped, AnyHttp
    <3>2. call' \in AnyCall /\ call'.pc = "back" /\ call'.ret = -1
          /\ call'.data = call.data /\ call'.out = call.out
      BY <2>5, CallValues DEF OtaTyped, AnyCall
    <3> QED
      BY <2>2, <2>3, <3>1, <3>2 DEF OtaTyped, ChunksCounted
  <2>6. CASE /\ Len(s) >= 2
             /\ http' = [http EXCEPT !.response_content_len = -1, !.is_chunked = FALSE]
             /\ call' = [call EXCEPT !.pc = "head", !.data = Rest(s, 2)]
    <3>1. http' \in AnyHttp /\ ~http'.is_chunked
      BY <2>6 DEF OtaTyped, AnyHttp
    <3>2. Rest(s, 2) \in Seq(AnyToken) /\ Len(Rest(s, 2)) = Len(s) - 2
      <4> HIDE DEF s
      <4>1. 2 \in 0 .. Len(s)
        BY <2>3, <2>6
      <4> QED
        BY <2>3, <4>1, Taken
    <3>3. /\ call' \in AnyCall /\ call'.pc = "head" /\ call'.data = Rest(s, 2)
          /\ call'.out = call.out
      BY <2>6, <3>2, CallValues DEF OtaTyped, AnyCall
    <3> HIDE DEF s
    <3> QED
      BY <2>2, <2>3, <3>1, <3>2, <3>3, OtaAssumption DEF OtaTyped, ChunksCounted
  <2> QED
    BY <2>1, <2>3, <2>4, <2>5, <2>6
<1> QED
  BY <1>1, <1>2

(* The answer that is not read to its end goes on.                         *)
LEMMA RestTyped ==
  ASSUME OtaTyped, OtaRest
  PROVE  OtaTyped'
<1>1. /\ call.pc = "rest" /\ RetrieveContent(http, <<>>)
      /\ UNCHANGED <<server, ota, got>> /\ wire' = wire
  BY DEF OtaRest
<1>2. http.is_chunked => http.response_content_len # -1
  BY <1>1 DEF OtaTyped, ChunksCounted
<1>3. wire' \in Seq(AnyToken) /\ <<>> \in Seq(AnyToken) /\ Len(<<>>) < HttpChunkSize
  BY <1>1, OtaAssumption, EmptySeq DEF OtaTyped
<1> QED
  BY <1>1, <1>2, <1>3, RetrieveTyped

(* More bytes in the buffer of the call, which has room for them.          *)
LEMMA MoreTyped ==
  ASSUME OtaTyped, UNCHANGED <<server, ota, got, http>>, call.pc \notin {"copy", "idle"},
         NEW n \in RecvLengths(HttpChunkSize - Len(call.data) - 1), wire' = Rest(wire, n),
         call' = [call EXCEPT !.data = @ \o SubSeq(wire, 1, n)]
  PROVE  OtaTyped'
<1> DEFINE s == SubSeq(wire, 1, n)
<1>1. call.data \in Seq(AnyToken) /\ Len(call.data) \in Nat /\ Len(call.data) < HttpChunkSize
  BY LenProperties DEF OtaTyped, AnyCall
<1>2. s \in Seq(AnyToken) /\ Len(s) = n /\ wire' \in Seq(AnyToken)
      /\ n <= HttpChunkSize - Len(call.data) - 1 /\ n \in Nat
  <2>1. HttpChunkSize - Len(call.data) - 1 \in Nat
    BY <1>1, OtaAssumption
  <2>2. n \in 0 .. Len(wire) /\ Len(wire) \in Nat
    BY <2>1, Received, LenProperties DEF OtaTyped
  <2> QED
    BY <2>1, <2>2, Received
<1> HIDE DEF s
<1>3. call.data \o s \in Seq(AnyToken) /\ Len(call.data \o s) = Len(call.data) + n
  BY <1>1, <1>2, ConcatProperties
<1>4. call' = [call EXCEPT !.data = call.data \o s]
  BY DEF s
<1>5. /\ call' \in AnyCall /\ call'.data = call.data \o s /\ call'.pc = call.pc
      /\ call'.out = call.out /\ call'.ret = call.ret
  BY <1>3, <1>4 DEF OtaTyped, AnyCall
<1>6. Len(call.data) + n < HttpChunkSize
  BY <1>1, <1>2, OtaAssumption
<1>7. ChunksCounted(http, call) => ChunksCounted(http', call')
  BY <1>5 DEF ChunksCounted
<1> HIDE DEF ChunksCounted, AnyCall
<1> QED
  BY <1>2, <1>3, <1>5, <1>6, <1>7 DEF OtaTyped

(* The bytes behind the first ones of the buffer.                          *)
LEMMA BehindTyped ==
  ASSUME OtaTyped, NEW k \in 0 .. Len(call.data)
  PROVE  /\ Rest(call.data, k) \in Seq(AnyToken) /\ Len(Rest(call.data, k)) = Len(call.data) - k
         /\ Len(Rest(call.data, k)) < HttpChunkSize
<1>1. call.data \in Seq(AnyToken) /\ Len(call.data) \in Nat /\ Len(call.data) < HttpChunkSize
  BY LenProperties DEF OtaTyped, AnyCall
<1>2. Rest(call.data, k) \in Seq(AnyToken) /\ Len(Rest(call.data, k)) = Len(call.data) - k
  BY <1>1, Taken
<1> QED
  BY <1>1, <1>2, OtaAssumption

(* The head of an answer is parsed (httpclient_response_parse).            *)
LEMMA HeadTyped ==
  ASSUME OtaTyped, OtaHead
  PROVE  OtaTyped'
<1>1. UNCHANGED <<server, ota, got>> /\ call.pc = "head"
  BY DEF OtaHead
<1>2. CASE Fail
  BY <1>1, <1>2, FailTyped
<1>3. CASE call.data = <<>> \/ call.data[1][1] = "part"
  <2>1. ASSUME ~Fail
        PROVE  \E n \in RecvLengths(HttpChunkSize - Len(call.data) - 1) :
                 /\ wire' = Rest(wire, n) /\ UNCHANGED http
                 /\ call' = [call EXCEPT !.data = @ \o SubSeq(wire, 1, n)]
    BY <1>3, <2>1 DEF OtaHead, Recv
  <2> QED
    BY <1>1, <1>2, <2>1, MoreTyped
<1>4. CASE ~(call.data = <<>> \/ call.data[1][1] = "part")
  <2> DEFINE line == call.data[1]
             more == Tail(call.data)
  <2>1. /\ wire' = wire
        /\ \/ line[1] = "empty" /\ RetrieveContent(http, more)
           \/ /\ line[1] = "content-length"
              /\ http' = [http EXCEPT !.response_content_len = line[2], !.retrieve_len = line[2]]
              /\ call' = [call EXCEPT !.data = more]
           \/ /\ http' = [http EXCEPT !.is_chunked = TRUE, !.retrieve_len = 0,
                                      !.response_content_len = 0]
              /\ call' = [call EXCEPT !.data = more]
           \/ UNCHANGED http /\ call' = [call EXCEPT !.data = more]
    BY <1>4 DEF OtaHead
  <2>2. call.data \in Seq(AnyToken) /\ call.data # <<>> /\ Len(call.data) < HttpChunkSize
        /\ Len(call.data) \in Nat
    BY <1>4, LenProperties DEF OtaTyped, AnyCall
  <2>3. line \in AnyToken /\ more \in Seq(AnyToken) /\ Len(more) = Len(call.data) - 1
    <3>1. Len(call.data) # 0
      BY <2>2, EmptySeq
    <3>2. 1 \in 1 .. Len(call.data)
      BY <2>2, <3>1
    <3> QED
      BY <2>2, <3>2, ElementOfSeq, HeadTailProperties
  <2>4. line[2] \in Nat
    BY <2>3 DEF AnyToken
  <2> HIDE DEF line, more
  <2>5. Len(more) < HttpChunkSize /\ Len(more) \in Nat
    BY <2>2, <2>3, OtaAssumption, LenProperties
  <2>6. http.is_chunked => http.response_content_len # -1
    BY <1>1 DEF OtaTyped, ChunksCounted
  <2>7. wire' \in Seq(AnyToken)
    BY <2>1 DEF OtaTyped
  <2>8. CASE RetrieveContent(http, more)
    BY <1>1, <2>3, <2>5, <2>6, <2>7, <2>8, RetrieveTyped
  <2>9. ASSUME call' = [call EXCEPT !.data = more], http' \in AnyHttp,
               http'.is_chunked => http'.response_content_len # -1
        PROVE  OtaTyped'
    <3>1. call' \in AnyCall /\ call'.data = more /\ call'.pc = call.pc /\ call'.out = call.out
      BY <2>3, <2>9 DEF OtaTyped, AnyCall
    <3> QED
      BY <1>1, <2>5, <2>7, <2>9, <3>1 DEF OtaTyped, ChunksCounted
  <2>10. CASE http' = [http EXCEPT !.response_content_len = line[2], !.retrieve_len = line[2]]
              /\ call' = [call EXCEPT !.data = more]
    <3>1. http' \in AnyHttp /\ http'.response_content_len \in Nat
      BY <2>4, <2>10 DEF OtaTyped, AnyHttp
    <3> QED
      BY <2>9, <2>10, <3>1
  <2>11. CASE http' = [http EXCEPT !.is_chunked = TRUE, !.retrieve_len = 0,
                                   !.response_content_len = 0]
              /\ call' = [call EXCEPT !.data = more]
    <3>1. http' \in AnyHttp /\ http'.response_content_len \in Nat
      BY <2>11 DEF OtaTyped, AnyHttp
    <3> QED
      BY <2>9, <2>11, <3>1
  <2>12. CASE http' = http /\ call' = [call EXCEPT !.data = more]
    BY <2>6, <2>9, <2>12 DEF OtaTyped
  <2> QED
    BY <2>1, <2>8, <2>10, <2>11, <2>12
<1> QED
  BY <1>3, <1>4

(* The bytes copied out fit into the buffer of the caller.                 *)
LEMMA OutTyped ==
  ASSUME OtaTyped, NEW m \in Nat, m <= Len(call.data)
  PROVE  LET out == call.out \o SubSeq(call.data, 1, HTTPCLIENT_MIN(m, Free))
         IN  out \in Seq(AnyToken) /\ Len(out) < RespBufLen
<1> DEFINE k == HTTPCLIENT_MIN(m, Free)
           s == SubSeq(call.data, 1, k)
<1>1. /\ call.data \in Seq(AnyToken) /\ call.out \in Seq(AnyToken)
      /\ Len(call.out) \in Nat /\ Len(call.data) \in Nat /\ Len(call.out) < RespBufLen
  BY LenProperties DEF OtaTyped, AnyCall
<1>2. Free \in Nat /\ Free = RespBufLen - 1 - Len(call.out)
  BY <1>1, OtaAssumption DEF Free
<1>3. k \in 0 .. Len(call.data) /\ k <= Free
  BY <1>1, <1>2 DEF HTTPCLIENT_MIN
<1>4. s \in Seq(AnyToken) /\ Len(s) = k
  BY <1>1, <1>3, Taken
<1> HIDE DEF s, k
<1>5. call.out \o s \in Seq(AnyToken) /\ Len(call.out \o s) = Len(call.out) + k
  BY <1>1, <1>4, ConcatProperties
<1>6. Len(call.out \o s) < RespBufLen
  BY <1>1, <1>2, <1>3, <1>5, OtaAssumption
<1> QED
  BY <1>5, <1>6 DEF s, k

(* Content of a length nobody said.                                        *)
LEMMA UnknownTyped ==
  ASSUME OtaTyped, OtaUnknown
  PROVE  OtaTyped'
<1> DEFINE out == call.out \o SubSeq(call.data, 1, HTTPCLIENT_MIN(Len(call.data), Free))
           max == HTTPCLIENT_MIN(HttpChunkSize - 1, Free - Len(call.data))
<1>1. UNCHANGED <<server, ota, got>> /\ call.pc = "unknown"
  BY DEF OtaUnknown
<1>2. Len(call.data) \in Nat /\ out \in Seq(AnyToken) /\ Len(out) < RespBufLen
  <2>1. Len(call.data) \in Nat
    BY LenProperties DEF OtaTyped, AnyCall
  <2> QED
    BY <2>1, OutTyped
<1>3. http \in AnyHttp /\ (http.is_chunked => http.response_content_len # -1)
  BY <1>1 DEF OtaTyped, ChunksCounted
<1>4. CASE Fail
  BY <1>1, <1>4, FailTyped
<1>5. CASE Len(call.data) >= Free
  <2>1. Return(http, out) /\ wire' = wire
    BY <1>5 DEF OtaUnknown
  <2>2. wire' \in Seq(AnyToken)
    BY <2>1 DEF OtaTyped
  <2> HIDE DEF out
  <2> QED
    BY <1>1, <1>2, <1>3, <2>1, <2>2, ReturnTyped
<1>6. CASE ~(Len(call.data) >= Free) /\ ~Fail
  <2>1. PICK n \in RecvLengths(max) :
          /\ wire' = Rest(wire, n)
          /\ LET s == SubSeq(wire, 1, n)
             IN  IF s = <<>> THEN Return([http EXCEPT !.is_more = FALSE], out)
                 ELSE UNCHANGED http /\ call' = [call EXCEPT !.data = s, !.out = out]
    BY <1>6 DEF OtaUnknown, Recv
  <2> DEFINE s == SubSeq(wire, 1, n)
             h == [http EXCEPT !.is_more = FALSE]
  <2>2. max \in Nat /\ max <= HttpChunkSize - 1
    <3>1. Free \in Int
      BY OtaAssumption, LenProperties DEF Free, OtaTyped, AnyCall
    <3> QED
      BY <1>2, <1>6, <3>1, OtaAssumption DEF HTTPCLIENT_MIN
  <2>3. s \in Seq(AnyToken) /\ wire' \in Seq(AnyToken) /\ Len(s) < HttpChunkSize
    <3> HIDE DEF max
    <3>1. /\ n <= max /\ s \in Seq(AnyToken) /\ Rest(wire, n) \in Seq(AnyToken)
          /\ Len(s) = n /\ n \in 0 .. Len(wire) /\ Len(wire) \in Nat
      BY <2>1, <2>2, Received, LenProperties DEF OtaTyped
    <3> HIDE DEF s
    <3> QED
      BY <2>1, <2>2, <3>1, OtaAssumption
  <2>4. h \in AnyHttp /\ h.is_chunked = http.is_chunked
        /\ h.response_content_len = http.response_content_len
    BY <1>3 DEF AnyHttp
  <2> HIDE DEF out, max
  <2>5. CASE Return(h, out)
    <3> HIDE DEF h
    <3> QED
      BY <1>1, <1>2, <1>3, <2>3, <2>4, <2>5, ReturnTyped
  <2>6. CASE UNCHANGED http /\ call' = [call EXCEPT !.data = s, !.out = out]
    <3> HIDE DEF s
    <3>1. /\ call' \in AnyCall /\ call'.data = s /\ call'.out = out /\ call'.pc = call.pc
      BY <1>2, <2>3, <2>6 DEF OtaTyped, AnyCall
    <3> QED
      BY <1>1, <1>2, <1>3, <2>3, <2>6, <3>1 DEF OtaTyped, ChunksCounted
  <2> QED
    BY <2>1, <2>5, <2>6
<1> QED
  BY <1>4, <1>5, <1>6

(* The size line of a chunk (httpclient_retrieve_content).                 *)
LEMMA SizeTyped ==
  ASSUME OtaTyped, OtaSize
  PROVE  OtaTyped'
<1>1. UNCHANGED <<server, ota, got>> /\ call.pc = "size"
  BY DEF OtaSize
<1>2. CASE Fail
  BY <1>1, <1>2, FailTyped
<1>3. CASE LineAt(call.data) = {}
  <2>1. ASSUME ~Fail
        PROVE  \E n \in RecvLengths(HttpChunkSize - Len(call.data) - 1) :
                 /\ wire' = Rest(wire, n) /\ UNCHANGED http
                 /\ call' = [call EXCEPT !.data = @ \o SubSeq(wire, 1, n)]
    BY <1>3, <2>1 DEF OtaSize, Recv
  <2> QED
    BY <1>1, <1>2, <2>1, MoreTyped
<1>4. CASE LineAt(call.data) # {} /\ ~Fail
  <2> DEFINE i == CHOOSE i \in LineAt(call.data) : \A j \in LineAt(call.data) : i <= j
             more == Rest(call.data, i)
             h(n) == [http EXCEPT !.retrieve_len = n, !.response_content_len = @ + n]
             sized(n) ==
               IF n = 0 THEN Return([h(n) EXCEPT !.is_more = FALSE], call.out)
               ELSE http' = h(n) /\ call' = [call EXCEPT !.data = more, !.readLen = n, !.pc = "copy"]
  <2>1. /\ wire' = wire
        /\ \/ call.data[1][1] = "size" /\ sized(call.data[1][2])
           \/ \E n \in 0 .. 1 : sized(n)
    BY <1>4 DEF OtaSize
  <2>2. call.data \in Seq(AnyToken) /\ Len(call.data) \in Nat
        /\ call.out \in Seq(AnyToken) /\ Len(call.out) < RespBufLen
    BY LenProperties DEF OtaTyped, AnyCall
  <2>3. i \in 1 .. Len(call.data) - 1
    <3> DEFINE L == LineAt(call.data)
    <3>1. L \subseteq 1 .. Len(call.data) - 1 /\ L # {}
      BY <1>4 DEF LineAt
    <3>2. L \subseteq Nat
      BY <3>1
    <3> HIDE DEF L
    <3>3. PICK m \in L : \A j \in L : m <= j
      BY <3>1, <3>2, LeastNumber
    <3>4. (CHOOSE m1 \in L : \A j \in L : m1 <= j) \in L
      BY <3>3
    <3> QED
      BY <3>1, <3>4 DEF L
  <2>4. more \in Seq(AnyToken) /\ Len(more) < HttpChunkSize
    <3> HIDE DEF i
    <3> QED
      BY <2>2, <2>3, BehindTyped
  <2>5. call.data[1][2] \in Nat
    <3>1. 1 \in 1 .. Len(call.data)
      <4> HIDE DEF i
      <4> QED
        BY <2>2, <2>3
    <3>2. call.data[1] \in AnyToken
      BY <2>2, <3>1, ElementOfSeq
    <3> QED
      BY <3>2 DEF AnyToken
  <2> HIDE DEF i, more
  <2>6. http.is_chunked => http.response_content_len # -1
    BY <1>1 DEF OtaTyped, ChunksCounted
  <2>7. ASSUME NEW n \in Nat, sized(n) PROVE OtaTyped'
    <3>1. http.response_content_len + n \in Nat \cup {-1}
          /\ (http.is_chunked => http.response_content_len + n # -1)
      BY <2>6 DEF OtaTyped, AnyHttp
    <3>2. h(n) \in AnyHttp /\ h(n).retrieve_len = n /\ h(n).is_chunked = http.is_chunked
          /\ h(n).response_content_len = http.response_content_len + n
      BY <3>1 DEF OtaTyped, AnyHttp
    <3> HIDE DEF h
    <3>3. CASE n = 0
      <4> DEFINE g == [h(n) EXCEPT !.is_more = FALSE]
      <4>1. g \in AnyHttp /\ g.is_chunked = http.is_chunked
            /\ g.response_content_len = http.response_content_len + n
        BY <3>2 DEF AnyHttp
      <4>2. Return(g, call.out) /\ wire' \in Seq(AnyToken)
        BY <2>1, <2>7, <3>3 DEF OtaTyped
      <4> HIDE DEF g
      <4> QED
        BY <1>1, <2>2, <3>1, <4>1, <4>2, ReturnTyped
    <3>4. CASE n # 0
      <4>1. http' = h(n) /\ call' = [call EXCEPT !.data = more, !.readLen = n, !.pc = "copy"]
        BY <2>7, <3>4
      <4>2. /\ call' \in AnyCall /\ call'.data = more /\ call'.readLen = n /\ call'.pc = "copy"
            /\ call'.out = call.out
        BY <2>4, <4>1, CallValues DEF OtaTyped, AnyCall
      <4> QED
        BY <1>1, <2>1, <2>4, <3>1, <3>2, <4>1, <4>2 DEF OtaTyped, ChunksCounted
    <3> QED
      BY <3>3, <3>4
  <2> HIDE DEF sized
  <2> QED
    BY <2>1, <2>5, <2>7
<1> QED
  BY <1>2, <1>3, <1>4

(* Content is copied out, or read straight into the buffer of the caller.  *)
LEMMA CopyTyped ==
  ASSUME OtaTyped, OtaCopy
  PROVE  OtaTyped'
<1> DEFINE templen == HTTPCLIENT_MIN(Len(call.data), call.readLen)
           out == call.out \o SubSeq(call.data, 1, HTTPCLIENT_MIN(templen, Free))
           max == HTTPCLIENT_MIN(HTTPCLIENT_MIN(HttpChunkSize - 1, Free - templen),
                                 call.readLen - templen)
           left(m) == [http EXCEPT !.retrieve_len = @ - m]
<1>1. UNCHANGED <<server, ota, got>> /\ call.pc = "copy"
  BY DEF OtaCopy
<1>2. /\ call.data \in Seq(AnyToken) /\ Len(call.data) \in Nat /\ Len(call.data) < HttpChunkSize
      /\ Len(call.out) \in Nat /\ Len(call.out) < RespBufLen
      /\ call.readLen \in Nat /\ http.retrieve_len = call.readLen
  BY <1>1, LenProperties DEF OtaTyped, AnyCall
<1>3. templen \in 0 .. Len(call.data) /\ templen <= call.readLen /\ templen \in Nat
  BY <1>2 DEF HTTPCLIENT_MIN
<1>4. Free \in Nat
  BY <1>2, OtaAssumption DEF Free
<1>5. out \in Seq(AnyToken) /\ Len(out) < RespBufLen
  <2> HIDE DEF templen
  <2> QED
    BY <1>2, <1>3, OutTyped
<1>6. http.is_chunked => http.response_content_len # -1
  BY <1>1 DEF OtaTyped, ChunksCounted
<1>7. ASSUME NEW m \in Nat, m <= call.readLen
      PROVE  /\ left(m) \in AnyHttp /\ left(m).is_chunked = http.is_chunked
             /\ left(m).response_content_len = http.response_content_len
             /\ left(m).retrieve_len = call.readLen - m /\ call.readLen - m \in Nat
  <2>1. http.retrieve_len - m = call.readLen - m /\ call.readLen - m \in Nat
    BY <1>2, <1>7
  <2> QED
    BY <2>1 DEF OtaTyped, AnyHttp
<1> HIDE DEF templen, out, left
<1>8. CASE Fail
  BY <1>1, <1>8, FailTyped
<1>9. CASE templen >= Free
  <2>1. Return(left(Free), out) /\ wire' = wire
    BY <1>9 DEF OtaCopy, templen, out, left
  <2>2. Free <= call.readLen
    BY <1>2, <1>3, <1>4, <1>9
  <2>3. wire' \in Seq(AnyToken)
    BY <2>1 DEF OtaTyped
  <2>4. left(Free) \in AnyHttp /\ (left(Free).is_chunked => left(Free).response_content_len # -1)
    BY <1>4, <1>6, <1>7, <2>2
  <2> QED
    BY <1>1, <1>5, <2>1, <2>3, <2>4, ReturnTyped
<1>10. CASE ~(templen >= Free) /\ templen < call.readLen /\ ~Fail
  <2>1. PICK n \in RecvLengths(max) :
          /\ wire' = Rest(wire, n) /\ http' = left(templen)
          /\ call' = [call EXCEPT !.data = SubSeq(wire, 1, n), !.out = out, !.readLen = @ - templen]
    BY <1>10 DEF OtaCopy, Recv, templen, out, left
  <2> DEFINE s == SubSeq(wire, 1, n)
  <2>2. max \in Nat /\ max <= HttpChunkSize - 1
    BY <1>2, <1>3, <1>4, <1>10, OtaAssumption DEF HTTPCLIENT_MIN
  <2> HIDE DEF max
  <2>3. s \in Seq(AnyToken) /\ wire' \in Seq(AnyToken) /\ Len(s) < HttpChunkSize
    <3>1. /\ n <= max /\ s \in Seq(AnyToken) /\ Rest(wire, n) \in Seq(AnyToken)
          /\ Len(s) = n /\ n \in 0 .. Len(wire) /\ Len(wire) \in Nat
      BY <2>1, <2>2, Received, LenProperties DEF OtaTyped
    <3> HIDE DEF s
    <3> QED
      BY <2>1, <2>2, <3>1, OtaAssumption
  <2>4. /\ http' \in AnyHttp /\ http'.is_chunked = http.is_chunked
        /\ http'.response_content_len = http.response_content_len
        /\ http'.retrieve_len = call.readLen - templen /\ call.readLen - templen \in Nat
    BY <1>3, <1>7, <2>1
  <2> HIDE DEF s
  <2>5. call' = [call EXCEPT !.data = s, !.out = out, !.readLen = call.readLen - templen]
    BY <2>1 DEF s
  <2>6. /\ call' \in AnyCall /\ call'.data = s /\ call'.out = out /\ call'.pc = call.pc
        /\ call'.readLen = call.readLen - templen
    BY <1>5, <2>3, <2>4, <2>5 DEF OtaTyped, AnyCall
  <2> QED
    BY <1>1, <1>5, <1>6, <2>3, <2>4, <2>6 DEF OtaTyped, ChunksCounted
<1>11. CASE ~(templen >= Free) /\ ~(templen < call.readLen)
  <2> DEFINE h == left(templen)
             g == [h EXCEPT !.is_more = FALSE]
             rest == IF Len(call.data) > templen THEN Rest(call.data, templen) ELSE call.data
  <2>1. /\ wire' = wire
        /\ IF http.is_chunked
             THEN http' = h /\ call' = [call EXCEPT !.pc = "trailer", !.out = out, !.data = rest]
             ELSE Return(g, out)
    BY <1>11 DEF OtaCopy, templen, out, left
  <2>2. h \in AnyHttp /\ h.is_chunked = http.is_chunked
        /\ h.response_content_len = http.response_content_len
    BY <1>3, <1>7
  <2>3. rest \in Seq(AnyToken) /\ Len(rest) < HttpChunkSize
    <3>1. /\ Rest(call.data, templen) \in Seq(AnyToken)
          /\ Len(Rest(call.data, templen)) < HttpChunkSize
      BY <1>3, BehindTyped
    <3> QED
      BY <1>2, <3>1
  <2> HIDE DEF h, rest
  <2>4. g \in AnyHttp /\ g.is_chunked = http.is_chunked
        /\ g.response_content_len = http.response_content_len
    BY <2>2 DEF AnyHttp
  <2> HIDE DEF g
  <2>5. wire' \in Seq(AnyToken)
    BY <2>1 DEF OtaTyped
  <2>6. CASE http.is_chunked
    <3>1. http' = h /\ call' = [call EXCEPT !.pc = "trailer", !.out = out, !.data = rest]
      BY <2>1, <2>6
    <3>2. call' \in AnyCall /\ call'.data = rest /\ call'.out = out /\ call'.pc = "trailer"
      BY <1>5, <2>3, <3>1, CallValues DEF OtaTyped, AnyCall
    <3> QED
      BY <1>1, <1>5, <1>6, <2>2, <2>3, <2>5, <3>1, <3>2 DEF OtaTyped, ChunksCounted
  <2>7. CASE ~http.is_chunked
    BY <1>1, <1>5, <2>1, <2>4, <2>5, <2>7, ReturnTyped
  <2> QED
    BY <2>6, <2>7
<1> QED
  BY <1>8, <1>9, <1>10, <1>11

(* The line break behind a chunk.                                          *)
LEMMA TrailerTyped ==
  ASSUME OtaTyped, OtaTrailer
  PROVE  OtaTyped'
<1>1. UNCHANGED <<server, ota, got>> /\ call.pc = "trailer"
  BY DEF OtaTrailer
<1>2. http.is_chunked => http.response_content_len # -1
  BY <1>1 DEF OtaTyped, ChunksCounted
<1>3. CASE Fail
  BY <1>1, <1>3, FailTyped
<1>4. ASSUME NEW n \in 1 .. 2, UNCHANGED <<wire, http>>,
             call' = [call EXCEPT !.pc = "size", !.data = Rest(call.data, n)]
      PROVE  OtaTyped'
  <2> DEFINE more == Rest(call.data, n)
  <2>1. more \in Seq(AnyToken) /\ Len(more) < HttpChunkSize
    <3>1. call.data \in Seq(AnyToken) /\ Len(call.data) \in Nat
      BY LenProperties DEF OtaTyped, AnyCall
    <3>2. CASE n <= Len(call.data)
      <4>1. n \in 0 .. Len(call.data)
        BY <3>1, <3>2
      <4> QED
        BY <4>1, BehindTyped
    <3>3. CASE n > Len(call.data)
      BY <3>1, <3>3, OtaAssumption DEF Rest
    <3> QED
      BY <3>1, <3>2, <3>3
  <2> HIDE DEF more
  <2>2. call' \in AnyCall /\ call'.pc = "size" /\ call'.data = more /\ call'.out = call.out
    BY <1>4, <2>1, CallValues DEF OtaTyped, AnyCall, more
  <2> QED
    BY <1>1, <1>2, <1>4, <2>1, <2>2 DEF OtaTyped, ChunksCounted
<1> QED
  BY <1>3, <1>4 DEF OtaTrailer

(* The application has what a call returned (ofc_Fetch).                   *)
LEMMA FetchedTyped ==
  ASSUME OtaTyped, OtaFetched
  PROVE  OtaTyped'
<1>1. UNCHANGED <<server, wire, http>> /\ call.pc = "back"
  BY DEF OtaFetched
<1>2. \/ call' = [NoCall EXCEPT !.pc = "done"]
      \/ call.ret >= 0 /\ call' = [NoCall EXCEPT !.pc = "fetch"]
  BY DEF OtaFetched, OtaTyped, AnyCall
<1>3. /\ call' \in AnyCall /\ Len(call'.data) = 0 /\ Len(call'.out) = 0
      /\ call'.pc = "done" \/ (call'.pc = "fetch" /\ call.ret >= 0)
  BY <1>2, CallValues DEF AnyCall, NoCall
<1>4. ota' \in OtaStruct /\ (ota'.state = "uninited" => ota.state = "uninited")
  <2>1. \/ UNCHANGED ota
        \/ ota' = [ota EXCEPT !.state = "fetched", !.err = "fetch_failed"]
        \/ ota' = [ota EXCEPT !.state = "fetched", !.err = "none"]
        \/ ota' = [ota EXCEPT !.state = "fetched", !.err = "check_failed"]
    BY DEF OtaFetched
  <2> QED
    BY <2>1 DEF OtaTyped, OtaStruct
<1>5. call.ret \in Int
  BY DEF OtaTyped, AnyCall
<1> QED
  BY <1>1, <1>3, <1>4, <1>5, OtaAssumption DEF OtaTyped, ChunksCounted

(* The update that has not begun.                                          *)
LEMMA TypedInitial == OtaInit => OtaTyped
<1> SUFFICES ASSUME OtaInit PROVE OtaTyped
  OBVIOUS
<1>1. server.n = 0 /\ server.mode = "neither" /\ wire \in Seq(AnyToken)
  BY EmptySeq DEF OtaInit
<1>2. http \in AnyHttp /\ ~http.is_chunked
  BY DEF OtaInit, AnyHttp
<1>3. call \in AnyCall /\ Len(call.data) = 0 /\ Len(call.out) = 0 /\ call.pc = "idle"
  <2>1. call = NoCall /\ "idle" \in CallStates
    BY DEF OtaInit, CallStates
  <2> QED
    BY <2>1, CallValues DEF AnyCall, NoCall
<1>4. ota \in OtaStruct
  BY DEF OtaInit, OtaStruct
<1> QED
  BY <1>1, <1>2, <1>3, <1>4, OtaAssumption DEF OtaTyped, ChunksCounted

(* Every step keeps the types.                                             *)
LEMMA TypedStep == OtaTyped /\ [OtaNext]_otaVars => OtaTyped'
<1> SUFFICES ASSUME OtaTyped, [OtaNext]_otaVars PROVE OtaTyped'
  OBVIOUS
<1>1. ASSUME NEW size \in OtaSizes, NEW s \in OtaServers, OtaStart(size, s) PROVE OtaTyped'
  <2>1. server' = s /\ UNCHANGED <<wire, http>> /\ call' = [NoCall EXCEPT !.pc = "fetch"]
    BY <1>1 DEF OtaStart
  <2>2. ota' = [ota EXCEPT !.state = "inited", !.size_file = size] /\ ota.state = "uninited"
    BY <1>1 DEF OtaStart
  <2>3. ota' \in OtaStruct /\ ota'.state = "inited" /\ call.pc = "idle"
    BY <2>2 DEF OtaTyped, OtaStruct
  <2>4. call' \in AnyCall /\ Len(call'.data) = 0 /\ Len(call'.out) = 0 /\ call'.pc = "fetch"
    BY <2>1, CallValues DEF AnyCall, NoCall
  <2> QED
    BY <2>1, <2>3, <2>4, OtaAssumption DEF OtaTyped, ChunksCounted
<1>2. CASE OtaDeinit
  <2>1. /\ UNCHANGED <<server, wire, http, ota>> /\ call.pc = "done"
        /\ call' = [NoCall EXCEPT !.pc = "freed"]
    BY <1>2 DEF OtaDeinit
  <2>2. call' \in AnyCall /\ Len(call'.data) = 0 /\ Len(call'.out) = 0 /\ call'.pc = "freed"
    BY <2>1, CallValues DEF AnyCall, NoCall
  <2> QED
    BY <2>1, <2>2, OtaAssumption DEF OtaTyped, ChunksCounted
<1>3. CASE UNCHANGED otaVars
  BY <1>3 DEF otaVars, OtaTyped, ChunksCounted
<1> QED
  BY <1>1, <1>2, <1>3, RequestTyped, RestTyped, FirstTyped, HeadTyped, UnknownTyped, SizeTyped,
     CopyTyped, TrailerTyped, FetchedTyped DEF OtaNext

(* The counts of httpclient_data_t and of the update are natural numbers   *)
(* that their buffers have room for, whatever the server answers and in    *)
(* whatever pieces it arrives: no length that is taken from another        *)
(* (response_content_len, retrieve_len, the buffer's) goes below zero.     *)
THEOREM OtaTypeCorrect == OtaSpec => []OtaTypeOK
<1>1. OtaTyped => OtaTypeOK
  BY DEF OtaTyped, OtaTypeOK, AnyHttp, OtaStruct
<1> QED
  BY <1>1, TypedInitial, TypedStep, PTL DEF OtaSpec

-----------------------------------------------------------------------------
(* Topics, from their ends: the levels of a filter and of a name, and the  *)
(* matching of one against the other.                                      *)
Wild == {"+", "#"}

(* The levels of the ends of a topic, the one of each position.            *)
Down(L, t, C) ==
  /\ \A i \in 1 .. Len(t) + 1 : L[i] \in Seq(Seq(C)) /\ Len(L[i]) >= 1
  /\ L[Len(t) + 1] = << <<>> >>
  /\ \A i \in 1 .. Len(t) : L[i] = Before(t[i], L[i + 1])

(* What holds at the end of a topic and is handed from each position to    *)
(* the one in front of it holds at all of them.                            *)
LEMMA Backwards ==
  ASSUME NEW n \in Nat, NEW P, n + 1 \in P, \A i \in 1 .. n : i + 1 \in P => i \in P
  PROVE  \A i \in 1 .. n + 1 : i \in P
<1> DEFINE Q == {k \in 0 .. n : n + 1 - k \in P}
<1>1. EachTurn(Q, n)
  <2>1. 0 \in Q
    <3>1. 0 \in 0 .. n /\ n + 1 - 0 = n + 1
      OBVIOUS
    <3> QED
      BY <3>1
  <2>2. ASSUME NEW k \in 1 .. n, k - 1 \in Q PROVE k \in Q
    <3>1. n + 1 - k \in 1 .. n /\ (n + 1 - k) + 1 = n + 1 - (k - 1) /\ k \in 0 .. n
      OBVIOUS
    <3>2. (n + 1 - k) + 1 \in P
      BY <2>2, <3>1
    <3> QED
      BY <3>1, <3>2
  <2> QED
    BY <2>1, <2>2 DEF EachTurn
<1>2. \A k \in 0 .. n : k \in Q
  BY <1>1, AllTurns
<1>3. ASSUME NEW i \in 1 .. n + 1 PROVE i \in P
  <2>1. n + 1 - i \in 0 .. n /\ n + 1 - (n + 1 - i) = i
    OBVIOUS
  <2>2. n + 1 - i \in Q
    BY <1>2, <2>1
  <2> QED
    BY <2>1, <2>2
<1> QED
  BY <1>3

(* A sequence with one more element in front.                              *)
LEMMA FrontChar ==
  ASSUME NEW C, NEW c \in C, NEW x \in Seq(C)
  PROVE  /\ <<c>> \o x \in Seq(C) /\ Len(<<c>> \o x) = Len(x) + 1 /\ (<<c>> \o x)[1] = c
         /\ \A i \in 1 .. Len(x) : (<<c>> \o x)[i + 1] = x[i]
         /\ <<c>> \o x # <<>>
<1>1. <<c>> \in Seq(C) /\ Len(<<c>>) = 1 /\ <<c>>[1] = c
  OBVIOUS
<1>2. Len(x) \in Nat
  BY LenProperties
<1>3. /\ <<c>> \o x \in Seq(C) /\ Len(<<c>> \o x) = 1 + Len(x)
      /\ \A i \in 1 .. 1 + Len(x) : (<<c>> \o x)[i] = IF i <= 1 THEN <<c>>[i] ELSE x[i - 1]
  BY <1>1, ConcatProperties
<1> DEFINE y == <<c>> \o x
<1>4. y # <<>>
  BY <1>2, <1>3
<1>5. y[1] = c
  BY <1>1, <1>2, <1>3
<1>6. ASSUME NEW i \in 1 .. Len(x) PROVE y[i + 1] = x[i]
  <2>1. i + 1 \in 1 .. 1 + Len(x) /\ ~(i + 1 <= 1) /\ (i + 1) - 1 = i
    BY <1>2
  <2> QED
    BY <1>3, <2>1
<1> QED
  BY <1>2, <1>3, <1>4, <1>5, <1>6

(* Two of them are equal when both parts are.                              *)
LEMMA FrontEqual ==
  ASSUME NEW C, NEW c \in C, NEW x \in Seq(C), NEW d \in C, NEW y \in Seq(C)
  PROVE  <<c>> \o x = <<d>> \o y <=> c = d /\ x = y
<1>1. ASSUME <<c>> \o x = <<d>> \o y PROVE c = d /\ x = y
  <2>1. c = d /\ Len(x) + 1 = Len(y) + 1
    BY <1>1, FrontChar
  <2>2. Len(x) \in Nat /\ Len(y) \in Nat
    BY LenProperties
  <2>3. Len(x) = Len(y)
    BY <2>1, <2>2
  <2>4. \A i \in 1 .. Len(x) : x[i] = (<<c>> \o x)[i + 1]
    BY FrontChar
  <2>5. \A i \in 1 .. Len(y) : y[i] = (<<d>> \o y)[i + 1]
    BY FrontChar
  <2>6. \A i \in 1 .. Len(x) : x[i] = y[i]
    BY <1>1, <2>3, <2>4, <2>5
  <2> QED
    BY <2>1, <2>3, <2>6, SeqEqual
<1> QED
  BY <1>1

(* One of them is a single character when nothing is behind it.            *)
LEMMA FrontAlone ==
  ASSUME NEW C, NEW c \in C, NEW x \in Seq(C), NEW w
  PROVE  <<c>> \o x = <<w>> <=> c = w /\ x = <<>>
<1>1. ASSUME <<c>> \o x = <<w>> PROVE c = w /\ x = <<>>
  <2>1. c = <<w>>[1] /\ Len(x) + 1 = Len(<<w>>)
    <3> DEFINE y == <<c>> \o x
    <3>1. Len(y) = Len(x) + 1 /\ y[1] = c
      BY FrontChar
    <3>2. y = <<w>>
      BY <1>1
    <3> HIDE DEF y
    <3> QED
      BY <3>1, <3>2
  <2>2. <<w>>[1] = w /\ Len(<<w>>) = 1 /\ Len(x) \in Nat
    BY LenProperties
  <2>3. Len(x) = 0
    BY <2>1, <2>2
  <2> QED
    BY <2>1, <2>2, <2>3, EmptySeq
<1>2. ASSUME c = w, x = <<>> PROVE <<c>> \o x = <<w>>
  <2>1. <<c>> \in Seq(C)
    OBVIOUS
  <2> QED
    BY <1>2, <2>1, ConcatEmptySeq
<1> QED
  BY <1>1, <1>2

(* Nor is it that of another character alone.                              *)
LEMMA FrontNotAlone ==
  ASSUME NEW C, NEW c \in C, NEW x \in Seq(C), NEW w, c # w
  PROVE  <<c>> \o x # <<w>>
BY FrontAlone

(* A level that begins with no wildcard is none.                           *)
LEMMA FrontNotWild ==
  ASSUME NEW C, NEW c \in C, NEW x \in Seq(C), c # "#", c # "+"
  PROVE  <<c>> \o x # <<"#">> /\ <<c>> \o x # <<"+">>
<1> DEFINE hash == "#"
           plus == "+"
<1>1. c # hash /\ c # plus
  OBVIOUS
<1> HIDE DEF hash, plus
<1>2. <<c>> \o x # <<hash>>
  BY <1>1, FrontNotAlone
<1>3. <<c>> \o x # <<plus>>
  BY <1>1, FrontNotAlone
<1> QED
  BY <1>2, <1>3 DEF hash, plus

(* A character in front of levels leaves levels, at least one.             *)
LEMMA BeforeLevels ==
  ASSUME NEW C, NEW c \in C, NEW ls \in Seq(Seq(C)), Len(ls) >= 1
  PROVE  Before(c, ls) \in Seq(Seq(C)) /\ Len(Before(c, ls)) >= 1
<1>1. Len(ls) \in Nat /\ 1 \in 1 .. Len(ls)
  BY LenProperties
<1>2. ls[1] \in Seq(C) /\ <<>> \in Seq(C)
  BY <1>1, ElementOfSeq, EmptySeq
<1>3. CASE c = "/"
  <2>1. Before(c, ls) = << <<>> >> \o ls
    BY <1>3 DEF Before
  <2>2. << <<>> >> \o ls \in Seq(Seq(C)) /\ Len(<< <<>> >> \o ls) = Len(ls) + 1
    BY <1>2, FrontChar
  <2> QED
    BY <1>1, <2>1, <2>2
<1>4. CASE c # "/"
  <2> DEFINE new == <<c>> \o ls[1]
  <2>1. new \in Seq(C)
    BY <1>2, FrontChar
  <2>2. Before(c, ls) = [ls EXCEPT ![1] = new]
    BY <1>4 DEF Before
  <2> HIDE DEF new
  <2> QED
    BY <1>1, <2>1, <2>2, ExceptSeq
<1> QED
  BY <1>3, <1>4

(* The function of Levels, turned round: the levels from each position on. *)
LEMMA LevelsWalk ==
  ASSUME NEW C, NEW t \in Seq(C)
  PROVE  \E L : Down(L, t, C) /\ Levels(t) = L[1]
<1> DEFINE n == Len(t)
           IsLast(f) == f = [k \in 0 .. n |-> IF k = 0 THEN << <<>> >>
                                              ELSE Before(t[n - k + 1], f[k - 1])]
           last == CHOOSE f : IsLast(f)
           Lists == {ls \in Seq(Seq(C)) : Len(ls) >= 1}
<1>1. Levels(t) = last[n]
  BY DEF Levels
<1>2. n \in Nat /\ \A k \in 1 .. n : n - k + 1 \in 1 .. n /\ t[n - k + 1] \in C
  <2>1. n \in Nat /\ \A i \in 1 .. n : t[i] \in C
    BY LenProperties, ElementOfSeq
  <2> HIDE DEF n
  <2> QED
    BY <2>1
<1> HIDE DEF n
<1>3. << <<>> >> \in Lists
  <2>1. <<>> \in Seq(C)
    BY EmptySeq
  <2> QED
    BY <2>1
<1>4. \A c \in C, ls \in Lists : Before(c, ls) \in Lists
  BY BeforeLevels
<1> HIDE DEF Lists
<1>5. \E f : IsLast(f)
  <2> DEFINE g == [x \in (1 .. n) \X Lists |-> Before(t[n - x[1] + 1], x[2])]
  <2>1. PICK f : Turns(f, n, << <<>> >>, g)
    BY <1>2, TurnsExist
  <2>2. f[0] = << <<>> >> /\ \A k \in 1 .. n : f[k] = g[<<k, f[k - 1]>>]
    <3>1. \A k \in 0 .. n : f[k] = IF k = 0 THEN << <<>> >> ELSE g[<<k, f[k - 1]>>]
      BY <2>1 DEF Turns
    <3>2. 0 \in 0 .. n /\ \A k \in 1 .. n : k \in 0 .. n /\ k # 0
      BY <1>2
    <3> HIDE DEF g
    <3> QED
      BY <3>1, <3>2
  <2>3. \A k \in 1 .. n : f[k - 1] \in Lists => f[k] = Before(t[n - k + 1], f[k - 1])
    BY <2>2
  <2> DEFINE P == {k \in 0 .. n : f[k] \in Lists}
  <2>4. EachTurn(P, n)
    <3>1. 0 \in P
      BY <1>2, <1>3, <2>2
    <3>2. ASSUME NEW k \in 1 .. n, k - 1 \in P PROVE k \in P
      <4>1. f[k - 1] \in Lists /\ t[n - k + 1] \in C /\ f[k] = Before(t[n - k + 1], f[k - 1])
        BY <1>2, <2>3, <3>2
      <4>2. f[k] \in Lists /\ k \in 0 .. n
        BY <1>2, <1>4, <4>1
      <4> QED
        BY <4>2
    <3> QED
      BY <1>2, <3>1, <3>2 DEF EachTurn
  <2>5. \A k \in 0 .. n : f[k] \in Lists
    BY <2>4, AllTurns
  <2>6. ASSUME NEW k \in 0 .. n
        PROVE  f[k] = IF k = 0 THEN << <<>> >> ELSE Before(t[n - k + 1], f[k - 1])
    <3>1. CASE k = 0
      BY <2>2, <3>1
    <3>2. CASE k # 0
      <4>1. k \in 1 .. n /\ k - 1 \in 0 .. n
        BY <1>2, <3>2
      <4>2. f[k] = Before(t[n - k + 1], f[k - 1])
        BY <2>3, <2>5, <4>1
      <4> QED
        BY <3>2, <4>2
    <3> QED
      BY <3>1, <3>2
  <2>7. f = [k \in 0 .. n |-> f[k]]
    BY <2>1 DEF Turns
  <2>8. f = [k \in 0 .. n |-> IF k = 0 THEN << <<>> >> ELSE Before(t[n - k + 1], f[k - 1])]
    BY <2>6, <2>7
  <2> QED
    BY <2>8
<1>6. IsLast(last)
  BY <1>5
<1> HIDE DEF last
<1>7. /\ last[0] = << <<>> >>
      /\ \A k \in 1 .. n : last[k] = Before(t[n - k + 1], last[k - 1])
  <2>1. \A k \in 0 .. n : last[k] = IF k = 0 THEN << <<>> >> ELSE Before(t[n - k + 1], last[k - 1])
    BY <1>6
  <2>2. 0 \in 0 .. n /\ \A k \in 1 .. n : k \in 0 .. n /\ k # 0
    BY <1>2
  <2> QED
    BY <2>1, <2>2
<1>8. \A k \in 0 .. n : last[k] \in Lists
  <2> DEFINE P == {k \in 0 .. n : last[k] \in Lists}
  <2>1. EachTurn(P, n)
    <3>1. 0 \in P
      BY <1>2, <1>3, <1>7
    <3>2. ASSUME NEW k \in 1 .. n, k - 1 \in P PROVE k \in P
      <4>1. last[k - 1] \in Lists /\ t[n - k + 1] \in C
            /\ last[k] = Before(t[n - k + 1], last[k - 1])
        BY <1>2, <1>7, <3>2
      <4>2. last[k] \in Lists /\ k \in 0 .. n
        BY <1>2, <1>4, <4>1
      <4> QED
        BY <4>2
    <3> QED
      BY <1>2, <3>1, <3>2 DEF EachTurn
  <2> QED
    BY <2>1, AllTurns
<1> DEFINE L == [i \in 1 .. n + 1 |-> last[n + 1 - i]]
<1>9. Down(L, t, C)
  <2>1. ASSUME NEW i \in 1 .. n + 1 PROVE L[i] \in Seq(Seq(C)) /\ Len(L[i]) >= 1
    <3>1. n + 1 - i \in 0 .. n /\ L[i] = last[n + 1 - i]
      BY <1>2
    <3>2. last[n + 1 - i] \in Lists
      BY <1>8, <3>1
    <3> QED
      BY <3>1, <3>2 DEF Lists
  <2>2. L[n + 1] = << <<>> >>
    <3>1. n + 1 \in 1 .. n + 1 /\ n + 1 - (n + 1) = 0
      BY <1>2
    <3> QED
      BY <1>7, <3>1
  <2>3. ASSUME NEW i \in 1 .. n PROVE L[i] = Before(t[i], L[i + 1])
    <3>1. /\ n + 1 - i \in 1 .. n /\ n - (n + 1 - i) + 1 = i
          /\ (n + 1 - i) - 1 = n + 1 - (i + 1) /\ i \in 1 .. n + 1 /\ i + 1 \in 1 .. n + 1
      BY <1>2
    <3>2. L[i] = last[n + 1 - i] /\ L[i + 1] = last[n + 1 - (i + 1)]
      BY <3>1
    <3>3. last[n + 1 - i] = Before(t[n - (n + 1 - i) + 1], last[(n + 1 - i) - 1])
      BY <1>7, <3>1
    <3> HIDE DEF L
    <3> QED
      BY <3>1, <3>2, <3>3
  <2> HIDE DEF L
  <2> QED
    BY <2>1, <2>2, <2>3 DEF Down, n
<1>10. L[1] = last[n]
  BY <1>2
<1> QED
  BY <1>1, <1>9, <1>10

(* They are levels, at least one of them.                                  *)
LEMMA DownTypes ==
  ASSUME NEW C, NEW t \in Seq(C), NEW L, Down(L, t, C), NEW i \in 1 .. Len(t) + 1
  PROVE  L[i] \in Seq(Seq(C)) /\ Len(L[i]) >= 1 /\ Len(L[i]) \in Nat /\ L[i][1] \in Seq(C)
<1>1. L[i] \in Seq(Seq(C)) /\ Len(L[i]) >= 1
  BY DEF Down
<1>2. Len(L[i]) \in Nat
  BY <1>1, LenProperties
<1>3. 1 \in 1 .. Len(L[i])
  BY <1>1, <1>2
<1> QED
  BY <1>1, <1>2, <1>3, ElementOfSeq

(* A position and the one behind it.                                       *)
LEMMA Neighbours ==
  ASSUME NEW C, NEW t \in Seq(C), NEW i \in 1 .. Len(t)
  PROVE  t[i] \in C /\ i \in 1 .. Len(t) + 1 /\ i + 1 \in 1 .. Len(t) + 1 /\ Len(t) \in Nat
<1>1. Len(t) \in Nat
  BY LenProperties
<1> QED
  BY <1>1, ElementOfSeq

(* What a "/" adds to the levels behind it: one that is empty.             *)
SlashStep(L, i) ==
  /\ Len(L[i]) = Len(L[i + 1]) + 1 /\ L[i][1] = <<>>
  /\ \A k \in 1 .. Len(L[i + 1]) : L[i][k + 1] = L[i + 1][k]

(* What another character adds: itself, in front of the first level.       *)
CharStep(L, t, i) ==
  /\ Len(L[i]) = Len(L[i + 1]) /\ L[i][1] = <<t[i]>> \o L[i + 1][1]
  /\ \A k \in 2 .. Len(L[i + 1]) : L[i][k] = L[i + 1][k]

LEMMA DownSlash ==
  ASSUME NEW C, NEW t \in Seq(C), NEW L, Down(L, t, C), NEW i \in 1 .. Len(t), t[i] = "/"
  PROVE  SlashStep(L, i)
<1>1. i + 1 \in 1 .. Len(t) + 1
  BY Neighbours
<1> DEFINE ls == L[i + 1]
<1>2. ls \in Seq(Seq(C)) /\ L[i] = << <<>> >> \o ls
  <2>1. L[i] = Before(t[i], ls)
    BY DEF Down
  <2>2. Before("/", ls) = << <<>> >> \o ls
    BY DEF Before
  <2> QED
    BY <1>1, <2>1, <2>2, DownTypes
<1>3. <<>> \in Seq(C)
  BY EmptySeq
<1> HIDE DEF ls
<1> DEFINE b == << <<>> >> \o ls
<1>4. /\ Len(b) = Len(ls) + 1 /\ b[1] = <<>>
      /\ \A k \in 1 .. Len(ls) : b[k + 1] = ls[k]
  BY <1>2, <1>3, FrontChar
<1>5. L[i] = b
  BY <1>2
<1> HIDE DEF b
<1> QED
  BY <1>4, <1>5 DEF ls, SlashStep

LEMMA DownChar ==
  ASSUME NEW C, NEW t \in Seq(C), NEW L, Down(L, t, C), NEW i \in 1 .. Len(t), t[i] # "/"
  PROVE  CharStep(L, t, i)
<1>1. i + 1 \in 1 .. Len(t) + 1 /\ t[i] \in C
  BY Neighbours
<1> DEFINE ls == L[i + 1]
           new == <<t[i]>> \o ls[1]
<1>2. /\ ls \in Seq(Seq(C)) /\ Len(ls) >= 1 /\ Len(ls) \in Nat /\ ls[1] \in Seq(C)
  BY <1>1, DownTypes
<1>3. L[i] = [ls EXCEPT ![1] = new]
  <2>1. L[i] = Before(t[i], ls)
    BY DEF Down
  <2> QED
    BY <2>1 DEF Before
<1> HIDE DEF ls
<1>4. new \in Seq(C)
  BY <1>1, <1>2, FrontChar
<1> HIDE DEF new
<1>5. 1 \in 1 .. Len(ls)
  BY <1>2
<1> DEFINE b == [ls EXCEPT ![1] = new]
<1>6. Len(b) = Len(ls) /\ \A j \in 1 .. Len(ls) : b[j] = IF j = 1 THEN new ELSE ls[j]
  BY <1>2, <1>4, <1>5, ExceptSeq
<1>7. L[i] = b
  BY <1>3
<1> HIDE DEF b
<1>8. \A k \in 2 .. Len(ls) : k \in 1 .. Len(ls) /\ k # 1
  BY <1>2
<1> QED
  BY <1>5, <1>6, <1>7, <1>8 DEF ls, new, CharStep

(* The first level of an end is empty at a "/" and at the end.             *)
LEMMA EmptyFirst ==
  ASSUME NEW C, NEW t \in Seq(C), NEW L, Down(L, t, C), NEW i \in 1 .. Len(t) + 1
  PROVE  L[i][1] = <<>> <=> i = Len(t) + 1 \/ t[i] = "/"
<1>1. Len(t) \in Nat
  BY LenProperties
<1>2. CASE i = Len(t) + 1
  <2>1. L[i] = << <<>> >>
    BY <1>2 DEF Down
  <2> QED
    BY <1>2, <2>1
<1>3. CASE i # Len(t) + 1
  <2>1. i \in 1 .. Len(t)
    BY <1>1, <1>3
  <2>2. CASE t[i] = "/"
    <3>1. L[i][1] = <<>>
      BY <2>1, <2>2, DownSlash DEF SlashStep
    <3> QED
      BY <2>2, <3>1
  <2>3. CASE t[i] # "/"
    <3>1. t[i] \in C /\ i + 1 \in 1 .. Len(t) + 1
      BY <2>1, Neighbours
    <3>2. L[i + 1][1] \in Seq(C)
      BY <3>1, DownTypes
    <3>3. L[i][1] = <<t[i]>> \o L[i + 1][1]
      BY <2>1, <2>3, DownChar DEF CharStep
    <3>4. L[i][1] # <<>>
      BY <3>1, <3>2, <3>3, FrontChar
    <3> QED
      BY <1>3, <2>3, <3>4
  <2> QED
    BY <2>2, <2>3
<1> QED
  BY <1>2, <1>3

(* Three parts of a topic, joined either way.                              *)
LEMMA RegroupedIn ==
  ASSUME NEW C, NEW s \in Seq(C), NEW t \in Seq(C), NEW u \in Seq(C)
  PROVE  (s \o t) \o u = s \o (t \o u)
BY ConcatAssociative

(* "+" and "#" stand alone in a level.                                     *)
Alone(l) == \A j \in 1 .. Len(l) : l[j] \in Wild => Len(l) = 1

(* A wildcard alone in its level has a "/", or nothing, on each side.      *)
LEMMA WildAlone ==
  ASSUME NEW C, NEW t \in Seq(C), NEW L, Down(L, t, C),
         \A k \in 1 .. Len(L[1]) : Alone(L[1][k])
  PROVE  \A i \in 1 .. Len(t) : t[i] \in Wild =>
           L[i + 1][1] = <<>> /\ (i > 1 => t[i - 1] = "/")
<1>0. \A a, b, c \in Seq(C) : (a \o b) \o c = a \o (b \o c)
  BY RegroupedIn
<1> DEFINE n == Len(t)
           Begun(i, w) ==
             /\ Alone(w \o L[i][1]) /\ (w = <<>> <=> (i = 1 \/ t[i - 1] = "/"))
             /\ \A k \in 2 .. Len(L[i]) : Alone(L[i][k])
           P == {i \in 0 .. n : \E w \in Seq(C) : Begun(i + 1, w)}
<1>1. n \in Nat
  BY LenProperties
<1>2. \A s \in Seq(C) : <<>> \o s = s /\ <<>> \in Seq(C)
  BY ConcatEmptySeq, EmptySeq
<1>3. 0 \in P
  <2>1. 1 \in 1 .. Len(t) + 1
    BY <1>1
  <2>2. L[1] \in Seq(Seq(C)) /\ Len(L[1]) >= 1
    BY <2>1 DEF Down
  <2>3. Len(L[1]) \in Nat
    BY <2>2, LenProperties
  <2>4. 1 \in 1 .. Len(L[1]) /\ \A k \in 2 .. Len(L[1]) : k \in 1 .. Len(L[1])
    BY <2>2, <2>3
  <2>5. L[1][1] \in Seq(C)
    BY <2>2, <2>4, ElementOfSeq
  <2>6. Begun(1, <<>>)
    BY <1>2, <2>4, <2>5
  <2>7. <<>> \in Seq(C) /\ 0 \in 0 .. n /\ 0 + 1 = 1
    BY <1>1, EmptySeq
  <2> HIDE DEF Begun
  <2> QED
    BY <2>6, <2>7
<1>4. ASSUME NEW i \in 1 .. n, NEW w \in Seq(C), Begun(i, w)
      PROVE  \E v \in Seq(C) : Begun(i + 1, v)
  <2>1. i + 1 # 1 /\ (i + 1) - 1 = i
    OBVIOUS
  <2>2. CASE t[i] = "/"
    <3>1. /\ Len(L[i]) = Len(L[i + 1]) + 1 /\ Len(L[i + 1]) \in Nat /\ Len(L[i + 1]) >= 1
          /\ L[i + 1][1] \in Seq(C)
          /\ \A k \in 1 .. Len(L[i + 1]) : L[i][k + 1] = L[i + 1][k]
      <4>1. i + 1 \in 1 .. Len(t) + 1
        BY Neighbours
      <4>2. Len(L[i + 1]) \in Nat /\ Len(L[i + 1]) >= 1 /\ L[i + 1][1] \in Seq(C)
        BY <4>1, DownTypes
      <4> QED
        BY <2>2, <4>2, DownSlash DEF SlashStep
    <3>2. \A k \in 1 .. Len(L[i + 1]) : Alone(L[i + 1][k])
      <4>1. \A k \in 1 .. Len(L[i + 1]) : k + 1 \in 2 .. Len(L[i])
        BY <3>1
      <4> QED
        BY <1>4, <3>1, <4>1
    <3>3. 1 \in 1 .. Len(L[i + 1]) /\ \A k \in 2 .. Len(L[i + 1]) : k \in 1 .. Len(L[i + 1])
      BY <3>1
    <3>4. Begun(i + 1, <<>>)
      BY <1>2, <2>1, <2>2, <3>1, <3>2, <3>3
    <3>5. <<>> \in Seq(C)
      BY EmptySeq
    <3> HIDE DEF Begun
    <3> QED
      BY <3>4, <3>5
  <2>3. CASE t[i] # "/"
    <3> DEFINE v == w \o <<t[i]>>
               rest == L[i + 1][1]
    <3>1. /\ t[i] \in C /\ rest \in Seq(C) /\ L[i][1] = <<t[i]>> \o rest
          /\ Len(L[i]) = Len(L[i + 1])
          /\ \A k \in 2 .. Len(L[i + 1]) : L[i][k] = L[i + 1][k]
      <4>1. t[i] \in C /\ i + 1 \in 1 .. Len(t) + 1
        BY Neighbours
      <4>2. rest \in Seq(C)
        BY <4>1, DownTypes
      <4>3. CharStep(L, t, i)
        BY <2>3, DownChar
      <4>4. Len(L[i]) = Len(L[i + 1]) /\ L[i][1] = <<t[i]>> \o L[i + 1][1]
            /\ \A k \in 2 .. Len(L[i + 1]) : L[i][k] = L[i + 1][k]
        BY <4>3 DEF CharStep
      <4> QED
        BY <4>1, <4>2, <4>4
    <3>2. <<t[i]>> \in Seq(C) /\ Len(<<t[i]>>) = 1
      BY <3>1
    <3>3. v \in Seq(C) /\ v # <<>>
      <4>1. Len(w) \in Nat /\ v \in Seq(C) /\ Len(v) = Len(w) + 1
        BY <3>2, ConcatProperties, LenProperties
      <4>2. Len(v) # 0
        BY <4>1
      <4> QED
        BY <4>1, <4>2
    <3>4. v \o rest = w \o L[i][1]
      <4> DEFINE x == <<t[i]>>
      <4>1. x \in Seq(C) /\ rest \in Seq(C) /\ L[i][1] = x \o rest
        BY <3>1, <3>2
      <4> HIDE DEF rest, x
      <4>2. (w \o x) \o rest = w \o (x \o rest)
        BY <1>0, <4>1
      <4> QED
        BY <4>1, <4>2 DEF x
    <3> HIDE DEF v
    <3>5. Begun(i + 1, v)
      BY <1>4, <2>1, <2>3, <3>1, <3>3, <3>4
    <3> HIDE DEF Begun
    <3> QED
      BY <3>3, <3>5
  <2> QED
    BY <2>2, <2>3
<1>5. EachTurn(P, n)
  <2>1. ASSUME NEW k \in 1 .. n, k - 1 \in P PROVE k \in P
    <3> HIDE DEF Begun
    <3>1. k \in 0 .. n /\ (k - 1) + 1 = k
      BY <1>1
    <3>2. PICK w \in Seq(C) : Begun(k, w)
      BY <2>1, <3>1
    <3> QED
      BY <1>4, <3>1, <3>2
  <2> HIDE DEF P
  <2> QED
    BY <1>1, <1>3, <2>1 DEF EachTurn
<1>6. ASSUME NEW i \in 1 .. n, t[i] \in Wild
      PROVE  L[i + 1][1] = <<>> /\ (i > 1 => t[i - 1] = "/")
  <2> DEFINE rest == L[i + 1][1]
             first == L[i][1]
  <2>1. PICK w \in Seq(C) : Begun(i, w)
    <3>1. i - 1 \in 0 .. n /\ (i - 1) + 1 = i
      BY <1>1
    <3>2. i - 1 \in P
      BY <1>5, <3>1, AllTurns
    <3> HIDE DEF Begun
    <3> QED
      BY <3>1, <3>2
  <2>2. t[i] # "/"
    BY <1>6 DEF Wild
  <2>3. t[i] \in C /\ rest \in Seq(C) /\ first = <<t[i]>> \o rest
    <3>1. t[i] \in C /\ i + 1 \in 1 .. Len(t) + 1
      BY Neighbours
    <3>2. rest \in Seq(C)
      BY <3>1, DownTypes
    <3>3. L[i][1] = <<t[i]>> \o L[i + 1][1]
      BY <2>2, DownChar DEF CharStep
    <3> QED
      BY <3>1, <3>2, <3>3
  <2> HIDE DEF rest
  <2>4. first \in Seq(C) /\ Len(first) = Len(rest) + 1 /\ first[1] = t[i]
    BY <2>3, FrontChar
  <2>5. Alone(w \o first) /\ (w = <<>> => i = 1 \/ t[i - 1] = "/")
    BY <2>1
  <2> HIDE DEF first
  <2>6. Len(w) \in Nat /\ Len(first) \in Nat /\ Len(rest) \in Nat
    BY <2>3, <2>4, LenProperties
  <2>7. /\ Len(w \o first) = Len(w) + Len(first)
        /\ \A j \in 1 .. Len(w) + Len(first) :
             (w \o first)[j] = IF j <= Len(w) THEN w[j] ELSE first[j - Len(w)]
    BY <2>4, ConcatProperties
  <2>8. Len(w) + 1 \in 1 .. Len(w) + Len(first) /\ ~(Len(w) + 1 <= Len(w))
        /\ (Len(w) + 1) - Len(w) = 1
    BY <2>4, <2>6
  <2>9. (w \o first)[Len(w) + 1] = t[i]
    BY <2>4, <2>7, <2>8
  <2>10. Len(w \o first) = 1
    BY <1>6, <2>5, <2>7, <2>8, <2>9 DEF Alone
  <2>11. Len(w) = 0 /\ Len(rest) = 0
    BY <2>4, <2>6, <2>7, <2>10
  <2>12. w = <<>> /\ rest = <<>>
    BY <2>3, <2>11, EmptySeq
  <2>13. i > 1 => t[i - 1] = "/"
    BY <2>5, <2>12
  <2> QED
    BY <2>12, <2>13 DEF rest
<1> QED
  BY <1>6

(* A character that no level has the topic has not, the separator apart.   *)
LEMMA InNoLevel ==
  ASSUME NEW C, NEW t \in Seq(C), NEW L, Down(L, t, C), NEW c, c # "/",
         \A k \in 1 .. Len(L[1]) : \A j \in 1 .. Len(L[1][k]) : L[1][k][j] # c
  PROVE  \A i \in 1 .. Len(t) : t[i] # c
<1> DEFINE n == Len(t)
           Without(i) == \A k \in 1 .. Len(L[i]) : \A j \in 1 .. Len(L[i][k]) : L[i][k][j] # c
           P == {i \in 0 .. n : Without(i + 1)}
<1>1. n \in Nat
  BY LenProperties
<1>2. ASSUME NEW i \in 1 .. n, Without(i)
      PROVE  Without(i + 1) /\ t[i] # c
  <2>1. CASE t[i] = "/"
    <3>1. /\ Len(L[i]) = Len(L[i + 1]) + 1 /\ Len(L[i + 1]) \in Nat
          /\ \A k \in 1 .. Len(L[i + 1]) : L[i][k + 1] = L[i + 1][k]
      <4>1. i + 1 \in 1 .. Len(t) + 1
        BY Neighbours
      <4>2. Len(L[i + 1]) \in Nat
        BY <4>1, DownTypes
      <4> QED
        BY <2>1, <4>2, DownSlash DEF SlashStep
    <3>2. \A k \in 1 .. Len(L[i + 1]) : k + 1 \in 1 .. Len(L[i])
      BY <3>1
    <3> QED
      BY <1>2, <2>1, <3>1, <3>2
  <2>2. CASE t[i] # "/"
    <3> DEFINE rest == L[i + 1][1]
               first == L[i][1]
    <3>1. /\ t[i] \in C /\ rest \in Seq(C) /\ first = <<t[i]>> \o rest
          /\ Len(L[i]) = Len(L[i + 1]) /\ Len(L[i]) \in Nat /\ Len(L[i]) >= 1
          /\ \A k \in 2 .. Len(L[i + 1]) : L[i][k] = L[i + 1][k]
      <4>1. t[i] \in C /\ i \in 1 .. Len(t) + 1 /\ i + 1 \in 1 .. Len(t) + 1
        BY Neighbours
      <4>2. rest \in Seq(C) /\ Len(L[i]) \in Nat /\ Len(L[i]) >= 1
        BY <4>1, DownTypes
      <4> QED
        BY <2>2, <4>1, <4>2, DownChar DEF CharStep
    <3>2. \A j \in 1 .. Len(first) : first[j] # c
      <4>1. 1 \in 1 .. Len(L[i])
        BY <3>1
      <4> QED
        BY <1>2, <4>1
    <3>3. /\ Len(first) = Len(rest) + 1 /\ first[1] = t[i] /\ Len(rest) \in Nat
          /\ \A j \in 1 .. Len(rest) : first[j + 1] = rest[j]
      <4> HIDE DEF rest
      <4>1. Len(rest) \in Nat
        BY <3>1, LenProperties
      <4>2. /\ Len(<<t[i]>> \o rest) = Len(rest) + 1 /\ (<<t[i]>> \o rest)[1] = t[i]
            /\ \A j \in 1 .. Len(rest) : (<<t[i]>> \o rest)[j + 1] = rest[j]
        BY <3>1, FrontChar
      <4> HIDE DEF first
      <4> QED
        BY <3>1, <4>1, <4>2
    <3> HIDE DEF first
    <3>4. t[i] # c
      <4>1. 1 \in 1 .. Len(first)
        BY <3>3
      <4> QED
        BY <3>2, <3>3, <4>1
    <3>5. \A j \in 1 .. Len(rest) : rest[j] # c
      <4>1. \A j \in 1 .. Len(rest) : j + 1 \in 1 .. Len(first)
        BY <3>3
      <4> QED
        BY <3>2, <3>3, <4>1
    <3>6. ASSUME NEW k \in 1 .. Len(L[i + 1]) PROVE \A j \in 1 .. Len(L[i + 1][k]) : L[i + 1][k][j] # c
      <4>1. CASE k = 1
        BY <3>5, <4>1
      <4>2. CASE k # 1
        <5>1. k \in 2 .. Len(L[i + 1]) /\ k \in 1 .. Len(L[i])
          BY <3>1, <4>2
        <5>2. L[i + 1][k] = L[i][k]
          BY <3>1, <5>1
        <5> QED
          BY <1>2, <5>1, <5>2
      <4> QED
        BY <4>1, <4>2
    <3> QED
      BY <3>4, <3>6
  <2> QED
    BY <2>1, <2>2
<1>3. EachTurn(P, n)
  <2>1. 0 \in P
    <3>1. 0 \in 0 .. n /\ 0 + 1 = 1
      BY <1>1
    <3> QED
      BY <3>1
  <2>2. ASSUME NEW k \in 1 .. n, k - 1 \in P PROVE k \in P
    <3> HIDE DEF Without
    <3>1. k \in 0 .. n /\ (k - 1) + 1 = k
      BY <1>1
    <3>2. Without(k)
      BY <2>2, <3>1
    <3> QED
      BY <1>2, <3>1, <3>2
  <2> HIDE DEF P
  <2> QED
    BY <1>1, <2>1, <2>2 DEF EachTurn
<1>4. ASSUME NEW i \in 1 .. n PROVE t[i] # c
  <2> HIDE DEF Without
  <2>1. i - 1 \in 0 .. n /\ (i - 1) + 1 = i
    BY <1>1
  <2>2. i - 1 \in P
    <3> HIDE DEF P
    <3> QED
      BY <1>3, <2>1, AllTurns
  <2>3. Without(i)
    BY <2>1, <2>2
  <2> QED
    BY <1>2, <2>3
<1> QED
  BY <1>4

(* Where a "+" leads to: the end of the level, with the same levels behind.*)
LevelPassed(L, t, n, e) ==
  /\ e \in n .. Len(t) /\ L[e + 1][1] = <<>> /\ Len(L[n]) = Len(L[e + 1])
  /\ \A k \in 2 .. Len(L[n]) : L[n][k] = L[e + 1][k]

LEMMA LevelEnds ==
  ASSUME NEW C, NEW t \in Seq(C), NEW L, Down(L, t, C), NEW n \in 1 .. Len(t), t[n] # "/"
  PROVE  LevelPassed(L, t, n, EndOfLevel(t, n))
<1>0. ASSUME NEW i \in 1 .. Len(t), t[i] # "/"
      PROVE  Len(L[i]) = Len(L[i + 1]) /\ \A k \in 2 .. Len(L[i]) : L[i][k] = L[i + 1][k]
  <2>1. CharStep(L, t, i)
    BY <1>0, DownChar
  <2> QED
    BY <2>1 DEF CharStep
<1> DEFINE N == Len(t)
           e == EndOfLevel(t, n)
           Ends == {m \in n .. N : m = N \/ t[m + 1] = "/"}
           IsEnd(m) == /\ m = N \/ t[m + 1] = "/"
                       /\ \A k \in n + 1 .. m : t[k] # "/"
<1>1. N \in Nat /\ n \in Nat /\ n \in 1 .. N
  BY LenProperties
<1> HIDE DEF N
<1>2. \E m \in n .. N : IsEnd(m)
  <2>1. N \in Ends /\ Ends \subseteq Nat
    BY <1>1
  <2>2. PICK m \in Ends : \A k \in Ends : m <= k
    BY <2>1, LeastNumber
  <2>3. ASSUME NEW k \in n + 1 .. m PROVE t[k] # "/"
    <3>1. k - 1 \in n .. N /\ (k - 1) + 1 = k /\ ~(m <= k - 1)
      BY <1>1, <2>2
    <3>2. k - 1 \notin Ends
      BY <2>2, <3>1
    <3> QED
      BY <3>1, <3>2
  <2> QED
    BY <2>2, <2>3
<1>3. e \in n .. N /\ IsEnd(e)
  <2>1. e = CHOOSE m \in n .. N : IsEnd(m)
    BY DEF EndOfLevel, N
  <2> HIDE DEF e, IsEnd
  <2> QED
    BY <1>2, <2>1
<1> HIDE DEF e
<1>4. e \in Nat /\ e + 1 \in 1 .. N + 1 /\ n <= e /\ e <= N
  BY <1>1, <1>3
<1>5. L[e + 1][1] = <<>>
  <2>1. e + 1 = Len(t) + 1 \/ t[e + 1] = "/"
    BY <1>3 DEF N
  <2>2. e + 1 \in 1 .. Len(t) + 1
    BY <1>4 DEF N
  <2> QED
    BY <2>1, <2>2, EmptyFirst
<1> DEFINE Same(i) == Len(L[i]) = Len(L[e + 1]) /\ \A k \in 2 .. Len(L[i]) : L[i][k] = L[e + 1][k]
           P == {i \in 1 .. e + 1 : i < n \/ Same(i)}
<1>6. e + 1 \in P
  BY <1>4
<1>7. ASSUME NEW i \in 1 .. e, i + 1 \in P PROVE i \in P
  <2>1. i \in 1 .. e + 1
    BY <1>4
  <2>2. CASE i < n
    BY <2>1, <2>2
  <2>3. CASE ~(i < n)
    <3>1. i \in 1 .. Len(t) /\ ~(i + 1 < n) /\ (i = n \/ i \in n + 1 .. e)
      BY <1>1, <1>4, <2>3 DEF N
    <3>2. t[i] # "/"
      BY <1>3, <3>1
    <3>3. Same(i + 1)
      BY <1>7, <3>1
    <3>4. Len(L[i]) = Len(L[i + 1]) /\ \A k \in 2 .. Len(L[i]) : L[i][k] = L[i + 1][k]
      BY <1>0, <3>1, <3>2
    <3>5. Same(i)
      BY <3>3, <3>4
    <3> QED
      BY <2>1, <3>5
  <2> QED
    BY <2>2, <2>3
<1>8. n \in P
  <2> HIDE DEF P
  <2>1. \A i \in 1 .. e + 1 : i \in P
    BY <1>4, <1>6, <1>7, Backwards
  <2> QED
    BY <1>1, <1>4, <2>1
<1>9. Same(n)
  BY <1>1, <1>8
<1> QED
  BY <1>3, <1>5, <1>9 DEF e, N, LevelPassed

(* What Covers says of the levels.                                         *)
CoversLevels(fl, nl) ==
  LET rest == Len(fl) > 0 /\ fl[Len(fl)] = <<"#">>
      fixed == IF rest THEN Len(fl) - 1 ELSE Len(fl)
  IN  /\ IF rest THEN Len(nl) >= fixed ELSE Len(nl) = fixed
      /\ \A k \in 1 .. fixed : fl[k] = <<"+">> \/ fl[k] = nl[k]

EndsInHash(fl) == fl[Len(fl)] = <<"#">>
Fixed(fl) == IF EndsInHash(fl) THEN Len(fl) - 1 ELSE Len(fl)
Fits(x, y) == x = <<"+">> \/ x = y

(* Covers, one level after the other.                                      *)
LEMMA CoversEachLevel ==
  ASSUME NEW fl, NEW nl, Len(fl) \in Nat, Len(fl) >= 1
  PROVE  CoversLevels(fl, nl) <=>
           /\ IF EndsInHash(fl) THEN Len(nl) >= Fixed(fl) ELSE Len(nl) = Fixed(fl)
           /\ \A k \in 1 .. Fixed(fl) : Fits(fl[k], nl[k])
BY DEF CoversLevels, EndsInHash, Fixed, Fits

(* Only the first levels differ, neither filter is "#" alone.              *)
LEMMA FirstReplaced ==
  ASSUME NEW a, NEW a2, NEW b, NEW b2,
         Len(a) \in Nat, Len(a) >= 1, Len(a2) = Len(a), Len(b) \in Nat, Len(b2) = Len(b),
         \A k \in 2 .. Len(a) : a2[k] = a[k], \A k \in 2 .. Len(b) : b2[k] = b[k],
         a[1] # <<"#">>, a2[1] # <<"#">>,
         Fits(a[1], b[1]) => Fits(a2[1], b2[1]), CoversLevels(a, b)
  PROVE  CoversLevels(a2, b2)
<1>1. /\ IF EndsInHash(a) THEN Len(b) >= Fixed(a) ELSE Len(b) = Fixed(a)
      /\ \A k \in 1 .. Fixed(a) : Fits(a[k], b[k])
  BY CoversEachLevel
<1>2. EndsInHash(a2) <=> EndsInHash(a)
  <2>1. CASE Len(a) = 1
    BY <2>1 DEF EndsInHash
  <2>2. CASE Len(a) # 1
    <3>1. Len(a) \in 2 .. Len(a)
      BY <2>2
    <3> QED
      BY <3>1 DEF EndsInHash
  <2> QED
    BY <2>1, <2>2
<1>3. Fixed(a2) = Fixed(a)
  BY <1>2 DEF Fixed
<1>4. Fixed(a) \in Nat /\ Fixed(a) >= 1 /\ Fixed(a) <= Len(a)
  <2>1. EndsInHash(a) => Len(a) # 1
    BY DEF EndsInHash
  <2> QED
    BY <2>1 DEF Fixed
<1>5. Fixed(a) <= Len(b)
  BY <1>1, <1>4
<1>6. ASSUME NEW k \in 1 .. Fixed(a2) PROVE Fits(a2[k], b2[k])
  <2>1. k \in 1 .. Fixed(a) /\ Fits(a[k], b[k])
    BY <1>1, <1>3
  <2>2. CASE k = 1
    BY <2>1, <2>2
  <2>3. CASE k # 1
    <3>1. k \in 2 .. Len(a) /\ k \in 2 .. Len(b)
      BY <1>4, <1>5, <2>1, <2>3
    <3>2. a2[k] = a[k] /\ b2[k] = b[k]
      BY <3>1
    <3> QED
      BY <2>1, <3>2
  <2> QED
    BY <2>2, <2>3
<1>7. IF EndsInHash(a2) THEN Len(b2) >= Fixed(a2) ELSE Len(b2) = Fixed(a2)
  BY <1>1, <1>2, <1>3
<1> QED
  BY <1>6, <1>7, CoversEachLevel

(* A first level that fits, in front of both.                              *)
LEMMA FirstAdded ==
  ASSUME NEW a, NEW a2, NEW b, NEW b2,
         Len(a) \in Nat, Len(a) >= 1, Len(a2) = Len(a) + 1, Len(b) \in Nat, Len(b2) = Len(b) + 1,
         \A k \in 1 .. Len(a) : a2[k + 1] = a[k], \A k \in 1 .. Len(b) : b2[k + 1] = b[k],
         a2[1] = b2[1]
  PROVE  CoversLevels(a, b) <=> CoversLevels(a2, b2)
<1>1. EndsInHash(a2) <=> EndsInHash(a)
  <2>1. Len(a) \in 1 .. Len(a)
    OBVIOUS
  <2> QED
    BY <2>1 DEF EndsInHash
<1>2. Fixed(a2) = Fixed(a) + 1 /\ Fixed(a) \in Nat /\ Fixed(a) <= Len(a)
  BY <1>1 DEF Fixed
<1>3. (IF EndsInHash(a2) THEN Len(b2) >= Fixed(a2) ELSE Len(b2) = Fixed(a2))
        <=> (IF EndsInHash(a) THEN Len(b) >= Fixed(a) ELSE Len(b) = Fixed(a))
  BY <1>1, <1>2
<1>4. ASSUME Fixed(a) <= Len(b)
      PROVE  (\A k \in 1 .. Fixed(a2) : Fits(a2[k], b2[k]))
               <=> \A k \in 1 .. Fixed(a) : Fits(a[k], b[k])
  <2>1. ASSUME NEW k \in 1 .. Fixed(a)
        PROVE  k + 1 \in 1 .. Fixed(a2) /\ a2[k + 1] = a[k] /\ b2[k + 1] = b[k]
    <3>1. k + 1 \in 1 .. Fixed(a2) /\ k \in 1 .. Len(a) /\ k \in 1 .. Len(b)
      BY <1>2, <1>4
    <3> QED
      BY <3>1
  <2>2. ASSUME \A k \in 1 .. Fixed(a2) : Fits(a2[k], b2[k]), NEW k \in 1 .. Fixed(a)
        PROVE  Fits(a[k], b[k])
    <3>1. Fits(a2[k + 1], b2[k + 1])
      BY <2>1, <2>2
    <3> QED
      BY <2>1, <3>1
  <2>3. ASSUME \A k \in 1 .. Fixed(a) : Fits(a[k], b[k]), NEW k \in 1 .. Fixed(a2)
        PROVE  Fits(a2[k], b2[k])
    <3>1. CASE k = 1
      BY <3>1 DEF Fits
    <3>2. CASE k # 1
      <4>1. k - 1 \in 1 .. Fixed(a) /\ (k - 1) + 1 = k
        BY <1>2, <3>2
      <4>2. a2[k] = a[k - 1] /\ b2[k] = b[k - 1]
        BY <2>1, <4>1
      <4> QED
        BY <2>3, <4>1, <4>2
    <3> QED
      BY <3>1, <3>2
  <2> QED
    BY <2>2, <2>3
<1>5. (IF EndsInHash(a) THEN Len(b) >= Fixed(a) ELSE Len(b) = Fixed(a)) => Fixed(a) <= Len(b)
  BY <1>2
<1>6. Len(a2) \in Nat /\ Len(a2) >= 1
  OBVIOUS
<1> QED
  BY <1>3, <1>4, <1>5, <1>6, CoversEachLevel

(* The rows of the matching: the ends of a filter against those of a name. *)
Rows(M, f, n) ==
  \A i \in 1 .. Len(f) + 1, j \in 1 .. Len(n) + 1 :
    M[i][j] = IF i > Len(f) \/ j > Len(n) THEN i > Len(f) /\ j > Len(n)
              ELSE IF n[j] = "/" /\ f[i] # "/" THEN FALSE
              ELSE IF f[i] = "+" THEN M[i + 1][EndOfLevel(n, j) + 1]
              ELSE IF f[i] = "#" THEN M[i + 1][Len(n) + 1]
              ELSE f[i] = n[j] /\ M[i + 1][j + 1]

(* The table of iotx_mc_is_topic_matched is there, row by row: tlapm knows *)
(* a recursive function only once one is shown to exist.                   *)
LEMMA RowsExist ==
  ASSUME NEW C, NEW f \in Seq(C), NEW n \in Seq(C)
  PROVE  \E M : Rows(M, f, n) /\ (iotx_mc_is_topic_matched(f, n) <=> M[1][1])
<1> DEFINE F == Len(f)
           N == Len(n)
           S == [1 .. N + 1 -> BOOLEAN]
           Row(i, next) ==
             [j \in 1 .. N + 1 |->
                IF i > F \/ j > N THEN i > F /\ j > N
                ELSE IF n[j] = "/" /\ f[i] # "/" THEN FALSE
                ELSE IF f[i] = "+" THEN next[EndOfLevel(n, j) + 1]
                ELSE IF f[i] = "#" THEN next[N + 1]
                ELSE f[i] = n[j] /\ next[j + 1]]
           IsMatched(m) == m = [i \in 1 .. F + 1 |-> Row(i, m[i + 1])]
           matched == CHOOSE m : IsMatched(m)
<1>1. iotx_mc_is_topic_matched(f, n) = matched[1][1]
  BY DEF iotx_mc_is_topic_matched
<1>2. F \in Nat /\ N \in Nat
  BY LenProperties
<1>3. \A j \in 1 .. N : n[j] # "/" => EndOfLevel(n, j) + 1 \in 1 .. N + 1
  <2>1. PICK L : Down(L, n, C)
    BY LevelsWalk
  <2>2. ASSUME NEW j \in 1 .. Len(n), n[j] # "/" PROVE EndOfLevel(n, j) \in j .. Len(n)
    BY <2>1, <2>2, LevelEnds DEF LevelPassed
  <2> QED
    BY <1>2, <2>2
<1>4. ASSUME NEW x, NEW y PROVE Row(F + 1, x) = Row(F + 1, y) /\ Row(F + 1, x) \in S
  <2>1. F + 1 > F
    BY <1>2
  <2> HIDE DEF F, N
  <2> QED
    BY <2>1
<1>5. ASSUME NEW i \in 1 .. F, NEW next \in S PROVE Row(i, next) \in S
  <2> HIDE DEF F, N
  <2>1. ASSUME NEW j \in 1 .. N + 1
        PROVE  (IF i > F \/ j > N THEN i > F /\ j > N
                ELSE IF n[j] = "/" /\ f[i] # "/" THEN FALSE
                ELSE IF f[i] = "+" THEN next[EndOfLevel(n, j) + 1]
                ELSE IF f[i] = "#" THEN next[N + 1]
                ELSE f[i] = n[j] /\ next[j + 1]) \in BOOLEAN
    <3>1. CASE j > N \/ i > F
      BY <3>1
    <3>2. CASE ~(j > N \/ i > F)
      <4>1. j \in 1 .. N /\ N + 1 \in 1 .. N + 1 /\ j + 1 \in 1 .. N + 1
        BY <1>2, <3>2
      <4>2. CASE n[j] = "/" /\ f[i] # "/"
        BY <3>2, <4>2
      <4>3. CASE ~(n[j] = "/" /\ f[i] # "/") /\ f[i] = "+"
        <5>1. EndOfLevel(n, j) + 1 \in 1 .. N + 1
          BY <1>3, <4>1, <4>3
        <5>2. next[EndOfLevel(n, j) + 1] \in BOOLEAN
          BY <5>1
        <5> QED
          BY <3>2, <4>3, <5>2
      <4>4. CASE ~(n[j] = "/" /\ f[i] # "/") /\ f[i] # "+" /\ f[i] = "#"
        <5>1. next[N + 1] \in BOOLEAN
          BY <4>1
        <5> QED
          BY <3>2, <4>4, <5>1
      <4>5. CASE ~(n[j] = "/" /\ f[i] # "/") /\ f[i] # "+" /\ f[i] # "#"
        BY <3>2, <4>5
      <4> QED
        BY <4>2, <4>3, <4>4, <4>5
    <3> QED
      BY <3>1, <3>2
  <2> QED
    BY <2>1
<1> HIDE DEF Row, S, F, N
<1>6. \E m : IsMatched(m)
  <2> DEFINE a == Row(F + 1, <<>>)
             g == [x \in (1 .. F) \X S |-> Row(F + 1 - x[1], x[2])]
  <2>1. PICK r : Turns(r, F, a, g)
    BY <1>2, TurnsExist
  <2>2. r[0] = a /\ \A k \in 1 .. F : r[k] = g[<<k, r[k - 1]>>]
    <3>1. \A k \in 0 .. F : r[k] = IF k = 0 THEN a ELSE g[<<k, r[k - 1]>>]
      BY <2>1 DEF Turns
    <3>2. 0 \in 0 .. F /\ \A k \in 1 .. F : k \in 0 .. F /\ k # 0
      BY <1>2
    <3> HIDE DEF g, a
    <3> QED
      BY <3>1, <3>2
  <2>3. \A k \in 1 .. F : r[k - 1] \in S => r[k] = Row(F + 1 - k, r[k - 1])
    BY <2>2
  <2>4. a \in S
    BY <1>4
  <2> HIDE DEF a, g
  <2> DEFINE P == {k \in 0 .. F : r[k] \in S}
  <2>5. EachTurn(P, F)
    <3>1. 0 \in P
      BY <1>2, <2>2, <2>4
    <3>2. ASSUME NEW k \in 1 .. F, k - 1 \in P PROVE k \in P
      <4>1. r[k - 1] \in S /\ r[k] = Row(F + 1 - k, r[k - 1]) /\ F + 1 - k \in 1 .. F /\ k \in 0 .. F
        BY <1>2, <2>3, <3>2
      <4> QED
        BY <1>5, <4>1
    <3> HIDE DEF P
    <3> QED
      BY <1>2, <3>1, <3>2 DEF EachTurn
  <2>6. \A k \in 0 .. F : r[k] \in S
    BY <2>5, AllTurns
  <2> DEFINE m == [i \in 1 .. F + 1 |-> r[F + 1 - i]]
  <2>7. ASSUME NEW i \in 1 .. F + 1 PROVE m[i] = Row(i, m[i + 1])
    <3>1. CASE i = F + 1
      <4>1. m[i] = r[0]
        BY <1>2, <3>1
      <4>2. Row(F + 1, <<>>) = Row(F + 1, m[i + 1])
        <5> HIDE DEF m
        <5> QED
          BY <1>4
      <4> HIDE DEF m
      <4> QED
        BY <2>2, <3>1, <4>1, <4>2 DEF a
    <3>2. CASE i # F + 1
      <4>1. /\ F + 1 - i \in 1 .. F /\ F + 1 - (F + 1 - i) = i /\ (F + 1 - i) - 1 = F + 1 - (i + 1)
            /\ i + 1 \in 1 .. F + 1 /\ (F + 1 - i) - 1 \in 0 .. F
        BY <1>2, <3>2
      <4>2. r[(F + 1 - i) - 1] \in S
        BY <2>6, <4>1
      <4>3. r[F + 1 - i] = Row(F + 1 - (F + 1 - i), r[(F + 1 - i) - 1])
        BY <2>3, <4>1, <4>2
      <4>4. m[i] = r[F + 1 - i] /\ m[i + 1] = r[F + 1 - (i + 1)]
        BY <4>1
      <4> HIDE DEF m
      <4> QED
        BY <4>1, <4>3, <4>4
    <3> QED
      BY <3>1, <3>2
  <2>8. m = [i \in 1 .. F + 1 |-> m[i]]
    OBVIOUS
  <2> HIDE DEF m
  <2>9. IsMatched(m)
    BY <2>7, <2>8
  <2> QED
    BY <2>9
<1>7. IsMatched(matched)
  <2> HIDE DEF IsMatched
  <2> QED
    BY <1>6
<1> HIDE DEF matched
<1>8. ASSUME NEW i \in 1 .. F + 1 PROVE matched[i] = Row(i, matched[i + 1])
  BY <1>7
<1>9. Rows(matched, f, n)
  <2>1. ASSUME NEW i \in 1 .. F + 1, NEW j \in 1 .. N + 1
        PROVE  matched[i][j] =
                 IF i > F \/ j > N THEN i > F /\ j > N
                 ELSE IF n[j] = "/" /\ f[i] # "/" THEN FALSE
                 ELSE IF f[i] = "+" THEN matched[i + 1][EndOfLevel(n, j) + 1]
                 ELSE IF f[i] = "#" THEN matched[i + 1][N + 1]
                 ELSE f[i] = n[j] /\ matched[i + 1][j + 1]
    <3> DEFINE next == matched[i + 1]
    <3>1. matched[i] = Row(i, next)
      BY <1>8
    <3> HIDE DEF next
    <3>2. matched[i][j] = Row(i, next)[j]
      BY <3>1
    <3> QED
      BY <3>2 DEF Row, next
  <2> QED
    BY <2>1 DEF Rows, F, N
<1> QED
  BY <1>1, <1>9

(* An element of a row before both ends.                                   *)
RowStep(M, f, n, i, j) ==
  M[i][j] = IF n[j] = "/" /\ f[i] # "/" THEN FALSE
            ELSE IF f[i] = "+" THEN M[i + 1][EndOfLevel(n, j) + 1]
            ELSE IF f[i] = "#" THEN M[i + 1][Len(n) + 1]
            ELSE f[i] = n[j] /\ M[i + 1][j + 1]

LEMMA RowOf ==
  ASSUME NEW M, NEW f, NEW n, Rows(M, f, n), Len(f) \in Nat, Len(n) \in Nat,
         NEW i \in 1 .. Len(f), NEW j \in 1 .. Len(n)
  PROVE  RowStep(M, f, n, i, j)
<1>1. i \in 1 .. Len(f) + 1 /\ j \in 1 .. Len(n) + 1 /\ ~(i > Len(f) \/ j > Len(n))
  OBVIOUS
<1> QED
  BY <1>1 DEF Rows, RowStep

(* Only the end of the filter matches the end of the name.                 *)
LEMMA RowAtEnd ==
  ASSUME NEW M, NEW f, NEW n, Rows(M, f, n), Len(f) \in Nat, Len(n) \in Nat,
         NEW i \in 1 .. Len(f) + 1, NEW j \in 1 .. Len(n) + 1,
         i = Len(f) + 1 \/ j = Len(n) + 1
  PROVE  M[i][j] = (i = Len(f) + 1 /\ j = Len(n) + 1)
<1>1. i > Len(f) \/ j > Len(n)
  OBVIOUS
<1>2. M[i][j] = (i > Len(f) /\ j > Len(n))
  BY <1>1, Zenon DEF Rows
<1>3. (i > Len(f) <=> i = Len(f) + 1) /\ (j > Len(n) <=> j = Len(n) + 1)
  OBVIOUS
<1> QED
  BY <1>2, <1>3

(* A first level that is one character starts with it.                     *)
LEMMA FirstSingle ==
  ASSUME NEW C, NEW t \in Seq(C), NEW L, Down(L, t, C), NEW i \in 1 .. Len(t) + 1,
         NEW w, L[i][1] = <<w>>
  PROVE  i \in 1 .. Len(t) /\ t[i] = w /\ t[i] # "/"
<1>1. L[i][1] # <<>>
  <2>1. <<w>> # <<>>
    OBVIOUS
  <2> QED
    BY <2>1
<1>2. Len(t) \in Nat
  BY LenProperties
<1>3. i # Len(t) + 1 /\ t[i] # "/"
  BY <1>1, EmptyFirst
<1>4. i \in 1 .. Len(t)
  BY <1>2, <1>3
<1>5. t[i] \in C /\ i + 1 \in 1 .. Len(t) + 1
  BY <1>4, Neighbours
<1>6. L[i + 1][1] \in Seq(C)
  BY <1>5, DownTypes
<1>7. L[i][1] = <<t[i]>> \o L[i + 1][1]
  <2>1. CharStep(L, t, i)
    BY <1>3, <1>4, DownChar
  <2> QED
    BY <2>1 DEF CharStep
<1> DEFINE c == t[i]
           x == L[i + 1][1]
<1>8. c \in C /\ x \in Seq(C) /\ <<c>> \o x = <<w>>
  BY <1>5, <1>6, <1>7
<1> HIDE DEF c, x
<1>9. c = w
  <2>1. c \in C /\ x \in Seq(C)
    BY <1>8
  <2>2. c # w => <<c>> \o x # <<w>>
    BY <2>1, FrontNotAlone
  <2> QED
    BY <1>8, <2>2
<1> QED
  BY <1>3, <1>4, <1>9 DEF c

(* The level of a wildcard that stands alone.                              *)
LEMMA WildFirst ==
  ASSUME NEW C, NEW t \in Seq(C), NEW L, Down(L, t, C), NEW i \in 1 .. Len(t),
         t[i] \in Wild, L[i + 1][1] = <<>>
  PROVE  L[i][1] = <<t[i]>>
<1>1. t[i] # "/"
  BY DEF Wild
<1>2. L[i][1] = <<t[i]>> \o L[i + 1][1]
  <2>1. CharStep(L, t, i)
    BY <1>1, DownChar
  <2> QED
    BY <2>1 DEF CharStep
<1>3. t[i] \in C
  BY Neighbours
<1>4. <<t[i]>> \in Seq(C)
  BY <1>3
<1> QED
  BY <1>2, <1>4, ConcatEmptySeq

(* Topics of wildcards that stand alone in their levels.                   *)
WildOnly(L, t) ==
  \A i \in 1 .. Len(t) : t[i] \in Wild => L[i + 1][1] = <<>> /\ (i > 1 => t[i - 1] = "/")

(* Behind another character than "/" no level of one wildcard begins.      *)
LEMMA NoWildBehind ==
  ASSUME NEW C, NEW t \in Seq(C), NEW L, Down(L, t, C), WildOnly(L, t),
         NEW i \in 1 .. Len(t), t[i] # "/", NEW w \in Wild
  PROVE  L[i + 1][1] # <<w>>
<1>1. ASSUME L[i + 1][1] = <<w>> PROVE FALSE
  <2>1. i + 1 \in 1 .. Len(t) + 1
    BY Neighbours
  <2>2. i + 1 \in 1 .. Len(t) /\ t[i + 1] = w
    BY <1>1, <2>1, FirstSingle
  <2>3. i + 1 > 1 /\ (i + 1) - 1 = i
    OBVIOUS
  <2>4. t[i] = "/"
    BY <2>2, <2>3 DEF WildOnly
  <2> QED
    BY <2>4
<1> QED
  BY <1>1

(* The first levels of two ends in front of the same levels each.          *)
LEMMA CharInFront ==
  ASSUME NEW C, NEW f \in Seq(C), NEW n \in Seq(C), NEW A, NEW B,
         Down(A, f, C), Down(B, n, C), WildOnly(A, f),
         NEW i \in 1 .. Len(f), NEW j \in 1 .. Len(n),
         f[i] \notin Wild, f[i] # "/", f[i] = n[j]
  PROVE  CoversLevels(A[i], B[j]) <=> CoversLevels(A[i + 1], B[j + 1])
<1> DEFINE a == A[i + 1]
           a2 == A[i]
           b == B[j + 1]
           b2 == B[j]
<1>1. CharStep(A, f, i) /\ CharStep(B, n, j)
  BY DownChar
<1>2. /\ Len(a2) = Len(a) /\ a2[1] = <<f[i]>> \o a[1] /\ \A k \in 2 .. Len(a) : a2[k] = a[k]
      /\ Len(b2) = Len(b) /\ b2[1] = <<n[j]>> \o b[1] /\ \A k \in 2 .. Len(b) : b2[k] = b[k]
  BY <1>1 DEF CharStep
<1>3. f[i] \in C /\ i + 1 \in 1 .. Len(f) + 1 /\ n[j] \in C /\ j + 1 \in 1 .. Len(n) + 1
  BY Neighbours
<1>4. /\ Len(a) \in Nat /\ Len(a) >= 1 /\ a[1] \in Seq(C)
      /\ Len(b) \in Nat /\ Len(b) >= 1 /\ b[1] \in Seq(C)
  BY <1>3, DownTypes
<1>5. a[1] # <<"#">> /\ a[1] # <<"+">>
  <2>1. "#" \in Wild /\ "+" \in Wild
    BY DEF Wild
  <2> QED
    BY <2>1, NoWildBehind
<1> DEFINE c == f[i]
           x == a[1]
           y == b[1]
<1>6. c \in C /\ x \in Seq(C) /\ y \in Seq(C) /\ a2[1] = <<c>> \o x /\ b2[1] = <<c>> \o y
      /\ c # "#" /\ c # "+"
  BY <1>2, <1>3, <1>4 DEF Wild
<1> HIDE DEF a, a2, b, b2, c
<1>7. a2[1] # <<"#">> /\ a2[1] # <<"+">>
  <2>0. c \in C /\ x \in Seq(C) /\ c # "#" /\ c # "+"
    BY <1>6
  <2> HIDE DEF x
  <2>1. <<c>> \o x # <<"#">> /\ <<c>> \o x # <<"+">>
    BY <2>0, FrontNotWild
  <2> QED
    BY <1>6, <2>1
<1>8. a2[1] = b2[1] <=> a[1] = b[1]
  <2>1. x = y <=> <<c>> \o x = <<c>> \o y
    <3>1. c \in C /\ x \in Seq(C) /\ y \in Seq(C)
      BY <1>6
    <3> HIDE DEF x, y
    <3>2. <<c>> \o x = <<c>> \o y <=> c = c /\ x = y
      BY <3>1, FrontEqual
    <3> QED
      BY <3>2
  <2> QED
    BY <1>6, <2>1
<1> HIDE DEF x, y
<1>9. Fits(a[1], b[1]) <=> Fits(a2[1], b2[1])
  BY <1>5, <1>7, <1>8 DEF Fits
<1>10. CoversLevels(a, b) => CoversLevels(a2, b2)
  BY <1>2, <1>4, <1>5, <1>7, <1>9, FirstReplaced
<1>11. CoversLevels(a2, b2) => CoversLevels(a, b)
  BY <1>2, <1>4, <1>5, <1>7, <1>9, FirstReplaced
<1> QED
  BY <1>10, <1>11 DEF a, a2, b, b2

(* A "/" in front of both.                                                 *)
LEMMA SlashInFront ==
  ASSUME NEW C, NEW f \in Seq(C), NEW n \in Seq(C), NEW A, NEW B,
         Down(A, f, C), Down(B, n, C),
         NEW i \in 1 .. Len(f), NEW j \in 1 .. Len(n), f[i] = "/", n[j] = "/"
  PROVE  CoversLevels(A[i], B[j]) <=> CoversLevels(A[i + 1], B[j + 1])
<1> DEFINE a == A[i + 1]
           a2 == A[i]
           b == B[j + 1]
           b2 == B[j]
<1>1. SlashStep(A, i) /\ SlashStep(B, j)
  BY DownSlash
<1>2. /\ Len(a2) = Len(a) + 1 /\ a2[1] = <<>> /\ \A k \in 1 .. Len(a) : a2[k + 1] = a[k]
      /\ Len(b2) = Len(b) + 1 /\ b2[1] = <<>> /\ \A k \in 1 .. Len(b) : b2[k + 1] = b[k]
  BY <1>1 DEF SlashStep
<1>3. i + 1 \in 1 .. Len(f) + 1 /\ j + 1 \in 1 .. Len(n) + 1
  BY Neighbours
<1>4. Len(a) \in Nat /\ Len(a) >= 1 /\ Len(b) \in Nat
  BY <1>3, DownTypes
<1> HIDE DEF a, a2, b, b2
<1>5. CoversLevels(a, b) <=> CoversLevels(a2, b2)
  BY <1>2, <1>4, FirstAdded
<1> QED
  BY <1>5 DEF a, a2, b, b2

(* A "+" in front covers a level of the name, whatever it is.              *)
LEMMA PlusInFront ==
  ASSUME NEW C, NEW f \in Seq(C), NEW n \in Seq(C), NEW A, NEW B,
         Down(A, f, C), Down(B, n, C), WildOnly(A, f),
         NEW i \in 1 .. Len(f), NEW j \in 1 .. Len(n), f[i] = "+", n[j] # "/"
  PROVE  CoversLevels(A[i], B[j]) <=> CoversLevels(A[i + 1], B[EndOfLevel(n, j) + 1])
<1> DEFINE e == EndOfLevel(n, j)
           a == A[i + 1]
           a2 == A[i]
           b == B[e + 1]
           b2 == B[j]
<1>1. /\ e \in j .. Len(n) /\ b[1] = <<>> /\ Len(b2) = Len(b)
      /\ \A k \in 2 .. Len(b2) : b2[k] = b[k]
  <2>1. LevelPassed(B, n, j, EndOfLevel(n, j))
    BY LevelEnds
  <2> QED
    BY <2>1 DEF LevelPassed
<1>2. f[i] \in Wild /\ f[i] # "/"
  BY DEF Wild
<1>3. a[1] = <<>>
  BY <1>2 DEF WildOnly
<1>4. a2[1] = <<"+">>
  BY <1>2, <1>3, WildFirst
<1>5. Len(a2) = Len(a) /\ \A k \in 2 .. Len(a) : a2[k] = a[k]
  <2>1. CharStep(A, f, i)
    BY <1>2, DownChar
  <2> QED
    BY <2>1 DEF CharStep
<1>6. Len(a) \in Nat /\ Len(a) >= 1 /\ Len(b) \in Nat
  <2>1. i + 1 \in 1 .. Len(f) + 1 /\ Len(n) \in Nat
    BY Neighbours
  <2>2. e + 1 \in 1 .. Len(n) + 1
    BY <1>1, <2>1
  <2> HIDE DEF e
  <2> QED
    BY <2>1, <2>2, DownTypes
<1> HIDE DEF e, a, a2, b, b2
<1>7. /\ <<"+">> # <<"#">> /\ <<>> # <<"#">>
      /\ Fits(a[1], b[1]) /\ Fits(a2[1], b2[1]) /\ a[1] # <<"#">> /\ a2[1] # <<"#">>
  <2>1. <<"+">> # <<"#">> /\ <<>> # <<"#">>
    OBVIOUS
  <2> QED
    BY <1>1, <1>3, <1>4, <2>1 DEF Fits
<1>8. \A k \in 2 .. Len(b) : b2[k] = b[k]
  BY <1>1
<1>9. CoversLevels(a, b) => CoversLevels(a2, b2)
  BY <1>1, <1>5, <1>6, <1>7, <1>8, FirstReplaced
<1>10. CoversLevels(a2, b2) => CoversLevels(a, b)
  BY <1>1, <1>5, <1>6, <1>7, <1>8, FirstReplaced
<1> QED
  BY <1>9, <1>10 DEF e, a, a2, b, b2

(* Nothing is left of both.                                                *)
LEMMA BothEnd ==
  ASSUME NEW C, NEW f \in Seq(C), NEW n \in Seq(C), NEW A, NEW B, Down(A, f, C), Down(B, n, C)
  PROVE  CoversLevels(A[Len(f) + 1], B[Len(n) + 1])
<1>1. A[Len(f) + 1] = << <<>> >> /\ B[Len(n) + 1] = << <<>> >>
  BY DEF Down
<1> DEFINE a == << <<>> >>
<1>2. Len(a) = 1 /\ a[1] = <<>> /\ a[1] # <<"#">>
  OBVIOUS
<1> HIDE DEF a
<1>3. ~EndsInHash(a) /\ Fixed(a) = 1
  BY <1>2 DEF EndsInHash, Fixed
<1>4. CoversLevels(a, a)
  <2>1. IF EndsInHash(a) THEN Len(a) >= Fixed(a) ELSE Len(a) = Fixed(a)
    BY <1>2, <1>3
  <2>2. \A k \in 1 .. Fixed(a) : Fits(a[k], a[k])
    BY DEF Fits
  <2>3. Len(a) \in Nat /\ Len(a) >= 1
    BY <1>2
  <2> QED
    BY <2>1, <2>2, <2>3, CoversEachLevel
<1> QED
  BY <1>1, <1>4 DEF a

(* A "#" that ends a filter covers every end of a name.                    *)
LEMMA HashCovers ==
  ASSUME NEW C, NEW f \in Seq(C), NEW A, Down(A, f, C), WildOnly(A, f),
         NEW i \in 1 .. Len(f), i = Len(f), f[i] = "#", NEW nl, Len(nl) \in Nat
  PROVE  CoversLevels(A[i], nl)
<1>1. f[i] \in Wild /\ f[i] # "/"
  BY DEF Wild
<1>2. A[i + 1][1] = <<>> /\ Len(A[i + 1]) = 1
  <2>1. A[i + 1] = << <<>> >>
    BY DEF Down
  <2> QED
    BY <2>1
<1>3. A[i][1] = <<"#">>
  BY <1>1, <1>2, WildFirst
<1>4. Len(A[i]) = 1
  <2>1. CharStep(A, f, i)
    BY <1>1, DownChar
  <2> QED
    BY <1>2, <2>1 DEF CharStep
<1>5. EndsInHash(A[i]) /\ Fixed(A[i]) = 0
  BY <1>3, <1>4 DEF EndsInHash, Fixed
<1> DEFINE fl == A[i]
<1>6. Len(fl) \in Nat /\ Len(fl) >= 1
  BY <1>4
<1> HIDE DEF fl
<1>7. IF EndsInHash(fl) THEN Len(nl) >= Fixed(fl) ELSE Len(nl) = Fixed(fl)
  BY <1>5 DEF fl
<1>8. \A k \in 1 .. Fixed(fl) : Fits(fl[k], nl[k])
  <2>1. Fixed(fl) = 0
    BY <1>5 DEF fl
  <2> QED
    BY <2>1
<1>9. CoversLevels(fl, nl)
  BY <1>6, <1>7, <1>8, CoversEachLevel
<1> QED
  BY <1>9 DEF fl

(* A filter matches only what it covers, end by end.                       *)
LEMMA MatchedCovers ==
  ASSUME NEW C, NEW f \in Seq(C), NEW n \in Seq(C), NEW A, NEW B, NEW M,
         Down(A, f, C), Down(B, n, C), WildOnly(A, f), Rows(M, f, n), M[1][1]
  PROVE  CoversLevels(A[1], B[1])
<1> DEFINE F == Len(f)
           N == Len(n)
           P == {i \in 1 .. F + 1 : \A j \in 1 .. N + 1 : M[i][j] => CoversLevels(A[i], B[j])}
<1>1. F \in Nat /\ N \in Nat
  BY LenProperties
<1>2. CoversLevels(A[F + 1], B[N + 1])
  BY BothEnd
<1>3. F + 1 \in P
  <2>1. ASSUME NEW j \in 1 .. N + 1, M[F + 1][j] PROVE CoversLevels(A[F + 1], B[j])
    <3>1. F + 1 \in 1 .. F + 1
      BY <1>1
    <3>2. M[F + 1][j] = (F + 1 = F + 1 /\ j = N + 1)
      BY <1>1, <3>1, RowAtEnd
    <3> QED
      BY <1>2, <2>1, <3>2
  <2> QED
    BY <1>1, <2>1
<1>4. ASSUME NEW i \in 1 .. F, i + 1 \in P, NEW j \in 1 .. N + 1, M[i][j]
      PROVE  CoversLevels(A[i], B[j])
  <2>1. \A k \in 1 .. N + 1 : M[i + 1][k] => CoversLevels(A[i + 1], B[k])
    BY <1>4
  <2>2. i \in 1 .. F + 1 /\ i # F + 1 /\ i + 1 \in 1 .. F + 1
    BY <1>1
  <2>3. j \in 1 .. N /\ j \in Nat
    <3>1. j = N + 1 => M[i][j] = (i = F + 1 /\ j = N + 1)
      BY <1>1, <2>2, RowAtEnd
    <3>2. j # N + 1
      BY <1>4, <2>2, <3>1
    <3> QED
      BY <1>1, <3>2
  <2>4. j + 1 \in 1 .. N + 1 /\ N + 1 \in 1 .. N + 1
    BY <1>1, <2>3
  <2>5. RowStep(M, f, n, i, j)
    BY <1>1, <2>3, RowOf
  <2>6. CASE f[i] = "/"
    <3>1. n[j] = "/" /\ M[i + 1][j + 1]
      BY <1>4, <2>5, <2>6 DEF RowStep
    <3>2. CoversLevels(A[i + 1], B[j + 1])
      BY <2>1, <2>4, <3>1
    <3> QED
      BY <2>3, <2>6, <3>1, <3>2, SlashInFront
  <2>7. CASE f[i] = "+"
    <3>1. n[j] # "/" /\ M[i + 1][EndOfLevel(n, j) + 1]
      BY <1>4, <2>5, <2>7 DEF RowStep
    <3>2. EndOfLevel(n, j) \in j .. N
      BY <2>3, <3>1, LevelEnds DEF LevelPassed
    <3>3. EndOfLevel(n, j) + 1 \in 1 .. N + 1
      BY <1>1, <2>3, <3>2
    <3>4. CoversLevels(A[i + 1], B[EndOfLevel(n, j) + 1])
      BY <2>1, <3>1, <3>3
    <3> QED
      BY <2>3, <2>7, <3>1, <3>4, PlusInFront
  <2>8. CASE f[i] = "#"
    <3>1. M[i + 1][N + 1]
      BY <1>4, <2>5, <2>8 DEF RowStep
    <3>2. i = F
      <4>1. ASSUME i # F PROVE FALSE
        <5>1. i + 1 \in 1 .. F /\ i + 1 # F + 1
          BY <1>1, <4>1
        <5>2. M[i + 1][N + 1] = (i + 1 = F + 1 /\ N + 1 = N + 1)
          BY <1>1, <2>2, <2>4, RowAtEnd
        <5> QED
          BY <3>1, <5>1, <5>2
      <4> QED
        BY <4>1
    <3>3. Len(B[j]) \in Nat
      BY DownTypes
    <3> QED
      BY <2>8, <3>2, <3>3, HashCovers
  <2>9. CASE f[i] \notin Wild /\ f[i] # "/"
    <3>1. f[i] = n[j] /\ M[i + 1][j + 1]
      <4>1. f[i] # "+" /\ f[i] # "#"
        BY <2>9 DEF Wild
      <4> QED
        BY <1>4, <2>5, <2>9, <4>1 DEF RowStep
    <3>2. CoversLevels(A[i + 1], B[j + 1])
      BY <2>1, <2>4, <3>1
    <3> QED
      BY <2>3, <2>9, <3>1, <3>2, CharInFront
  <2> QED
    BY <2>6, <2>7, <2>8, <2>9 DEF Wild
<1>5. \A i \in 1 .. F : i + 1 \in P => i \in P
  <2>1. \A i \in 1 .. F : i \in 1 .. F + 1
    BY <1>1
  <2> QED
    BY <1>4, <2>1
<1>6. 1 \in P
  <2> HIDE DEF P
  <2>1. \A i \in 1 .. F + 1 : i \in P
    BY <1>1, <1>3, <1>5, Backwards
  <2>2. 1 \in 1 .. F + 1
    BY <1>1
  <2> QED
    BY <2>1, <2>2
<1>7. 1 \in 1 .. N + 1
  BY <1>1
<1> QED
  BY <1>6, <1>7

(* The first level of a filter is matched, unless it is "#" alone.         *)
LEMMA FirstFits ==
  ASSUME NEW fl, NEW nl, Len(fl) \in Nat, Len(fl) >= 1, CoversLevels(fl, nl),
         Len(fl) >= 2 \/ fl[1] # <<"#">>
  PROVE  Fits(fl[1], nl[1])
<1>1. \A k \in 1 .. Fixed(fl) : Fits(fl[k], nl[k])
  BY CoversEachLevel
<1>2. EndsInHash(fl) => Len(fl) # 1
  BY DEF EndsInHash
<1>3. Fixed(fl) \in Nat /\ Fixed(fl) >= 1
  <2>1. CASE EndsInHash(fl)
    <3>1. Len(fl) - 1 \in Nat /\ Len(fl) - 1 >= 1
      <4> DEFINE m == Len(fl)
      <4>1. m \in Nat /\ m >= 1 /\ m # 1
        BY <1>2, <2>1
      <4> HIDE DEF m
      <4>2. m - 1 \in Nat /\ m - 1 >= 1
        BY <4>1
      <4> QED
        BY <4>2 DEF m
    <3>2. Fixed(fl) = Len(fl) - 1
      BY <2>1 DEF Fixed
    <3> QED
      BY <3>1, <3>2
  <2>2. CASE ~EndsInHash(fl)
    <3>1. Fixed(fl) = Len(fl)
      BY <2>2 DEF Fixed
    <3> QED
      BY <3>1
  <2> QED
    BY <2>1, <2>2
<1>4. 1 \in 1 .. Fixed(fl)
  BY <1>3
<1> QED
  BY <1>1, <1>4

(* Without "#" at its end, a filter has as many levels as the name.        *)
LEMMA EquallyMany ==
  ASSUME NEW fl, NEW nl, Len(fl) \in Nat, Len(fl) >= 1, CoversLevels(fl, nl),
         fl[Len(fl)] # <<"#">>
  PROVE  Len(nl) = Len(fl)
BY CoversEachLevel DEF EndsInHash, Fixed

(* A first level that is not empty begins with a character of the topic.   *)
LEMMA FirstBegun ==
  ASSUME NEW C, NEW t \in Seq(C), NEW L, Down(L, t, C), NEW i \in 1 .. Len(t) + 1,
         L[i][1] # <<>>
  PROVE  /\ i \in 1 .. Len(t) /\ t[i] # "/" /\ CharStep(L, t, i)
         /\ t[i] \in C /\ L[i + 1][1] \in Seq(C) /\ L[i][1] = <<t[i]>> \o L[i + 1][1]
<1>1. Len(t) \in Nat
  BY LenProperties
<1>2. i # Len(t) + 1 /\ t[i] # "/"
  BY EmptyFirst
<1>3. i \in 1 .. Len(t)
  BY <1>1, <1>2
<1>4. CharStep(L, t, i)
  BY <1>2, <1>3, DownChar
<1>5. t[i] \in C /\ i + 1 \in 1 .. Len(t) + 1
  BY <1>3, Neighbours
<1>6. L[i + 1][1] \in Seq(C)
  BY <1>5, DownTypes
<1> QED
  BY <1>2, <1>3, <1>4, <1>5, <1>6 DEF CharStep

(* Two ends the code matches: the second has as many levels as the first,  *)
(* and no empty one that a wildcard of the first meets.                    *)
Wanted(A, B, f, i, j) ==
  /\ CoversLevels(A[i], B[j]) /\ Len(B[j]) >= Len(A[i])
  /\ \A k \in 2 .. Len(A[i]) : A[i][k] \in WildLevels => B[j][k] # <<>>
  /\ i <= Len(f) /\ f[i] \in Wild => B[j][1] # <<>>

(* The end of a filter is wanted for the end of a name only.               *)
LEMMA WantedAtEnd ==
  ASSUME NEW C, NEW f \in Seq(C), NEW n \in Seq(C), NEW A, NEW B,
         Down(A, f, C), Down(B, n, C), NEW j \in 1 .. Len(n) + 1,
         Wanted(A, B, f, Len(f) + 1, j)
  PROVE  j = Len(n) + 1
<1> DEFINE fl == A[Len(f) + 1]
           nl == B[j]
<1>1. Len(n) \in Nat
  BY LenProperties
<1>2. Len(fl) = 1 /\ fl[1] = <<>>
  <2>1. fl = << <<>> >>
    BY DEF Down
  <2> QED
    BY <2>1
<1>3. fl[1] # <<"#">>
  <2>1. <<>> # <<"#">>
    OBVIOUS
  <2> QED
    BY <1>2, <2>1
<1>4. CoversLevels(fl, nl)
  BY DEF Wanted
<1> HIDE DEF fl, nl
<1>5. Fits(fl[1], nl[1]) /\ Len(nl) = 1
  <2>1. Len(fl) \in Nat /\ Len(fl) >= 1 /\ fl[Len(fl)] # <<"#">>
    BY <1>2, <1>3
  <2>2. Fits(fl[1], nl[1])
    BY <1>3, <1>4, <2>1, FirstFits
  <2>3. Len(nl) = Len(fl)
    BY <1>4, <2>1, EquallyMany
  <2> QED
    BY <1>2, <2>2, <2>3
<1>6. B[j][1] = <<>>
  <2>1. <<>> # <<"+">>
    OBVIOUS
  <2> QED
    BY <1>2, <1>5, <2>1 DEF Fits, nl
<1>7. ASSUME j # Len(n) + 1 PROVE FALSE
  <2>1. n[j] = "/" /\ j \in 1 .. Len(n)
    BY <1>1, <1>6, <1>7, EmptyFirst
  <2>2. SlashStep(B, j)
    BY <2>1, DownSlash
  <2>3. j + 1 \in 1 .. Len(n) + 1
    BY <1>1, <2>1
  <2>4. Len(B[j + 1]) \in Nat /\ Len(B[j + 1]) >= 1
    BY <2>3, DownTypes
  <2> QED
    BY <1>5, <2>2, <2>4 DEF SlashStep, nl
<1> QED
  BY <1>7

(* A "/" of the filter meets a "/" of the name.                            *)
LEMMA WantedSlash ==
  ASSUME NEW C, NEW f \in Seq(C), NEW n \in Seq(C), NEW A, NEW B,
         Down(A, f, C), Down(B, n, C), WildOnly(A, f),
         NEW i \in 1 .. Len(f), NEW j \in 1 .. Len(n) + 1,
         f[i] = "/", Wanted(A, B, f, i, j)
  PROVE  j \in 1 .. Len(n) /\ n[j] = "/" /\ Wanted(A, B, f, i + 1, j + 1)
<1>1. Len(n) \in Nat /\ i + 1 \in 1 .. Len(f) + 1 /\ i \in 1 .. Len(f) + 1
  BY Neighbours, LenProperties
<1>2. SlashStep(A, i)
  BY DownSlash
<1>3. Len(A[i + 1]) \in Nat /\ Len(A[i + 1]) >= 1
  BY <1>1, DownTypes
<1>4. Len(A[i]) >= 2 /\ Len(A[i]) \in Nat /\ A[i][1] = <<>>
  BY <1>2, <1>3 DEF SlashStep
<1>5. Fits(A[i][1], B[j][1])
  <2>1. CoversLevels(A[i], B[j])
    BY DEF Wanted
  <2> QED
    BY <1>4, <2>1, FirstFits
<1>6. B[j][1] = <<>>
  <2>1. <<>> # <<"+">>
    OBVIOUS
  <2> QED
    BY <1>4, <1>5, <2>1 DEF Fits
<1>7. j # Len(n) + 1
  <2>1. ASSUME j = Len(n) + 1 PROVE FALSE
    <3>1. B[j] = << <<>> >>
      BY <2>1 DEF Down
    <3>2. Len(B[j]) = 1
      BY <3>1
    <3> QED
      BY <1>4, <3>2 DEF Wanted
  <2> QED
    BY <2>1
<1>8. j \in 1 .. Len(n) /\ n[j] = "/"
  <2>1. j = Len(n) + 1 \/ n[j] = "/"
    BY <1>6, EmptyFirst
  <2> QED
    BY <1>1, <1>7, <2>1
<1>9. SlashStep(B, j)
  BY <1>8, DownSlash
<1>10. j + 1 \in 1 .. Len(n) + 1
  BY <1>1, <1>8
<1>11. Len(B[j + 1]) \in Nat /\ Len(B[j + 1]) >= 1
  BY <1>10, DownTypes
<1>12. CoversLevels(A[i + 1], B[j + 1])
  <2>1. CoversLevels(A[i], B[j])
    BY DEF Wanted
  <2> QED
    BY <1>8, <2>1, SlashInFront
<1>13. Len(B[j + 1]) >= Len(A[i + 1])
  <2>1. Len(B[j]) >= Len(A[i])
    BY DEF Wanted
  <2>2. Len(A[i]) = Len(A[i + 1]) + 1 /\ Len(B[j]) = Len(B[j + 1]) + 1
    BY <1>2, <1>9 DEF SlashStep
  <2> QED
    BY <1>3, <1>11, <2>1, <2>2
<1>14. ASSUME NEW k \in 1 .. Len(A[i + 1]), A[i + 1][k] \in WildLevels
       PROVE  B[j + 1][k] # <<>>
  <2>1. k \in 1 .. Len(B[j + 1]) /\ k + 1 \in 2 .. Len(A[i])
    BY <1>2, <1>3, <1>11, <1>13 DEF SlashStep
  <2>2. B[j][k + 1] = B[j + 1][k] /\ A[i][k + 1] = A[i + 1][k]
    BY <1>2, <1>9, <2>1 DEF SlashStep
  <2>3. A[i][k + 1] \in WildLevels => B[j][k + 1] # <<>>
    BY <2>1 DEF Wanted
  <2> QED
    BY <1>14, <2>2, <2>3
<1>15. ASSUME i + 1 <= Len(f), f[i + 1] \in Wild PROVE B[j + 1][1] # <<>>
  <2>1. i + 1 \in 1 .. Len(f)
    BY <1>1, <1>15
  <2>2. A[i + 1][1] = <<f[i + 1]>>
    BY <1>15, <2>1, WildFirst DEF WildOnly
  <2>3. A[i + 1][1] \in WildLevels
    BY <1>15, <2>2 DEF Wild, WildLevels
  <2>4. 1 \in 1 .. Len(A[i + 1])
    BY <1>3
  <2> QED
    BY <1>14, <2>3, <2>4
<1>16. \A k \in 2 .. Len(A[i + 1]) : k \in 1 .. Len(A[i + 1])
  BY <1>3
<1> QED
  BY <1>8, <1>12, <1>13, <1>14, <1>15, <1>16 DEF Wanted

(* A wildcard meets a level, which is not empty.                           *)
LEMMA WantedWild ==
  ASSUME NEW C, NEW f \in Seq(C), NEW n \in Seq(C), NEW A, NEW B,
         Down(A, f, C), Down(B, n, C), NEW i \in 1 .. Len(f), NEW j \in 1 .. Len(n) + 1,
         f[i] \in Wild, Wanted(A, B, f, i, j)
  PROVE  j \in 1 .. Len(n) /\ n[j] # "/"
<1>1. Len(f) \in Nat /\ i <= Len(f)
  BY LenProperties
<1>2. B[j][1] # <<>>
  BY <1>1 DEF Wanted
<1> QED
  BY <1>2, FirstBegun

(* Behind a "+", the end of the level of the name.                         *)
LEMMA WantedPlus ==
  ASSUME NEW C, NEW f \in Seq(C), NEW n \in Seq(C), NEW A, NEW B,
         Down(A, f, C), Down(B, n, C), WildOnly(A, f),
         NEW i \in 1 .. Len(f), NEW j \in 1 .. Len(n),
         f[i] = "+", n[j] # "/", Wanted(A, B, f, i, j)
  PROVE  EndOfLevel(n, j) \in j .. Len(n) /\ Wanted(A, B, f, i + 1, EndOfLevel(n, j) + 1)
<1> DEFINE e == EndOfLevel(n, j)
           b == B[e + 1]
<1>0. LevelPassed(B, n, j, EndOfLevel(n, j))
  BY LevelEnds
<1>1. /\ e \in j .. Len(n) /\ Len(B[j]) = Len(b)
      /\ \A k \in 2 .. Len(B[j]) : B[j][k] = b[k]
  BY <1>0 DEF LevelPassed
<1>2. f[i] \in Wild /\ f[i] # "/"
  BY DEF Wild
<1>3. CharStep(A, f, i)
  BY <1>2, DownChar
<1>4. CoversLevels(A[i + 1], b)
  <2>1. CoversLevels(A[i], B[j])
    BY DEF Wanted
  <2> QED
    BY <2>1, PlusInFront
<1>5. Len(b) >= Len(A[i + 1])
  <2>1. Len(B[j]) >= Len(A[i])
    BY DEF Wanted
  <2> QED
    BY <1>1, <1>3, <2>1 DEF CharStep
<1>6. ASSUME NEW k \in 2 .. Len(A[i + 1]), A[i + 1][k] \in WildLevels
      PROVE  b[k] # <<>>
  <2>1. Len(A[i]) = Len(A[i + 1]) /\ A[i][k] = A[i + 1][k]
    BY <1>3 DEF CharStep
  <2>2. Len(A[i]) \in Nat /\ Len(B[j]) \in Nat
    BY Neighbours, DownTypes
  <2>3. k \in 2 .. Len(A[i]) /\ k \in 2 .. Len(B[j])
    BY <2>1, <2>2 DEF Wanted
  <2>4. B[j][k] # <<>>
    BY <1>6, <2>1, <2>3 DEF Wanted
  <2> HIDE DEF b
  <2> QED
    BY <1>1, <2>3, <2>4
<1>7. ~(i + 1 <= Len(f) /\ f[i + 1] \in Wild)
  <2>1. ASSUME i + 1 <= Len(f), f[i + 1] \in Wild PROVE FALSE
    <3>1. i + 1 \in 1 .. Len(f) /\ i + 1 > 1 /\ (i + 1) - 1 = i
      BY <2>1, LenProperties
    <3>2. f[i] = "/"
      BY <2>1, <3>1 DEF WildOnly
    <3> QED
      BY <1>2, <3>2
  <2> QED
    BY <2>1
<1> HIDE DEF e
<1> QED
  BY <1>1, <1>4, <1>5, <1>6, <1>7 DEF Wanted, e

(* A "#" that meets a level of the name is the last of the filter.         *)
LEMMA WantedHash ==
  ASSUME NEW C, NEW f \in Seq(C), NEW n \in Seq(C), NEW A, NEW B,
         Down(A, f, C), Down(B, n, C), WildOnly(A, f),
         \A k \in 1 .. Len(n) : n[k] = "#" => k = Len(n),
         NEW i \in 1 .. Len(f), NEW j \in 1 .. Len(n),
         f[i] = "#", n[j] # "/", Wanted(A, B, f, i, j)
  PROVE  i = Len(f)
<1>1. Len(f) \in Nat /\ i + 1 \in 1 .. Len(f) + 1 /\ i \in 1 .. Len(f) + 1
      /\ Len(n) \in Nat /\ j \in 1 .. Len(n) + 1 /\ j + 1 \in 1 .. Len(n) + 1
  BY Neighbours
<1>2. f[i] \in Wild /\ f[i] # "/"
  BY DEF Wild
<1>3. A[i + 1][1] = <<>>
  BY <1>2 DEF WildOnly
<1>4. A[i][1] = <<"#">>
  BY <1>2, <1>3, WildFirst
<1>5. CharStep(A, f, i) /\ CharStep(B, n, j)
  BY <1>2, DownChar
<1>6. ASSUME i # Len(f) PROVE FALSE
  <2>1. i + 1 # Len(f) + 1 /\ i + 1 \in 1 .. Len(f)
    BY <1>1, <1>6
  <2>2. f[i + 1] = "/"
    BY <1>1, <1>3, <2>1, EmptyFirst
  <2>3. SlashStep(A, i + 1)
    BY <2>1, <2>2, DownSlash
  <2>4. (i + 1) + 1 \in 1 .. Len(f) + 1
    BY <2>1, Neighbours
  <2>5. Len(A[(i + 1) + 1]) \in Nat /\ Len(A[(i + 1) + 1]) >= 1
    BY <2>4, DownTypes
  <2>6. Len(A[i]) \in Nat /\ Len(A[i]) >= 2
    <3>1. Len(A[i + 1]) = Len(A[(i + 1) + 1]) + 1
      BY <2>3 DEF SlashStep
    <3>2. Len(A[i]) = Len(A[i + 1])
      BY <1>5 DEF CharStep
    <3> DEFINE m == Len(A[(i + 1) + 1])
    <3>3. m \in Nat /\ m >= 1 /\ Len(A[i]) = m + 1
      BY <2>5, <3>1, <3>2
    <3> HIDE DEF m
    <3> QED
      BY <3>3
  <2>7. Fits(A[i][1], B[j][1])
    <3>1. CoversLevels(A[i], B[j])
      BY DEF Wanted
    <3> QED
      BY <2>6, <3>1, FirstFits
  <2>8. B[j][1] = <<"#">>
    <3>1. <<"#">> # <<"+">>
      OBVIOUS
    <3> QED
      BY <1>4, <2>7, <3>1 DEF Fits
  <2>9. n[j] = "#"
    BY <1>1, <2>8, FirstSingle
  <2>10. j = Len(n)
    BY <2>9
  <2>11. B[j + 1] = << <<>> >>
    BY <2>10 DEF Down
  <2>12. Len(B[j]) = 1
    <3>1. Len(B[j + 1]) = 1
      BY <2>11
    <3> QED
      BY <1>5, <3>1 DEF CharStep
  <2> QED
    BY <2>6, <2>12 DEF Wanted
<1> QED
  BY <1>6

(* Another character of the filter meets the same one of the name.         *)
LEMMA WantedChar ==
  ASSUME NEW C, NEW f \in Seq(C), NEW n \in Seq(C), NEW A, NEW B,
         Down(A, f, C), Down(B, n, C), WildOnly(A, f),
         NEW i \in 1 .. Len(f), NEW j \in 1 .. Len(n) + 1,
         f[i] \notin Wild, f[i] # "/", Wanted(A, B, f, i, j)
  PROVE  j \in 1 .. Len(n) /\ n[j] = f[i] /\ Wanted(A, B, f, i + 1, j + 1)
<1>1. Len(f) \in Nat /\ i \in 1 .. Len(f) + 1 /\ f[i] \in C /\ i + 1 \in 1 .. Len(f) + 1
  BY Neighbours
<1> DEFINE c == f[i]
           x == A[i + 1][1]
<1>2. CharStep(A, f, i)
  BY DownChar
<1>3. c \in C /\ x \in Seq(C) /\ A[i][1] = <<c>> \o x /\ c # "#" /\ c # "+"
  BY <1>1, <1>2, DownTypes DEF CharStep, Wild
<1>4. A[i][1] # <<>> /\ A[i][1] # <<"#">> /\ A[i][1] # <<"+">>
  <2>0. c \in C /\ x \in Seq(C) /\ c # "#" /\ c # "+"
    BY <1>3
  <2> HIDE DEF c, x
  <2>1. <<c>> \o x # <<"#">> /\ <<c>> \o x # <<"+">>
    BY <2>0, FrontNotWild
  <2>3. <<c>> \o x # <<>>
    BY <2>0, FrontChar
  <2> QED
    BY <1>3, <2>1, <2>3
<1>5. Len(A[i]) \in Nat /\ Len(A[i]) >= 1
  BY <1>1, DownTypes
<1>6. B[j][1] = A[i][1]
  <2>1. CoversLevels(A[i], B[j])
    BY DEF Wanted
  <2>2. Fits(A[i][1], B[j][1])
    BY <1>4, <1>5, <2>1, FirstFits
  <2> QED
    BY <1>4, <2>2 DEF Fits
<1> DEFINE d == n[j]
           y == B[j + 1][1]
<1>7. /\ j \in 1 .. Len(n) /\ CharStep(B, n, j) /\ d \in C /\ y \in Seq(C)
      /\ B[j][1] = <<d>> \o y
  <2>1. B[j][1] # <<>>
    BY <1>4, <1>6
  <2> QED
    BY <2>1, FirstBegun
<1>8. c = d
  <2>1. c \in C /\ x \in Seq(C) /\ d \in C /\ y \in Seq(C)
    BY <1>3, <1>7
  <2>2. <<c>> \o x = <<d>> \o y
    BY <1>3, <1>6, <1>7
  <2> HIDE DEF c, d, x, y
  <2> QED
    BY <2>1, <2>2, FrontEqual
<1>9. CoversLevels(A[i + 1], B[j + 1])
  <2>1. CoversLevels(A[i], B[j])
    BY DEF Wanted
  <2>2. f[i] = n[j]
    BY <1>8
  <2> QED
    BY <1>7, <2>1, <2>2, CharInFront
<1>10. /\ Len(B[j + 1]) >= Len(A[i + 1])
       /\ \A k \in 2 .. Len(A[i + 1]) : A[i + 1][k] \in WildLevels => B[j + 1][k] # <<>>
  <2>1. /\ Len(A[i]) = Len(A[i + 1]) /\ Len(B[j]) = Len(B[j + 1])
        /\ \A k \in 2 .. Len(A[i + 1]) : A[i][k] = A[i + 1][k]
        /\ \A k \in 2 .. Len(B[j + 1]) : B[j][k] = B[j + 1][k]
    BY <1>2, <1>7 DEF CharStep
  <2>2. Len(A[i]) \in Nat /\ Len(B[j]) \in Nat /\ Len(B[j]) >= Len(A[i])
    BY <1>1, DownTypes DEF Wanted
  <2>3. ASSUME NEW k \in 2 .. Len(A[i + 1]), A[i + 1][k] \in WildLevels
        PROVE  B[j + 1][k] # <<>>
    <3>1. k \in 2 .. Len(A[i]) /\ k \in 2 .. Len(B[j + 1])
      BY <2>1, <2>2
    <3>2. B[j][k] # <<>>
      BY <2>1, <2>3, <3>1 DEF Wanted
    <3> QED
      BY <2>1, <3>1, <3>2
  <2> QED
    BY <2>1, <2>2, <2>3
<1>11. ~(i + 1 <= Len(f) /\ f[i + 1] \in Wild)
  <2>1. ASSUME i + 1 <= Len(f), f[i + 1] \in Wild PROVE FALSE
    <3>1. i + 1 \in 1 .. Len(f) /\ i + 1 > 1 /\ (i + 1) - 1 = i
      BY <1>1, <2>1
    <3>2. f[i] = "/"
      BY <2>1, <3>1 DEF WildOnly
    <3> QED
      BY <3>2
  <2> QED
    BY <2>1
<1> QED
  BY <1>7, <1>8, <1>9, <1>10, <1>11 DEF Wanted

(* A filter matches what it covers, empty levels under a wildcard and the  *)
(* topic above a "#" apart.                                                *)
LEMMA CoveredMatched ==
  ASSUME NEW C, NEW f \in Seq(C), NEW n \in Seq(C), NEW A, NEW B, NEW M,
         Down(A, f, C), Down(B, n, C), WildOnly(A, f), Rows(M, f, n),
         \A k \in 1 .. Len(n) : n[k] = "#" => k = Len(n),
         Wanted(A, B, f, 1, 1)
  PROVE  M[1][1]
<1> DEFINE F == Len(f)
           N == Len(n)
           P == {i \in 1 .. F + 1 : \A j \in 1 .. N + 1 : Wanted(A, B, f, i, j) => M[i][j]}
<1>1. F \in Nat /\ N \in Nat
  BY LenProperties
<1>2. M[F + 1][N + 1]
  <2>1. F + 1 \in 1 .. F + 1 /\ N + 1 \in 1 .. N + 1
    BY <1>1
  <2>2. M[F + 1][N + 1] = (F + 1 = F + 1 /\ N + 1 = N + 1)
    BY <1>1, <2>1, RowAtEnd
  <2> QED
    BY <2>2
<1>3. F + 1 \in P
  <2>1. ASSUME NEW j \in 1 .. N + 1, Wanted(A, B, f, F + 1, j) PROVE M[F + 1][j]
    <3>1. j = N + 1
      BY <2>1, WantedAtEnd
    <3> QED
      BY <1>2, <3>1
  <2> QED
    BY <1>1, <2>1
<1>4. ASSUME NEW i \in 1 .. F, i + 1 \in P, NEW j \in 1 .. N + 1, Wanted(A, B, f, i, j)
      PROVE  M[i][j]
  <2>1. \A k \in 1 .. N + 1 : Wanted(A, B, f, i + 1, k) => M[i + 1][k]
    BY <1>4
  <2>2. ASSUME j \in 1 .. N
        PROVE  RowStep(M, f, n, i, j)
    BY <1>1, <2>2, RowOf
  <2>3. ASSUME j \in 1 .. N PROVE j + 1 \in 1 .. N + 1
    BY <1>1, <2>3
  <2>4. CASE f[i] = "/"
    <3>1. j \in 1 .. N /\ n[j] = "/" /\ Wanted(A, B, f, i + 1, j + 1)
      BY <1>4, <2>4, WantedSlash
    <3>2. M[i + 1][j + 1]
      BY <2>1, <2>3, <3>1
    <3> QED
      BY <2>2, <2>4, <3>1, <3>2 DEF RowStep
  <2>5. CASE f[i] = "+"
    <3>1. f[i] \in Wild
      BY <2>5 DEF Wild
    <3>2. j \in 1 .. N /\ n[j] # "/"
      BY <1>4, <3>1, WantedWild
    <3>3. EndOfLevel(n, j) \in j .. N /\ Wanted(A, B, f, i + 1, EndOfLevel(n, j) + 1)
      BY <1>4, <2>5, <3>2, WantedPlus
    <3>4. EndOfLevel(n, j) + 1 \in 1 .. N + 1
      BY <1>1, <3>2, <3>3
    <3>5. M[i + 1][EndOfLevel(n, j) + 1]
      BY <2>1, <3>3, <3>4
    <3> QED
      BY <2>2, <2>5, <3>2, <3>5 DEF RowStep
  <2>6. CASE f[i] = "#"
    <3>1. f[i] \in Wild
      BY <2>6 DEF Wild
    <3>2. j \in 1 .. N /\ n[j] # "/"
      BY <1>4, <3>1, WantedWild
    <3>3. i = F
      BY <1>4, <2>6, <3>2, WantedHash
    <3> QED
      BY <1>2, <2>2, <2>6, <3>2, <3>3 DEF RowStep
  <2>7. CASE f[i] \notin Wild /\ f[i] # "/"
    <3>1. j \in 1 .. N /\ n[j] = f[i] /\ Wanted(A, B, f, i + 1, j + 1)
      BY <1>4, <2>7, WantedChar
    <3>2. M[i + 1][j + 1]
      BY <2>1, <2>3, <3>1
    <3>3. f[i] # "+" /\ f[i] # "#"
      BY <2>7 DEF Wild
    <3> QED
      BY <2>2, <2>7, <3>1, <3>2, <3>3 DEF RowStep
  <2> QED
    BY <2>4, <2>5, <2>6, <2>7 DEF Wild
<1>5. \A i \in 1 .. F : i + 1 \in P => i \in P
  <2>1. \A i \in 1 .. F : i \in 1 .. F + 1
    BY <1>1
  <2> QED
    BY <1>4, <2>1
<1>6. 1 \in P
  <2> HIDE DEF P
  <2>1. \A i \in 1 .. F + 1 : i \in P
    BY <1>1, <1>3, <1>5, Backwards
  <2>2. 1 \in 1 .. F + 1
    BY <1>1
  <2> QED
    BY <2>1, <2>2
<1>7. 1 \in 1 .. N + 1
  BY <1>1
<1> QED
  BY <1>6, <1>7

(* Every level that was looked at passed iotx_mc_check_rule.               *)
LEMMA CheckedLevels ==
  ASSUME NEW C, NEW t \in Seq(C), NEW s \in Seq(C), NEW type, iotx_mc_check_topic(t, type),
         s = IF Len(t) < TopicMaxLen THEN t ELSE SubSeq(t, 1, TopicMaxLen - 1),
         NEW L, Down(L, s, C), Levels(s) = L[1], NEW k \in 1 .. Len(L[1])
  PROVE  iotx_mc_check_rule(L[1][k], type)
<1>1. 1 \in 1 .. Len(s) + 1
  BY LenProperties
<1>2. L[1] \in Seq(Seq(C))
  BY <1>1, DownTypes
<1>3. DOMAIN L[1] = 1 .. Len(L[1])
  BY <1>2, LenProperties
<1>4. CASE L[1][k] = <<>>
  <2>1. Len(L[1][k]) = 0
    BY <1>4
  <2> QED
    BY <2>1 DEF iotx_mc_check_rule
<1>5. CASE L[1][k] # <<>>
  <2> DEFINE level == Levels(s)
             iterms == {m \in DOMAIN level : level[m] # <<>>}
  <2>1. \A m \in iterms : iotx_mc_check_rule(level[m], type)
    BY DEF iotx_mc_check_topic
  <2>2. k \in iterms
    BY <1>3, <1>5
  <2>3. iotx_mc_check_rule(level[k], type)
    <3> HIDE DEF iterms
    <3> QED
      BY <2>1, <2>2
  <2> QED
    BY <2>3
<1> QED
  BY <1>4, <1>5

(* A filter that was checked whole: its wildcards stand alone.             *)
LEMMA CheckedFilter ==
  ASSUME NEW C, NEW f \in Seq(C), Len(f) < TopicMaxLen, iotx_mc_check_topic(f, "filter"),
         NEW L, Down(L, f, C), Levels(f) = L[1]
  PROVE  WildOnly(L, f)
<1>1. ASSUME NEW k \in 1 .. Len(L[1]) PROVE Alone(L[1][k])
  <2>1. iotx_mc_check_rule(L[1][k], "filter")
    BY CheckedLevels
  <2> QED
    BY <2>1 DEF iotx_mc_check_rule, Alone, Wild
<1> QED
  BY <1>1, WildAlone DEF WildOnly

(* A name that was checked: "#" can only be its last character, which is   *)
(* not looked at when the name has the greatest length.                    *)
LEMMA CheckedName ==
  ASSUME NEW C, NEW n \in Seq(C), iotx_mc_check_topic(n, "name")
  PROVE  \A k \in 1 .. Len(n) : n[k] = "#" => k = Len(n)
<1> DEFINE s == IF Len(n) < TopicMaxLen THEN n ELSE SubSeq(n, 1, TopicMaxLen - 1)
<1>1. Len(n) \in Nat /\ TopicMaxLen \in Nat /\ TopicMaxLen >= 1 /\ Len(n) <= TopicMaxLen
  BY LenProperties, TopicsAssumption DEF iotx_mc_check_topic
<1>2. /\ s \in Seq(C) /\ Len(s) \in Nat /\ Len(s) >= Len(n) - 1
      /\ \A k \in 1 .. Len(s) : s[k] = n[k]
  <2>1. CASE Len(n) < TopicMaxLen
    BY <1>1, <2>1
  <2>2. CASE ~(Len(n) < TopicMaxLen)
    <3> DEFINE m == TopicMaxLen - 1
    <3>1. m \in Nat /\ m \in Int /\ 1 \in Int /\ m = Len(n) - 1
      BY <1>1, <2>2
    <3> HIDE DEF m
    <3>2. \A k \in 1 .. m : k \in 1 .. Len(n)
      BY <1>1, <3>1
    <3>3. \A k \in 1 .. m : n[k] \in C
      BY <3>2, ElementOfSeq
    <3>4. /\ SubSeq(n, 1, m) \in Seq(C)
          /\ Len(SubSeq(n, 1, m)) = IF 1 <= m THEN m - 1 + 1 ELSE 0
          /\ \A k \in 1 .. m - 1 + 1 : SubSeq(n, 1, m)[k] = n[1 + k - 1]
      BY <3>1, <3>3, SubSeqProperties
    <3>5. s = SubSeq(n, 1, m)
      BY <2>2 DEF m
    <3>6. Len(s) = m
      <4>1. Len(SubSeq(n, 1, m)) = m
        <5>1. CASE m = 0
          BY <3>4, <5>1
        <5>2. CASE m # 0
          <6>1. 1 <= m /\ m - 1 + 1 = m
            BY <3>1, <5>2
          <6> QED
            BY <3>4, <6>1
        <5> QED
          BY <5>1, <5>2
      <4> HIDE DEF s
      <4> QED
        BY <3>5, <4>1
    <3>7. ASSUME NEW k \in 1 .. m PROVE s[k] = n[k]
      <4>1. k \in 1 .. m - 1 + 1 /\ 1 + k - 1 = k
        BY <3>1
      <4> QED
        BY <3>4, <3>5, <4>1
    <3> HIDE DEF s
    <3> QED
      BY <3>1, <3>4, <3>5, <3>6, <3>7
  <2> QED
    BY <2>1, <2>2
<1>3. PICK L : Down(L, s, C) /\ Levels(s) = L[1]
  BY <1>2, LevelsWalk
<1>4. ASSUME NEW k \in 1 .. Len(L[1]), NEW j \in 1 .. Len(L[1][k]) PROVE L[1][k][j] # "#"
  <2>1. iotx_mc_check_rule(L[1][k], "name")
    BY <1>2, <1>3, CheckedLevels
  <2> QED
    BY <2>1 DEF iotx_mc_check_rule
<1>5. \A k \in 1 .. Len(s) : s[k] # "#"
  <2> DEFINE c == "#"
  <2>1. c # "/"
    OBVIOUS
  <2>2. \A k \in 1 .. Len(L[1]) : \A j \in 1 .. Len(L[1][k]) : L[1][k][j] # c
    BY <1>4
  <2>3. s \in Seq(C) /\ Down(L, s, C)
    BY <1>2, <1>3
  <2> HIDE DEF s, c
  <2>4. \A k \in 1 .. Len(s) : s[k] # c
    BY <2>1, <2>2, <2>3, InNoLevel
  <2> QED
    BY <2>4 DEF c
<1> HIDE DEF s
<1>6. ASSUME NEW k \in 1 .. Len(n), k # Len(n) PROVE n[k] # "#"
  <2>1. k \in 1 .. Len(s)
    BY <1>1, <1>2, <1>6
  <2> QED
    BY <1>2, <1>5, <2>1
<1> QED
  BY <1>6

(* The matching of the code against that of the protocol.                  *)
LEMMA MatchingCovers ==
  ASSUME NEW C, NEW f \in Seq(C), NEW n \in Seq(C), Len(f) < TopicMaxLen,
         iotx_mc_check_topic(f, "filter"), iotx_mc_check_topic(n, "name")
  PROVE  /\ iotx_mc_is_topic_matched(f, n) => Covers(f, n)
         /\ /\ Covers(f, n)
            /\ Len(Levels(n)) >= Len(Levels(f))
            /\ ~EmptyUnderWildcard(f, n)
            => iotx_mc_is_topic_matched(f, n)
<1>1. PICK A : Down(A, f, C) /\ Levels(f) = A[1]
  BY LevelsWalk
<1>2. PICK B : Down(B, n, C) /\ Levels(n) = B[1]
  BY LevelsWalk
<1>3. PICK M : Rows(M, f, n) /\ (iotx_mc_is_topic_matched(f, n) <=> M[1][1])
  BY RowsExist
<1>4. WildOnly(A, f)
  BY <1>1, CheckedFilter
<1>5. Covers(f, n) <=> CoversLevels(A[1], B[1])
  BY <1>1, <1>2 DEF Covers, CoversLevels
<1>6. M[1][1] => CoversLevels(A[1], B[1])
  BY <1>1, <1>2, <1>3, <1>4, MatchedCovers
<1>7. ASSUME CoversLevels(A[1], B[1]), Len(B[1]) >= Len(A[1]),
             \A k \in DOMAIN A[1] : A[1][k] \in WildLevels => B[1][k] # <<>>
      PROVE  M[1][1]
  <2>1. 1 \in 1 .. Len(n) + 1
    BY LenProperties
  <2>2. A[1] \in Seq(Seq(C)) /\ Len(A[1]) >= 1 /\ Len(A[1]) \in Nat
    <3>1. 1 \in 1 .. Len(f) + 1
      BY LenProperties
    <3> QED
      BY <1>1, <3>1, DownTypes
  <2>3. DOMAIN A[1] = 1 .. Len(A[1])
    BY <2>2, LenProperties
  <2>4. 1 \in DOMAIN A[1] /\ \A k \in 2 .. Len(A[1]) : k \in DOMAIN A[1]
    BY <2>2, <2>3
  <2>5. Wanted(A, B, f, 1, 1)
    <3>1. ASSUME 1 <= Len(f), f[1] \in Wild PROVE B[1][1] # <<>>
      <4>1. 1 \in 1 .. Len(f)
        BY <3>1, LenProperties
      <4>2. A[1][1] = <<f[1]>>
        BY <1>1, <1>4, <3>1, <4>1, WildFirst DEF WildOnly
      <4>3. A[1][1] \in WildLevels
        BY <3>1, <4>2 DEF Wild, WildLevels
      <4> QED
        BY <1>7, <2>4, <4>3
    <3> QED
      BY <1>7, <2>4, <3>1 DEF Wanted
  <2>6. \A k \in 1 .. Len(n) : n[k] = "#" => k = Len(n)
    BY CheckedName
  <2> QED
    BY <1>1, <1>2, <1>3, <1>4, <2>5, <2>6, CoveredMatched
<1>8. ASSUME ~EmptyUnderWildcard(f, n)
      PROVE  \A k \in DOMAIN A[1] : A[1][k] \in WildLevels => B[1][k] # <<>>
  BY <1>1, <1>2, <1>8 DEF EmptyUnderWildcard
<1> QED
  BY <1>2, <1>3, <1>5, <1>6, <1>7, <1>8, <1>1

(* A filter covers the name that is equal to it.                           *)
LEMMA CoversItself ==
  ASSUME NEW C, NEW t \in Seq(C)
  PROVE  Covers(t, t)
<1>1. PICK L : Down(L, t, C) /\ Levels(t) = L[1]
  BY LevelsWalk
<1> DEFINE a == L[1]
<1>2. 1 \in 1 .. Len(t) + 1
  BY LenProperties
<1>3. Len(a) \in Nat /\ Len(a) >= 1
  BY <1>1, <1>2, DownTypes
<1> HIDE DEF a
<1>4. IF EndsInHash(a) THEN Len(a) >= Fixed(a) ELSE Len(a) = Fixed(a)
  BY <1>3 DEF Fixed
<1>5. \A k \in 1 .. Fixed(a) : Fits(a[k], a[k])
  BY DEF Fits
<1>6. CoversLevels(a, a)
  BY <1>3, <1>4, <1>5, CoversEachLevel
<1> QED
  BY <1>1, <1>6 DEF Covers, CoversLevels, a

-----------------------------------------------------------------------------
(* The handler is the one the matching gives, of a filter and a name that  *)
(* were both checked.                                                      *)
HandlerOfMatching ==
  /\ topic_filter # <<>> => iotx_mc_check_topic(topic_filter, "filter")
  /\ handler # "none" =>
       /\ topic_filter # <<>> /\ iotx_mc_check_topic(topic_name, "name")
       /\ handler = IF topic_filter = topic_name
                       \/ iotx_mc_is_topic_matched(topic_filter, topic_name)
                      THEN "subscription" ELSE "default"

(* What the application passes is a topic.                                 *)
LEMMA TopicInput ==
  ASSUME NEW S, NEW N \in Nat, NEW len \in 0 .. N, NEW t \in [1 .. len -> S]
  PROVE  t \in Seq(S)
<1>1. len \in Nat
  OBVIOUS
<1> QED
  BY <1>1, SeqDef

(* Both were checked, and the matching chose the handler, in every state.  *)
TopicsIInv == TopicsTypeOK /\ HandlerOfMatching

LEMMA TopicsInitial == TopicsInit => TopicsIInv
<1>1. <<>> \in Seq(FilterChars) /\ <<>> \in Seq(NameChars)
  BY EmptySeq
<1> QED
  BY <1>1 DEF TopicsInit, TopicsIInv, TopicsTypeOK, HandlerOfMatching

LEMMA TopicsStep == TopicsIInv /\ [TopicsNext]_topicVars => TopicsIInv'
<1> SUFFICES ASSUME TopicsIInv, [TopicsNext]_topicVars PROVE TopicsIInv'
  OBVIOUS
<1> USE DEF TopicsIInv
<1>1. ASSUME NEW len \in 0 .. FilterLen, NEW t \in [1 .. len -> FilterChars], SubscribeTo(t)
      PROVE  TopicsIInv'
  <2>1. t \in Seq(FilterChars)
    BY TopicInput, TopicsAssumption
  <2>2. handler = "none"
    BY <1>1 DEF SubscribeTo, HandlerOfMatching
  <2> QED
    BY <1>1, <2>1, <2>2 DEF SubscribeTo, TopicsTypeOK, HandlerOfMatching
<1>2. ASSUME NEW len \in 0 .. NameLen, NEW t \in [1 .. len -> NameChars], DeliverMessage(t)
      PROVE  TopicsIInv'
  <2>1. t \in Seq(NameChars)
    BY TopicInput, TopicsAssumption
  <2>2. /\ topic_filter' = topic_filter /\ topic_filter # <<>> /\ topic_name' = t
        /\ iotx_mc_check_topic(t, "name")
        /\ handler' = IF topic_filter = t \/ iotx_mc_is_topic_matched(topic_filter, t)
                        THEN "subscription" ELSE "default"
    BY <1>2 DEF DeliverMessage
  <2>3. HandlerOfMatching'
    BY <2>2 DEF HandlerOfMatching
  <2>4. TopicsTypeOK'
    BY <2>1, <2>2 DEF TopicsTypeOK
  <2> QED
    BY <2>3, <2>4
<1>3. CASE UNCHANGED topicVars
  BY <1>3 DEF topicVars, TopicsTypeOK, HandlerOfMatching
<1> QED
  BY <1>1, <1>2, <1>3 DEF TopicsNext

(* A message goes to the subscription whose filter covers its name, and to *)
(* no other, an empty level under a wildcard and the topic above a "#"     *)
(* excepted: whatever the characters of the topics and their lengths       *)
(* (iotx_mc_deliver_message, iotx_mc_is_topic_matched).                    *)
THEOREM HandlerFound == TopicsSpec => []HandlerOfCoveringFilter
<1>1. TopicsIInv => HandlerOfCoveringFilter
  <2> SUFFICES ASSUME TopicsTypeOK, HandlerOfMatching,
                      handler # "none", Len(topic_filter) < TopicMaxLen
               PROVE  /\ handler = "subscription" => Covers(topic_filter, topic_name)
                      /\ /\ Covers(topic_filter, topic_name)
                         /\ Len(Levels(topic_name)) >= Len(Levels(topic_filter))
                         /\ ~EmptyUnderWildcard(topic_filter, topic_name)
                         => handler = "subscription"
    BY DEF HandlerOfCoveringFilter, TopicsIInv
  <2> DEFINE C == FilterChars \cup NameChars
  <2>1. topic_filter \in Seq(C) /\ topic_name \in Seq(C)
    BY SeqMonotonic DEF TopicsTypeOK
  <2>2. /\ iotx_mc_check_topic(topic_filter, "filter") /\ iotx_mc_check_topic(topic_name, "name")
        /\ handler = IF topic_filter = topic_name
                        \/ iotx_mc_is_topic_matched(topic_filter, topic_name)
                       THEN "subscription" ELSE "default"
    BY DEF HandlerOfMatching
  <2> HIDE DEF C
  <2>3. topic_filter = topic_name => Covers(topic_filter, topic_name)
    BY <2>1, CoversItself
  <2>4. /\ iotx_mc_is_topic_matched(topic_filter, topic_name) => Covers(topic_filter, topic_name)
        /\ /\ Covers(topic_filter, topic_name)
           /\ Len(Levels(topic_name)) >= Len(Levels(topic_filter))
           /\ ~EmptyUnderWildcard(topic_filter, topic_name)
           => iotx_mc_is_topic_matched(topic_filter, topic_name)
    BY <2>1, <2>2, MatchingCovers
  <2> QED
    BY <2>2, <2>3, <2>4
<1> QED
  BY <1>1, TopicsInitial, TopicsStep, PTL DEF TopicsSpec

=============================================================================
