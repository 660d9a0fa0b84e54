---------------------------- MODULE CommIfProofs ----------------------------
(***************************************************************************)
(* Theorems about CommIf for any number of client addresses, any depth of  *)
(* nested loops and any intervals.                                         *)
(*                                                                         *)
(* The argument is about the stack.  Only its top frame may hold a client  *)
(* that is not announced yet or a reconnection that has just succeeded,    *)
(* every reconnection stands on the loop that began it, and a client that  *)
(* is being released is never the one a connected interface uses.          *)
(***************************************************************************)
EXTENDS CommIf, SequenceTheorems, TLAPS

VarTypes ==
    /\ conn_state \in ConnStates
    /\ pclient \in Clients \cup {NoClient}
    /\ heap \in [Clients -> {"free", "live"}]
    /\ undefined \in BOOLEAN /\ asked \in {"no", "yes", "network"}

Passing == {"announce", "success"}

Shaped(s) ==
    /\ s \in Seq(Frames)
    /\ \A i \in 1 .. Len(s) - 1 : s[i].at \notin Passing
    /\ \A i \in DOMAIN s : s[i].proc = "reconnect" => i > 1 /\ s[i - 1].proc = "loop"

\* A connection is being made, or has just been.
Busy(s) == \E i \in DOMAIN s : s[i].proc \in {"connect", "reconnect"} \/ s[i].at = "success"

\* The application asked for the connection, or the network was lost.
Reason == asked \in {"yes", "network"}

Wanted ==
    conn_state \in {"CONNECTED", "DISCONNECTED", "RECONNECTING"} \/ Busy(stack) => Reason

\* pclient is in use: no other frame may be releasing it.
InUse == conn_state = "CONNECTED" \/ \E i \in DOMAIN stack : stack[i].at = "success"

NewClient ==
    \A i \in DOMAIN stack : stack[i].at = "announce" =>
        /\ heap[stack[i].client] = "live" /\ stack[i].client # pclient
        /\ \A j \in DOMAIN stack \ {i} : stack[j].client # stack[i].client

UsedClient ==
    InUse => /\ pclient \in Clients /\ heap[pclient] = "live"
             /\ \A i \in DOMAIN stack : stack[i].proc = "release" => stack[i].client # pclient

IInv == /\ VarTypes /\ Shaped(stack) /\ Wanted /\ EventsMatchState
        /\ ~undefined => NewClient /\ UsedClient
-----------------------------------------------------------------------------
(* What the operations on the stack make of it.                            *)

LEMMA Pop ==
  ASSUME NEW s, Shaped(s), s # <<>>
  PROVE  /\ Shaped(Front(s)) /\ Len(Front(s)) = Len(s) - 1
         /\ \A i \in DOMAIN Front(s) : i \in DOMAIN s /\ Front(s)[i] = s[i]
         /\ \A i \in DOMAIN Front(s) : Front(s)[i].at \notin Passing
         /\ DOMAIN Front(s) = 1 .. Len(s) - 1
<1>1. s \in Seq(Frames) /\ Len(s) \in Nat /\ Len(s) > 0
  BY DEF Shaped
<1>2. /\ Front(s) \in Seq(Frames) /\ Len(Front(s)) = Len(s) - 1
      /\ \A i \in 1 .. Len(s) - 1 : Front(s)[i] = s[i]
  <2>1. Front(s) = SubSeq(s, 1, Len(s) - 1) /\ Len(s) - 1 \in 0 .. Len(s)
    BY <1>1 DEF Front
  <2>2. \A i \in 1 .. Len(s) - 1 : s[i] \in Frames
    BY <1>1
  <2>3. 1 \in Int /\ Len(s) - 1 \in Int
    BY <1>1
  <2>4. /\ SubSeq(s, 1, Len(s) - 1) \in Seq(Frames)
        /\ Len(SubSeq(s, 1, Len(s) - 1)) =
             IF 1 <= Len(s) - 1 THEN (Len(s) - 1) - 1 + 1 ELSE 0
        /\ \A i \in 1 .. (Len(s) - 1) - 1 + 1 :
             SubSeq(s, 1, Len(s) - 1)[i] = s[1 + i - 1]
    BY <2>2, <2>3, SubSeqProperties
  <2>5. Len(Front(s)) = Len(s) - 1
    <3>1. (IF 1 <= Len(s) - 1 THEN (Len(s) - 1) - 1 + 1 ELSE 0) = Len(s) - 1
      BY <1>1
    <3> QED
      BY <2>1, <2>4, <3>1, Zenon
  <2>6. ASSUME NEW i \in 1 .. Len(s) - 1 PROVE Front(s)[i] = s[i]
    <3>1. 1 + i - 1 = i /\ i \in 1 .. (Len(s) - 1) - 1 + 1
      BY <1>1
    <3>2. SubSeq(s, 1, Len(s) - 1)[i] = s[1 + i - 1]
      BY <2>4, <3>1
    <3> QED
      BY <2>1, <3>1, <3>2
  <2> QED
    BY <2>1, <2>4, <2>5, <2>6
<1>3. DOMAIN Front(s) = 1 .. Len(s) - 1 /\ DOMAIN s = 1 .. Len(s)
  BY <1>1, <1>2
<1> QED
  BY <1>1, <1>2, <1>3 DEF Shaped

LEMMA Push ==
  ASSUME NEW s, Shaped(s), NEW f \in Frames,
         s # <<>> => s[Len(s)].at \notin Passing,
         f.proc = "reconnect" => s # <<>> /\ s[Len(s)].proc = "loop"
  PROVE  /\ Shaped(Append(s, f)) /\ Len(Append(s, f)) = Len(s) + 1
         /\ DOMAIN Append(s, f) = 1 .. Len(s) + 1 /\ DOMAIN s = 1 .. Len(s)
         /\ \A i \in DOMAIN s : Append(s, f)[i] = s[i]
         /\ Append(s, f)[Len(s) + 1] = f
<1>1. s \in Seq(Frames) /\ Len(s) \in Nat
  BY DEF Shaped
<1>2. /\ Append(s, f) \in Seq(Frames) /\ Len(Append(s, f)) = Len(s) + 1
      /\ \A i \in 1 .. Len(s) : Append(s, f)[i] = s[i]
      /\ Append(s, f)[Len(s) + 1] = f
  BY <1>1
<1>3. DOMAIN Append(s, f) = 1 .. Len(s) + 1 /\ DOMAIN s = 1 .. Len(s)
  BY <1>1, <1>2
<1>4. \A i \in 1 .. Len(s) : s[i].at \notin Passing
  BY <1>1 DEF Shaped
<1>5. \A i \in 1 .. Len(s) : s[i].proc = "reconnect" => i > 1 /\ s[i - 1].proc = "loop"
  BY <1>3 DEF Shaped
<1> QED
  BY <1>1, <1>2, <1>3, <1>4, <1>5 DEF Shaped

\* The top frame goes on, as another one of the same procedure.
LEMMA Swap ==
  ASSUME NEW s, Shaped(s), s # <<>>, NEW f \in Frames, f.proc = s[Len(s)].proc
  PROVE  LET t == Append(Front(s), f)
         IN  /\ Shaped(t) /\ Len(t) = Len(s) /\ t # <<>>
             /\ DOMAIN t = 1 .. Len(s) /\ DOMAIN s = 1 .. Len(s)
             /\ \A i \in 1 .. Len(s) - 1 : t[i] = s[i] /\ t[i].at \notin Passing
             /\ t[Len(s)] = f
<1> DEFINE front == Front(s)
<1>1. s \in Seq(Frames) /\ Len(s) \in Nat /\ Len(s) > 0 /\ DOMAIN s = 1 .. Len(s)
  BY DEF Shaped
<1>2. /\ Shaped(front) /\ Len(front) = Len(s) - 1 /\ DOMAIN front = 1 .. Len(s) - 1
      /\ \A i \in DOMAIN front : front[i] = s[i] /\ front[i].at \notin Passing
  BY Pop
<1> HIDE DEF front
<1>3. front # <<>> => /\ Len(front) \in DOMAIN front
                      /\ front[Len(front)].at \notin Passing
  BY <1>1, <1>2 DEF Shaped
<1>4. f.proc = "reconnect" => front # <<>> /\ front[Len(front)].proc = "loop"
  <2>1. f.proc = "reconnect" => Len(s) > 1 /\ s[Len(s) - 1].proc = "loop"
    <3>1. Len(s) \in DOMAIN s
      BY <1>1
    <3> QED
      BY <3>1 DEF Shaped
  <2> QED
    BY <2>1, <1>1, <1>2
<1>5. /\ Shaped(Append(front, f)) /\ Len(Append(front, f)) = Len(front) + 1
      /\ DOMAIN Append(front, f) = 1 .. Len(front) + 1
      /\ \A i \in DOMAIN front : Append(front, f)[i] = front[i]
      /\ Append(front, f)[Len(front) + 1] = f
  BY <1>2, <1>3, <1>4, Push
<1>6. Len(front) + 1 = Len(s) /\ Append(front, f) # <<>>
  <2>1. Len(front) + 1 = Len(s)
    BY <1>1, <1>2
  <2> QED
    BY <2>1, <1>1, <1>5, Len(<<>>) = 0
<1>7. \A i \in 1 .. Len(s) - 1 : /\ Append(front, f)[i] = s[i]
                                /\ Append(front, f)[i].at \notin Passing
  BY <1>2, <1>5
<1> QED
  BY <1>1, <1>5, <1>6, <1>7 DEF front
-----------------------------------------------------------------------------
(* Steps that make no client and no connection attempt.                    *)

\* A frame of t is one of the stack, one that went on, or a new loop or yield.
Moved(t) ==
    \A i \in DOMAIN t :
        \/ i \in DOMAIN stack /\ t[i] = stack[i]
        \/ /\ t[i].at \notin Passing
           /\ \/ /\ i \in DOMAIN stack
                 /\ t[i].client = stack[i].client /\ t[i].proc = stack[i].proc
              \/ t[i].client \in {NoClient, pclient} /\ t[i].proc \in {"loop", "yield"}

LEMMA FrameTypes ==
  ASSUME NEW s, Shaped(s), NEW i \in DOMAIN s
  PROVE  /\ s[i] \in Frames
         /\ s[i].at = "announce" => s[i].client \in Clients
         /\ s[i].proc \in {"connect", "reconnect"} => s[i].at # "success"
<1>1. s[i] \in Frames
  BY DEF Shaped
<1> QED
  BY <1>1 DEF Frames

LEMMA Continue ==
  ASSUME IInv, Shaped(stack'), Moved(stack'), undefined => undefined',
         UNCHANGED <<pclient, heap>>,
         conn_state' = "CONNECTED" => conn_state = "CONNECTED",
         conn_state' \in {"DISCONNECTED", "RECONNECTING"} =>
             conn_state \in {"CONNECTED", "DISCONNECTED", "RECONNECTING"} \/ Reason',
         Reason => Reason', undefined' \in BOOLEAN
  PROVE  Wanted' /\ (~undefined => NewClient /\ UsedClient)'
<1> USE DEF IInv
<1>1. Wanted'
  BY DEF Wanted, Busy, Moved, Passing
<1>2. ASSUME ~undefined' PROVE NewClient' /\ UsedClient'
  <2>1. NewClient /\ UsedClient
    BY <1>2
  <2>2. ASSUME NEW i \in DOMAIN stack', stack'[i].at = "announce"
        PROVE  /\ heap'[stack'[i].client] = "live" /\ stack'[i].client # pclient'
               /\ \A j \in DOMAIN stack' \ {i} : stack'[j].client # stack'[i].client
    <3>1. i \in DOMAIN stack /\ stack'[i] = stack[i]
      BY <2>2 DEF Moved, Passing
    <3>2. stack[i].client \in Clients /\ stack[i].client # NoClient
      BY <2>2, <3>1, FrameTypes, ClientsAssumption
    <3>3. /\ heap[stack[i].client] = "live" /\ stack[i].client # pclient
          /\ \A j \in DOMAIN stack \ {i} : stack[j].client # stack[i].client
      BY <2>1, <2>2, <3>1 DEF NewClient
    <3>4. ASSUME NEW j \in DOMAIN stack' \ {i} PROVE stack'[j].client # stack'[i].client
      BY <3>1, <3>2, <3>3 DEF Moved
    <3> QED
      BY <3>1, <3>3, <3>4
  <2>3. InUse' => InUse
    BY DEF InUse, Moved, Passing
  <2>4. ASSUME InUse', NEW i \in DOMAIN stack', stack'[i].proc = "release"
        PROVE  stack'[i].client # pclient'
    BY <2>1, <2>3, <2>4 DEF UsedClient, Moved
  <2> QED
    BY <2>1, <2>2, <2>3, <2>4 DEF NewClient, UsedClient
<1> QED
  BY <1>1, <1>2

\* What is left when the top frame returns.
LEMMA Returned ==
  ASSUME Shaped(stack), stack # <<>>
  PROVE  Shaped(Front(stack)) /\ Moved(Front(stack))
BY Pop DEF Moved

\* The top frame goes on.
LEMMA GoesOn ==
  ASSUME Shaped(stack), stack # <<>>, NEW f \in Frames, f.proc = Top.proc,
         f.client = Top.client, f.at \notin Passing
  PROVE  /\ Shaped(Replace(f)) /\ Moved(Replace(f))
         /\ Replace(f) # <<>> /\ Len(Replace(f)) = Len(stack)
         /\ DOMAIN Replace(f) = DOMAIN stack
         /\ Replace(f)[Len(stack)] = f
         /\ \A i \in 1 .. Len(stack) - 1 : Replace(f)[i] = stack[i]
<1> USE DEF Replace, Top
<1>1. /\ Shaped(Replace(f)) /\ Len(Replace(f)) = Len(stack) /\ Replace(f) # <<>>
      /\ DOMAIN Replace(f) = 1 .. Len(stack) /\ DOMAIN stack = 1 .. Len(stack)
      /\ \A i \in 1 .. Len(stack) - 1 : Replace(f)[i] = stack[i]
      /\ Replace(f)[Len(stack)] = f
  BY Swap
<1>2. Len(stack) \in Nat
  BY DEF Shaped
<1>3. Moved(Replace(f))
  BY <1>1, <1>2 DEF Moved
<1> QED
  BY <1>1, <1>3

\* The top frame calls a loop or a yield.
LEMMA Calls ==
  ASSUME Shaped(stack), stack # <<>>, NEW at, NEW f \in Frames,
         Goto(at) \in Frames, at \notin Passing, f.at \notin Passing,
         f.proc \in {"loop", "yield"}, f.client \in {NoClient, pclient}
  PROVE  Shaped(Call(at, f)) /\ Moved(Call(at, f))
<1> DEFINE s == Replace(Goto(at))
<1>1. Len(stack) \in Nat /\ DOMAIN stack = 1 .. Len(stack) /\ Len(stack) > 0 /\ Top \in Frames
  BY DEF Shaped, Top
<1>2. /\ Goto(at).proc = Top.proc /\ Goto(at).client = Top.client
      /\ Goto(at).at = at
  BY <1>1 DEF Goto, Frames
<1>3. /\ Shaped(s) /\ Moved(s) /\ s # <<>> /\ Len(s) = Len(stack)
      /\ s[Len(stack)] = Goto(at) /\ DOMAIN s = DOMAIN stack
  BY <1>2, GoesOn
<1> HIDE DEF s
<1>4. s[Len(s)].at \notin Passing
  BY <1>2, <1>3
<1>5. /\ Shaped(Append(s, f)) /\ DOMAIN Append(s, f) = 1 .. Len(s) + 1
      /\ DOMAIN s = 1 .. Len(s)
      /\ \A i \in DOMAIN s : Append(s, f)[i] = s[i]
      /\ Append(s, f)[Len(s) + 1] = f
  BY <1>3, <1>4, Push
<1>6. Moved(Append(s, f))
  <2> SUFFICES ASSUME NEW i \in DOMAIN Append(s, f)
               PROVE  \/ i \in DOMAIN stack /\ Append(s, f)[i] = stack[i]
                      \/ /\ Append(s, f)[i].at \notin Passing
                         /\ \/ /\ i \in DOMAIN stack
                               /\ Append(s, f)[i].client = stack[i].client
                               /\ Append(s, f)[i].proc = stack[i].proc
                            \/ /\ Append(s, f)[i].client \in {NoClient, pclient}
                               /\ Append(s, f)[i].proc \in {"loop", "yield"}
    BY DEF Moved
  <2>1. CASE i \in DOMAIN s
    BY <2>1, <1>3, <1>5 DEF Moved
  <2>2. CASE i = Len(s) + 1
    BY <2>2, <1>5
  <2> QED
    BY <1>1, <1>3, <1>5, <2>1, <2>2
<1> QED
  BY <1>5, <1>6 DEF s, Call

LEMMA Delayed ==
  ASSUME Shaped(stack), stack # <<>>, NEW at, at \notin Passing, Goto(at) \in Frames
  PROVE  Shaped(DelayLoops(at)) /\ Moved(DelayLoops(at))
<1>1. /\ Frame("loop", "start", NoClient) \in Frames
      /\ Frame("loop", "start", NoClient).proc = "loop"
      /\ Frame("loop", "start", NoClient).client = NoClient
      /\ Frame("loop", "start", NoClient).at = "start"
  BY DEF Frame, Frames
<1>2. /\ Shaped(Call(at, Frame("loop", "start", NoClient)))
      /\ Moved(Call(at, Frame("loop", "start", NoClient)))
  BY <1>1, Calls DEF Passing
<1>3. Goto(at).proc = Top.proc /\ Goto(at).client = Top.client /\ Goto(at).at = at
  <2>1. Top \in Frames
    BY DEF Shaped, Top
  <2> QED
    BY <2>1 DEF Goto, Frames
<1>4. Shaped(Replace(Goto(at))) /\ Moved(Replace(Goto(at)))
  BY <1>3, GoesOn
<1> QED
  BY <1>2, <1>4 DEF DelayLoops

\* iotx_comm_connect is called: the old client is released first.
LEMMA Attempt ==
  ASSUME IInv, NEW proc \in {"connect", "reconnect"},
         proc = "connect" => stack = <<>>,
         proc = "reconnect" => At({"loop"}, "check"),
         StartConnect(stack, proc), conn_state # "CONNECTED",
         UNCHANGED <<conn_state, pclient, heap>>
  PROVE  /\ Shaped(stack') /\ undefined' \in BOOLEAN
         /\ (~undefined => NewClient /\ UsedClient)'
<1> DEFINE f == Frame(proc, "construct", NoClient)
           g == Frame("release", "delay", pclient)
           s == Append(stack, f)
<1> USE DEF IInv
<1>1. /\ f \in Frames /\ f.proc = proc /\ f.at = "construct" /\ f.client = NoClient
      /\ pclient # NoClient => g \in Frames
      /\ g.proc = "release" /\ g.at = "delay"
  BY DEF Frame, Frames, VarTypes
<1>2. Len(stack) \in Nat /\ (stack # <<>> => Len(stack) \in DOMAIN stack)
  BY DEF Shaped
<1>3. stack # <<>> => stack[Len(stack)].proc = "loop" /\ stack[Len(stack)].at = "check"
  BY DEF At, Top
<1>4. \A i \in DOMAIN stack : stack[i].at \notin Passing
  <2>1. DOMAIN stack = 1 .. Len(stack)
    BY DEF Shaped
  <2> QED
    BY <1>2, <1>3, <2>1 DEF Shaped, Passing
<1> HIDE DEF f, g
<1>5. /\ Shaped(s) /\ Len(s) = Len(stack) + 1 /\ DOMAIN s = 1 .. Len(stack) + 1
      /\ DOMAIN stack = 1 .. Len(stack)
      /\ \A i \in DOMAIN stack : s[i] = stack[i]
      /\ s[Len(stack) + 1] = f
  BY <1>1, <1>2, <1>3, Push DEF Passing, At
<1>6. \A i \in DOMAIN s : s[i].at \notin Passing
  BY <1>1, <1>2, <1>4, <1>5 DEF Passing
<1> HIDE DEF s
<1>7. pclient # NoClient =>
        /\ Shaped(Append(s, g)) /\ DOMAIN Append(s, g) = 1 .. Len(s) + 1
        /\ DOMAIN s = 1 .. Len(s)
        /\ \A i \in DOMAIN s : Append(s, g)[i] = s[i]
        /\ Append(s, g)[Len(s) + 1] = g
  <2>1. Len(s) \in DOMAIN s
    BY <1>2, <1>5
  <2> QED
    BY <1>1, <1>5, <1>6, <2>1, Push
<1>8. pclient # NoClient => \A i \in DOMAIN Append(s, g) : Append(s, g)[i].at \notin Passing
  BY <1>1, <1>2, <1>5, <1>6, <1>7 DEF Passing
<1>9. /\ Shaped(stack') /\ undefined' \in BOOLEAN
      /\ \A i \in DOMAIN stack' : stack'[i].at \notin Passing
  BY <1>5, <1>6, <1>7, <1>8 DEF StartConnect, Use, VarTypes, s, f, g
<1> QED
  BY <1>9 DEF NewClient, UsedClient, InUse, Passing

LEMMA TopFrame ==
  ASSUME Shaped(stack), stack # <<>>
  PROVE  /\ Top \in Frames /\ Len(stack) \in DOMAIN stack /\ Top = stack[Len(stack)]
         /\ Len(stack) \in Nat /\ DOMAIN stack = 1 .. Len(stack)
         /\ \A i \in DOMAIN stack : i < Len(stack) => stack[i].at \notin Passing
BY DEF Shaped, Top

\* iotx_comm_connect returns to the application or to the loop that reconnects.
LEMMA ConnectReturns ==
  ASSUME Shaped(stack), stack # <<>>, Top.proc \in {"connect", "reconnect"},
         NEW result \in {"success", "failure"}
  PROVE  LET t == ReturnFromConnect(result)
         IN  /\ Shaped(t)
             /\ \A i \in DOMAIN t :
                  /\ i \in DOMAIN stack \ {Len(stack)}
                  /\ t[i].client = stack[i].client /\ t[i].proc = stack[i].proc
                  /\ t[i].at # "announce"
             /\ result = "failure" => Moved(t)
<1> DEFINE below == Front(stack)
           n == Len(stack) - 1
<1>1. /\ Shaped(below) /\ Len(below) = n /\ DOMAIN below = 1 .. n
      /\ \A i \in DOMAIN below : /\ i \in DOMAIN stack \ {Len(stack)}
                                 /\ below[i] = stack[i] /\ below[i].at \notin Passing
  <2>1. /\ Shaped(below) /\ Len(below) = n /\ DOMAIN below = 1 .. n
        /\ \A i \in DOMAIN below : /\ i \in DOMAIN stack /\ below[i] = stack[i]
                                   /\ below[i].at \notin Passing
    BY Pop
  <2>2. Len(stack) \in Nat /\ Len(stack) \notin 1 .. n
    BY TopFrame
  <2> QED
    BY <2>1, <2>2
<1>2. Moved(below)
  BY Returned
<1>3. CASE Top.proc = "connect"
  BY <1>1, <1>2, <1>3 DEF ReturnFromConnect, Passing
<1>4. CASE Top.proc = "reconnect"
  <2> DEFINE f == [below[n] EXCEPT !.at = result]
             t == [below EXCEPT ![n] = f]
  <2>1. n \in 1 .. n /\ n \in Nat /\ below[n].proc = "loop" /\ below[n] \in Frames
    <3>1. /\ Len(stack) \in DOMAIN stack /\ Len(stack) \in Nat
          /\ stack[Len(stack)].proc = "reconnect"
      BY <1>4, TopFrame
    <3>2. Len(stack) > 1 /\ stack[Len(stack) - 1].proc = "loop"
      BY <3>1 DEF Shaped
    <3>3. n \in 1 .. n /\ n \in Nat /\ n \in DOMAIN below
      BY <1>1, <3>1, <3>2
    <3>4. below[n] = stack[n] /\ below \in Seq(Frames)
      BY <1>1, <3>3 DEF Shaped
    <3> QED
      BY <3>2, <3>3, <3>4
  <2>2. /\ f \in Frames /\ f.proc = "loop" /\ f.client = below[n].client /\ f.at = result
        /\ f.proc = below[n].proc
    BY <2>1 DEF Frames
  <2>3. ReturnFromConnect(result) = t
    BY <1>1, <1>4 DEF ReturnFromConnect
  <2> HIDE DEF f, below
  <2>4. below \in Seq(Frames) /\ t \in Seq(Frames) /\ Len(t) = n /\ DOMAIN t = 1 .. n
    BY <1>1, <2>1, <2>2 DEF Shaped
  <2>5. t[n] = f /\ \A i \in 1 .. n : i # n => t[i] = below[i]
    BY <1>1, <2>1, <2>4
  <2> HIDE DEF t
  <2>6. \A i \in 1 .. n : t[i].client = below[i].client /\ t[i].proc = below[i].proc
    BY <2>2, <2>5
  <2>7. Shaped(t)
    BY <1>1, <2>1, <2>4, <2>5, <2>6 DEF Shaped
  <2>8. \A i \in 1 .. n : /\ t[i].at # "announce"
                          /\ result = "failure" => t[i].at \notin Passing
    BY <1>1, <2>2, <2>5 DEF Passing
  <2>9. \A i \in 1 .. n : /\ i \in DOMAIN stack \ {Len(stack)}
                          /\ t[i].client = stack[i].client /\ t[i].proc = stack[i].proc
    BY <1>1, <2>6
  <2>10. result = "failure" => Moved(t)
    BY <2>4, <2>8, <2>9 DEF Moved
  <2>11. \A i \in DOMAIN t :
            /\ i \in DOMAIN stack \ {Len(stack)}
            /\ t[i].client = stack[i].client /\ t[i].proc = stack[i].proc
            /\ t[i].at # "announce"
    BY <2>4, <2>8, <2>9
  <2> QED
    BY <2>3, <2>7, <2>10, <2>11
<1> QED
  BY <1>3, <1>4

\* A frame goes on and calls iotx_mc_release for c.
WithRelease(t, c) ==
    /\ Shaped(t) /\ DOMAIN t = 1 .. Len(stack) + 1
    /\ \A i \in DOMAIN t : t[i].at \notin Passing
    /\ \A i \in 1 .. Len(stack) : t[i].proc = stack[i].proc
    /\ \A i \in 1 .. Len(stack) - 1 : t[i] = stack[i]
    /\ t[Len(stack) + 1].client = c

LEMMA Releases ==
  ASSUME Shaped(stack), stack # <<>>, NEW f \in Frames, f.proc = Top.proc,
         f.at = "failure", NEW c \in Clients
  PROVE  WithRelease(Append(Replace(f), Frame("release", "delay", c)), c)
<1> DEFINE s == Replace(f)
           g == Frame("release", "delay", c)
<1>1. /\ Shaped(s) /\ Len(s) = Len(stack) /\ s # <<>> /\ DOMAIN s = 1 .. Len(stack)
      /\ \A i \in 1 .. Len(stack) - 1 : s[i] = stack[i] /\ s[i].at \notin Passing
      /\ s[Len(stack)] = f
  BY Swap DEF Replace, Top
<1>2. g \in Frames /\ g.proc = "release" /\ g.at = "delay" /\ g.client = c
  BY DEF Frame, Frames
<1>3. Len(stack) \in Nat /\ Len(stack) \in 1 .. Len(stack)
  BY TopFrame
<1> HIDE DEF s, g
<1>4. /\ Shaped(Append(s, g)) /\ DOMAIN Append(s, g) = 1 .. Len(s) + 1
      /\ \A i \in DOMAIN s : Append(s, g)[i] = s[i]
      /\ Append(s, g)[Len(s) + 1] = g
  BY <1>1, <1>2, <1>3, Push DEF Passing
<1>5. \A i \in 1 .. Len(stack) + 1 : Append(s, g)[i].at \notin Passing
  BY <1>1, <1>2, <1>3, <1>4 DEF Passing
<1>6. \A i \in 1 .. Len(stack) : Append(s, g)[i].proc = stack[i].proc
  BY <1>1, <1>3, <1>4 DEF Top
<1>7. \A i \in 1 .. Len(stack) - 1 : Append(s, g)[i] = stack[i]
  BY <1>1, <1>3, <1>4
<1>8. Append(s, g)[Len(stack) + 1] = g
  BY <1>1, <1>3, <1>4
<1> QED
  BY <1>1, <1>2, <1>4, <1>5, <1>6, <1>7, <1>8 DEF s, g, WithRelease
-----------------------------------------------------------------------------
LEMMA InitialState == Init => IInv
<1> SUFFICES ASSUME Init PROVE IInv
  OBVIOUS
<1>1. stack = <<>> /\ Shaped(stack) /\ DOMAIN stack = {}
  BY DEF Init, Shaped
<1>2. Wanted /\ EventsMatchState
  BY <1>1 DEF Init, Wanted, Busy, EventsMatchState
<1>3. NewClient /\ UsedClient
  BY <1>1 DEF Init, NewClient, UsedClient, InUse
<1>4. VarTypes
  BY DEF Init, VarTypes, ConnStates
<1> QED
  BY <1>1, <1>2, <1>3, <1>4 DEF IInv

LEMMA StateSet ==
  ASSUME EventsMatchState, NEW s \in {"INITIALIZED", "CONNECTED", "DISCONNECTED"},
         SetConnState(s)
  PROVE  EventsMatchState' /\ conn_state' = s /\ conn_state' \in ConnStates
BY DEF SetConnState, EventsMatchState, ConnStates

\* A step that neither makes nor frees a client, nor begins to use another one.
Quiet ==
    /\ Shaped(stack') /\ Moved(stack')
    /\ conn_state' \in ConnStates /\ EventsMatchState'
    /\ conn_state' = "CONNECTED" => conn_state = "CONNECTED"
    /\ conn_state' \in {"DISCONNECTED", "RECONNECTING"} =>
           conn_state \in {"CONNECTED", "DISCONNECTED", "RECONNECTING"} \/ Reason'
    /\ UNCHANGED <<pclient, heap>>
    /\ asked' \in {"no", "yes", "network"} /\ (Reason => Reason')
    /\ undefined' \in BOOLEAN /\ (undefined => undefined')

LEMMA QuietKeeps == ASSUME IInv, Quiet PROVE IInv'
<1>1. VarTypes'
  BY DEF IInv, VarTypes, Quiet
<1>2. Wanted' /\ (~undefined => NewClient /\ UsedClient)'
  BY Continue DEF Quiet
<1> QED
  BY <1>1, <1>2 DEF IInv, Quiet

LEMMA SameStack == ASSUME Shaped(stack), UNCHANGED stack PROVE Shaped(stack') /\ Moved(stack')
BY DEF Moved

LEMMA UseKeeps ==
  ASSUME VarTypes, NEW c \in Clients \cup {NoClient}, Use(c)
  PROVE  undefined' \in BOOLEAN /\ (undefined => undefined')
BY DEF VarTypes, Use

LEMMA AppSteps ==
  ASSUME IInv, AppLoop \/ App PROVE IInv'
<1> USE DEF IInv
<1>1. CASE AppLoop
  <2> DEFINE f == Frame("loop", "start", NoClient)
  <2>1. f \in Frames /\ f.proc = "loop" /\ f.client = NoClient /\ f.at = "start"
    BY DEF Frame, Frames
  <2>2. stack' = <<f>>
    BY <1>1 DEF AppLoop
  <2> HIDE DEF f
  <2>3. <<f>> \in Seq(Frames) /\ Len(<<f>>) = 1 /\ DOMAIN <<f>> = 1 .. 1 /\ <<f>>[1] = f
    BY <2>1
  <2>4. Shaped(stack') /\ Moved(stack')
    BY <2>1, <2>2, <2>3 DEF Shaped, Moved, Passing
  <2>5. Quiet
    BY <1>1, <2>4 DEF AppLoop, Quiet, connVars, heapVars, VarTypes, EventsMatchState, Reason
  <2> QED
    BY <2>5, QuietKeeps
<1>2. CASE AppNetworkDown
  <2>1. Shaped(stack') /\ Moved(stack')
    BY <1>2, SameStack DEF AppNetworkDown
  <2>2. EventsMatchState' /\ conn_state' = "DISCONNECTED" /\ conn_state' \in ConnStates
    BY <1>2, StateSet DEF AppNetworkDown, NetworkLost
  <2>3. Quiet
    BY <1>2, <2>1, <2>2
    DEF AppNetworkDown, NetworkLost, heapVars, Quiet, VarTypes, Reason, FoundDown
  <2> QED
    BY <2>3, QuietKeeps
<1>3. CASE AppConnect
  <2>1. /\ Shaped(stack') /\ undefined' \in BOOLEAN
        /\ (~undefined => NewClient /\ UsedClient)'
    BY <1>3, Attempt DEF AppConnect, connVars
  <2>2. Wanted' /\ EventsMatchState' /\ VarTypes'
    BY <1>3, <2>1 DEF AppConnect, connVars, Wanted, EventsMatchState, VarTypes, Reason
  <2> QED
    BY <2>1, <2>2
<1>4. CASE AppDisconnect
  <2> DEFINE g == Frame("release", "delay", pclient)
  <2>1. stack = <<>> /\ DOMAIN stack = {}
    BY <1>4 DEF AppDisconnect
  <2>2. pclient # NoClient => g \in Frames /\ g.proc = "release" /\ g.at = "delay"
    BY DEF Frame, Frames, VarTypes
  <2> HIDE DEF g
  <2>3. pclient # NoClient => /\ <<g>> \in Seq(Frames) /\ Len(<<g>>) = 1
                              /\ DOMAIN <<g>> = 1 .. 1 /\ <<g>>[1] = g
    BY <2>2
  <2>4. stack' = stack \/ (pclient # NoClient /\ stack' = <<g>>)
    BY <1>4, <2>1 DEF AppDisconnect, g
  <2>5. /\ Shaped(stack') /\ ~Busy(stack')
        /\ \A i \in DOMAIN stack' : stack'[i].at \notin Passing
    <3>1. CASE stack' = stack
      BY <2>1, <3>1 DEF Busy
    <3>2. CASE pclient # NoClient /\ stack' = <<g>>
      BY <2>2, <2>3, <3>2 DEF Shaped, Busy, Passing
    <3> QED
      BY <2>4, <3>1, <3>2
  <2>6. EventsMatchState' /\ conn_state' = "INITIALIZED" /\ conn_state' \in ConnStates
    BY <1>4, StateSet DEF AppDisconnect
  <2>7. VarTypes'
    BY <1>4, <2>6 DEF AppDisconnect, VarTypes, Use
  <2>8. Wanted' /\ NewClient' /\ UsedClient'
    BY <2>5, <2>6 DEF Wanted, NewClient, UsedClient, InUse, Passing
  <2> QED
    BY <2>5, <2>6, <2>7, <2>8
<1>5. CASE AppSendFails \/ AppFindsDisconnected
  <2>1. Shaped(stack') /\ Moved(stack')
    BY <1>5, SameStack DEF AppSendFails, AppFindsDisconnected
  <2>2. EventsMatchState' /\ conn_state' = "DISCONNECTED" /\ conn_state' \in ConnStates
    BY <1>5, StateSet DEF AppSendFails, SendFails, AppFindsDisconnected
  <2>3. Quiet
    BY <1>5, <2>1, <2>2, UseKeeps
    DEF AppSendFails, SendFails, AppFindsDisconnected, Quiet, VarTypes, Reason
  <2> QED
    BY <2>3, QuietKeeps
<1> QED
  BY <1>1, <1>2, <1>3, <1>4, <1>5 DEF App

LEMMA LoopSteps ==
  ASSUME IInv, Loop PROVE IInv'
<1> USE DEF IInv
<1>1. CASE LoopNetworkDown
  <2>1. Shaped(stack') /\ Moved(stack')
    BY <1>1, Returned DEF LoopNetworkDown, At
  <2>2. EventsMatchState' /\ conn_state' = "DISCONNECTED" /\ conn_state' \in ConnStates
    BY <1>1, StateSet DEF LoopNetworkDown, NetworkLost
  <2>3. Quiet
    BY <1>1, <2>1, <2>2
    DEF LoopNetworkDown, NetworkLost, heapVars, Quiet, VarTypes, Reason, FoundDown
  <2> QED
    BY <2>3, QuietKeeps
<1>2. CASE LoopYield
  <2>1. stack # <<>> /\ Top.proc = "loop" /\ Top.at = "start" /\ Top \in Frames
    BY <1>2, TopFrame DEF LoopYield, At
  <2>2. /\ Goto("check") \in Frames /\ Goto("check").proc = Top.proc
        /\ Goto("check").client = Top.client /\ Goto("check").at = "check"
    BY <2>1 DEF Goto, Frames
  <2>3. pclient # NoClient =>
          /\ Frame("yield", "turn", pclient) \in Frames
          /\ Frame("yield", "turn", pclient).proc = "yield"
          /\ Frame("yield", "turn", pclient).at = "turn"
          /\ Frame("yield", "turn", pclient).client = pclient
    BY DEF Frame, Frames, VarTypes
  <2>4. Shaped(Replace(Goto("check"))) /\ Moved(Replace(Goto("check")))
    BY <2>1, <2>2, GoesOn DEF Passing
  <2>5. pclient # NoClient =>
          /\ Shaped(Call("check", Frame("yield", "turn", pclient)))
          /\ Moved(Call("check", Frame("yield", "turn", pclient)))
    BY <2>1, <2>2, <2>3, Calls DEF Passing
  <2>6. Shaped(stack') /\ Moved(stack')
    BY <1>2, <2>4, <2>5 DEF LoopYield
  <2>7. Quiet
    BY <1>2, <2>6 DEF LoopYield, Quiet, connVars, heapVars, VarTypes, EventsMatchState, Reason
  <2> QED
    BY <2>7, QuietKeeps
<1>3. CASE LoopConnected
  <2>1. Shaped(stack') /\ Moved(stack')
    BY <1>3, Returned DEF LoopConnected, At
  <2>2. \/ UNCHANGED connVars
        \/ EventsMatchState' /\ conn_state' = "DISCONNECTED" /\ conn_state' \in ConnStates
    BY <1>3, StateSet DEF LoopConnected, SendFails
  <2>3. EventsMatchState' /\ conn_state' \in ConnStates
    BY <2>2 DEF EventsMatchState, connVars, VarTypes
  <2>4. undefined' \in BOOLEAN /\ (undefined => undefined')
    BY <1>3, UseKeeps DEF LoopConnected, SendFails, VarTypes
  <2>5. Quiet
    BY <1>3, <2>1, <2>2, <2>3, <2>4 DEF LoopConnected, SendFails, Quiet, connVars, VarTypes, Reason
  <2> QED
    BY <2>5, QuietKeeps
<1>4. CASE LoopDisconnected
  <2>1. Shaped(stack') /\ Moved(stack')
    BY <1>4, Returned DEF LoopDisconnected, At
  <2>2. EventsMatchState' /\ conn_state' = "RECONNECTING" /\ conn_state' \in ConnStates
    BY <1>4 DEF LoopDisconnected, EventsMatchState, ConnStates
  <2>3. /\ undefined' \in BOOLEAN /\ (undefined => undefined')
        /\ asked' \in {"no", "yes", "network"} /\ (Reason => Reason')
        /\ Reason' \/ conn_state \in {"CONNECTED", "DISCONNECTED"}
    <3>1. UNCHANGED undefined \/ Use(pclient)
      BY <1>4 DEF LoopDisconnected
    <3>2. undefined' \in BOOLEAN /\ (undefined => undefined')
      BY <3>1, UseKeeps DEF VarTypes
    <3>3. FoundDown \/ (asked' = asked /\ conn_state \in {"CONNECTED", "DISCONNECTED"})
      BY <1>4 DEF LoopDisconnected
    <3> QED
      BY <3>2, <3>3 DEF VarTypes, FoundDown, Reason
  <2>4. Quiet
    BY <1>4, <2>1, <2>2, <2>3 DEF LoopDisconnected, Quiet
  <2> QED
    BY <2>4, QuietKeeps
<1>5. CASE LoopIdle
  <2>1. Shaped(stack') /\ Moved(stack')
    BY <1>5, Returned DEF LoopIdle, At
  <2>2. Quiet
    BY <1>5, <2>1 DEF LoopIdle, Quiet, connVars, heapVars, VarTypes, EventsMatchState, Reason
  <2> QED
    BY <2>2, QuietKeeps
<1>6. CASE LoopReconnects
  <2>1. /\ Shaped(stack') /\ undefined' \in BOOLEAN
        /\ (~undefined => NewClient /\ UsedClient)'
    BY <1>6, Attempt DEF LoopReconnects, connVars
  <2>2. Wanted' /\ EventsMatchState' /\ VarTypes'
    BY <1>6, <2>1 DEF LoopReconnects, connVars, Wanted, EventsMatchState, VarTypes, Reason
  <2> QED
    BY <2>1, <2>2
<1>7. CASE LoopReconnected
  <2>1. stack # <<>> /\ Top.at = "success"
    BY <1>7 DEF LoopReconnected, At
  <2>2. Len(stack) \in DOMAIN stack /\ stack[Len(stack)].at = "success"
    BY <2>1, TopFrame
  <2>3. /\ Shaped(stack')
        /\ \A i \in DOMAIN stack' : /\ i \in DOMAIN stack /\ stack'[i] = stack[i]
                                    /\ stack'[i].at \notin Passing
    BY <1>7, <2>1, Pop DEF LoopReconnected
  <2>4. EventsMatchState' /\ conn_state' = "CONNECTED" /\ conn_state' \in ConnStates
    BY <1>7, StateSet DEF LoopReconnected
  <2>5. Reason /\ Wanted' /\ VarTypes'
    BY <1>7, <2>2, <2>4 DEF LoopReconnected, heapVars, Wanted, Busy, VarTypes, Reason
  <2>6. ASSUME ~undefined' PROVE NewClient' /\ UsedClient'
    <3>1. UsedClient /\ InUse
      BY <1>7, <2>2, <2>6 DEF LoopReconnected, heapVars, InUse
    <3> QED
      BY <1>7, <2>3, <3>1 DEF LoopReconnected, heapVars, NewClient, UsedClient, Passing
  <2> QED
    BY <2>3, <2>4, <2>5, <2>6
<1>8. CASE LoopReconnectFailed
  <2>1. Shaped(stack') /\ Moved(stack')
    BY <1>8, Returned DEF LoopReconnectFailed, At
  <2>2. Quiet
    BY <1>8, <2>1
    DEF LoopReconnectFailed, Quiet, connVars, heapVars, VarTypes, EventsMatchState, Reason
  <2> QED
    BY <2>2, QuietKeeps
<1> QED
  BY <1>1, <1>2, <1>3, <1>4, <1>5, <1>6, <1>7, <1>8 DEF Loop

LEMMA ClientFrame ==
  ASSUME Shaped(stack), stack # <<>>,
         Top.proc \in {"yield", "release"} \/ Top.at = "announce"
  PROVE  Top.client \in Clients
<1>1. Top \in Frames
  BY TopFrame
<1> QED
  BY <1>1 DEF Frames

LEMMA OtherSteps ==
  ASSUME IInv, YieldEnds \/ YieldFails \/ NetworkChanges \/ Tick PROVE IInv'
<1> USE DEF IInv
<1>1. CASE YieldEnds
  <2>1. stack # <<>> /\ Top.proc = "yield"
    BY <1>1 DEF YieldEnds, At
  <2>2. Shaped(stack') /\ Moved(stack')
    BY <1>1, <2>1, Returned DEF YieldEnds
  <2>3. undefined' \in BOOLEAN /\ (undefined => undefined')
    BY <1>1, <2>1, ClientFrame, UseKeeps DEF YieldEnds
  <2>4. Quiet
    BY <1>1, <2>2, <2>3 DEF YieldEnds, Quiet, connVars, VarTypes, EventsMatchState, Reason
  <2> QED
    BY <2>4, QuietKeeps
<1>2. CASE YieldFails
  <2>1. stack # <<>> /\ Top.proc = "yield" /\ Top \in Frames
    BY <1>2, TopFrame DEF YieldFails, At
  <2>2. Goto("turn") \in Frames
    BY <2>1 DEF Goto, Frames
  <2>3. Shaped(stack') /\ Moved(stack')
    BY <1>2, <2>1, <2>2, Delayed DEF YieldFails, Passing
  <2>4. undefined' \in BOOLEAN /\ (undefined => undefined')
    BY <1>2, <2>1, ClientFrame, UseKeeps DEF YieldFails
  <2>5. Quiet
    BY <1>2, <2>3, <2>4 DEF YieldFails, Quiet, connVars, VarTypes, EventsMatchState, Reason
  <2> QED
    BY <2>5, QuietKeeps
<1>3. CASE NetworkChanges \/ Tick
  <2>1. Shaped(stack') /\ Moved(stack')
    BY <1>3, SameStack DEF NetworkChanges, Tick
  <2>2. Quiet
    BY <1>3, <2>1
    DEF NetworkChanges, Tick, Quiet, connVars, heapVars, VarTypes, EventsMatchState, Reason
  <2> QED
    BY <2>2, QuietKeeps
<1> QED
  BY <1>1, <1>2, <1>3

LEMMA ConnectingSteps ==
  ASSUME IInv, Connecting PROVE IInv'
<1> USE DEF IInv
<1>1. CASE Construct
  <2>1. PICK c \in Clients :
           Allocate(c, TRUE) /\ stack' = Replace(Frame(Top.proc, "announce", c))
    BY <1>1 DEF Construct
  <2> DEFINE f == Frame(Top.proc, "announce", c)
             n == Len(stack)
  <2>2. stack # <<>> /\ Top.proc \in {"connect", "reconnect"} /\ Top.at = "construct"
    BY <1>1 DEF Construct, At
  <2>3. f \in Frames /\ f.proc = Top.proc /\ f.at = "announce" /\ f.client = c
    BY <2>2 DEF Frame, Frames
  <2> HIDE DEF f
  <2>4. /\ Shaped(stack') /\ DOMAIN stack' = 1 .. n /\ DOMAIN stack = 1 .. n
        /\ \A i \in 1 .. n - 1 : stack'[i] = stack[i] /\ stack'[i].at \notin Passing
        /\ stack'[n] = f
    BY <2>1, <2>2, <2>3, Swap DEF Replace, Top, f
  <2>5. n \in Nat /\ n \in 1 .. n /\ Top = stack[n]
    BY <2>2, TopFrame
  <2>6. Reason /\ Wanted'
    BY <1>1, <2>2, <2>4, <2>5 DEF Construct, Wanted, Busy, Reason
  <2>7. VarTypes' /\ EventsMatchState'
    BY <1>1, <2>1 DEF Construct, Allocate, connVars, VarTypes, EventsMatchState
  <2>8. ASSUME ~undefined' PROVE NewClient' /\ UsedClient'
    <3>1. ~undefined /\ c # pclient /\ \A i \in DOMAIN stack : stack[i].client # c
      BY <2>1, <2>8 DEF Allocate, Holders, VarTypes
    <3>2. heap'[c] = "live" /\ (\A d \in Clients : heap[d] = "live" => heap'[d] = "live")
      BY <2>1 DEF Allocate, VarTypes
    <3>3. ASSUME NEW i \in DOMAIN stack', stack'[i].at = "announce"
          PROVE  i = n
      BY <2>4, <2>5, <3>3 DEF Passing
    <3>4. NewClient'
      <4>1. \A j \in DOMAIN stack' \ {n} : stack'[j].client # c
        BY <2>4, <2>5, <3>1
      <4> QED
        BY <1>1, <2>3, <2>4, <3>1, <3>2, <3>3, <4>1 DEF NewClient, Construct
    <3>5. InUse' => InUse
      BY <1>1, <2>3, <2>4, <2>5 DEF Construct, connVars, InUse, Passing
    <3>6. ASSUME InUse', NEW i \in DOMAIN stack', stack'[i].proc = "release"
          PROVE  stack'[i].client # pclient
      BY <2>2, <2>3, <2>4, <2>5, <3>1, <3>5, <3>6 DEF UsedClient
    <3>7. UsedClient'
      BY <1>1, <3>1, <3>2, <3>5, <3>6 DEF UsedClient, Construct
    <3> QED
      BY <3>4, <3>7
  <2> QED
    BY <2>4, <2>6, <2>7, <2>8
<1>2. CASE ConstructFails
  <2>1. PICK c \in Clients, normal \in BOOLEAN :
           /\ Allocate(c, normal)
           /\ stack' = Call("failure", Frame("release", "delay", c))
    BY <1>2 DEF ConstructFails
  <2> DEFINE n == Len(stack)
  <2>2. /\ stack # <<>> /\ Top.proc \in {"connect", "reconnect"} /\ Top.at = "construct"
        /\ Top \in Frames /\ n \in Nat /\ n \in 1 .. n /\ Top = stack[n]
        /\ DOMAIN stack = 1 .. n
    BY <1>2, TopFrame DEF ConstructFails, At
  <2>3. /\ Goto("failure") \in Frames /\ Goto("failure").proc = Top.proc
        /\ Goto("failure").at = "failure" /\ Goto("failure").client = Top.client
    BY <2>2 DEF Goto, Frames
  <2>4. WithRelease(stack', c)
    <3>1. stack' = Append(Replace(Goto("failure")), Frame("release", "delay", c))
      BY <2>1 DEF Call
    <3> QED
      BY <2>2, <2>3, <3>1, Releases
  <2>5. Reason /\ Wanted'
    BY <1>2, <2>2 DEF ConstructFails, Wanted, Busy, Reason
  <2>6. VarTypes' /\ EventsMatchState'
    BY <1>2, <2>1 DEF ConstructFails, Allocate, connVars, VarTypes, EventsMatchState
  <2>7. ASSUME ~undefined' PROVE NewClient' /\ UsedClient'
    <3>1. ~undefined /\ c # pclient
      BY <2>1, <2>7 DEF Allocate, Holders, VarTypes
    <3>2. \A d \in Clients : heap[d] = "live" => heap'[d] = "live"
      BY <2>1 DEF Allocate, VarTypes
    <3>3. NewClient' /\ (InUse' => InUse)
      BY <1>2, <2>4 DEF WithRelease, NewClient, InUse, ConstructFails, connVars, Passing
    <3>4. ASSUME InUse', NEW i \in DOMAIN stack', stack'[i].proc = "release"
          PROVE  stack'[i].client # pclient
      <4>1. CASE i = n + 1
        BY <2>4, <3>1, <4>1 DEF WithRelease
      <4>2. CASE i \in 1 .. n
        BY <2>2, <2>4, <3>1, <3>3, <3>4, <4>2 DEF WithRelease, UsedClient
      <4> QED
        BY <2>2, <2>4, <4>1, <4>2 DEF WithRelease
    <3> QED
      BY <1>2, <3>1, <3>2, <3>3, <3>4 DEF UsedClient, ConstructFails
  <2> QED
    BY <2>4, <2>5, <2>6, <2>7 DEF WithRelease
<1>3. CASE ConstructNoMemory
  <2>1. /\ stack # <<>> /\ Top.proc \in {"connect", "reconnect"} /\ Top.at = "construct"
        /\ Top \in Frames
    BY <1>3, TopFrame DEF ConstructNoMemory, At
  <2>2. /\ Goto("failure") \in Frames /\ Goto("failure").proc = Top.proc
        /\ Goto("failure").at = "failure" /\ Goto("failure").client = Top.client
    BY <2>1 DEF Goto, Frames
  <2>3. Shaped(stack') /\ Moved(stack')
    BY <1>3, <2>1, <2>2, GoesOn DEF ConstructNoMemory, Passing
  <2>4. Quiet
    BY <1>3, <2>3 DEF ConstructNoMemory, Quiet, connVars, heapVars, VarTypes, EventsMatchState, Reason
  <2> QED
    BY <2>4, QuietKeeps
<1>4. CASE Announced
  <2> DEFINE n == Len(stack)
  <2>1. /\ stack # <<>> /\ Top.proc \in {"connect", "reconnect"} /\ Top.at = "announce"
        /\ n \in DOMAIN stack /\ Top = stack[n] /\ Top.client \in Clients
    BY <1>4, TopFrame, ClientFrame DEF Announced, At
  <2>2. /\ Shaped(stack')
        /\ \A i \in DOMAIN stack' :
              /\ i \in DOMAIN stack \ {n}
              /\ stack'[i].client = stack[i].client /\ stack'[i].proc = stack[i].proc
              /\ stack'[i].at # "announce"
    BY <1>4, <2>1, ConnectReturns DEF Announced
  <2>3. Reason /\ Wanted'
    BY <1>4, <2>1 DEF Announced, Wanted, Busy, Reason
  <2>4. EventsMatchState' /\ conn_state' \in ConnStates
    BY <1>4, StateSet DEF Announced, connVars, EventsMatchState, VarTypes
  <2>5. VarTypes'
    BY <1>4, <2>1, <2>4, UseKeeps DEF Announced, VarTypes
  <2>6. ASSUME ~undefined' PROVE NewClient' /\ UsedClient'
    <3>1. ~undefined /\ heap[Top.client] = "live"
      BY <1>4, <2>6 DEF Announced, Use
    <3>2. \A i \in DOMAIN stack \ {n} : stack[i].client # Top.client
      BY <2>1, <3>1 DEF NewClient
    <3> QED
      BY <1>4, <2>1, <2>2, <3>1, <3>2 DEF Announced, NewClient, UsedClient
  <2> QED
    BY <2>2, <2>3, <2>4, <2>5, <2>6
<1>5. CASE AnnounceFails
  <2> DEFINE n == Len(stack)
             f == Frame(Top.proc, "failure", NoClient)
  <2>1. /\ stack # <<>> /\ Top.proc \in {"connect", "reconnect"} /\ Top.at = "announce"
        /\ n \in Nat /\ n \in 1 .. n /\ DOMAIN stack = 1 .. n /\ Top = stack[n]
        /\ Top.client \in Clients
    BY <1>5, TopFrame, ClientFrame DEF AnnounceFails, At
  <2>2. f \in Frames /\ f.proc = Top.proc /\ f.at = "failure"
    BY <2>1 DEF Frame, Frames
  <2>3. stack' = Append(Replace(f), Frame("release", "delay", Top.client))
    BY <1>5 DEF AnnounceFails
  <2> HIDE DEF f
  <2>4. WithRelease(stack', Top.client)
    BY <2>1, <2>2, <2>3, Releases
  <2>5. Reason /\ Wanted'
    BY <1>5, <2>1 DEF AnnounceFails, Wanted, Busy, Reason
  <2>6. VarTypes' /\ EventsMatchState'
    BY <1>5 DEF AnnounceFails, connVars, VarTypes, EventsMatchState
  <2>7. ASSUME ~undefined' PROVE NewClient' /\ UsedClient'
    <3>1. ~undefined /\ Top.client # pclient
      BY <1>5, <2>1, <2>7 DEF AnnounceFails, NewClient
    <3>2. NewClient' /\ (InUse' => InUse)
      BY <1>5, <2>4 DEF WithRelease, NewClient, InUse, AnnounceFails, connVars, Passing
    <3>3. ASSUME InUse', NEW i \in DOMAIN stack', stack'[i].proc = "release"
          PROVE  stack'[i].client # pclient
      <4>1. CASE i = n + 1
        BY <2>4, <3>1, <4>1 DEF WithRelease
      <4>2. CASE i \in 1 .. n
        BY <2>1, <2>4, <3>1, <3>2, <3>3, <4>2 DEF WithRelease, UsedClient
      <4> QED
        BY <2>1, <2>4, <4>1, <4>2 DEF WithRelease
    <3> QED
      BY <1>5, <3>1, <3>2, <3>3 DEF UsedClient, AnnounceFails
  <2> QED
    BY <2>4, <2>5, <2>6, <2>7 DEF WithRelease
<1>6. CASE ConnectFailed
  <2>1. /\ stack # <<>> /\ Top.proc \in {"connect", "reconnect"}
        /\ Len(stack) \in DOMAIN stack /\ Top = stack[Len(stack)]
    BY <1>6, TopFrame DEF ConnectFailed, At
  <2>2. Shaped(stack') /\ Moved(stack')
    BY <1>6, <2>1, ConnectReturns DEF ConnectFailed
  <2>3. Reason
    BY <2>1 DEF Wanted, Busy
  <2>4. \/ EventsMatchState' /\ conn_state' = "DISCONNECTED" /\ conn_state' \in ConnStates
        \/ UNCHANGED connVars
    BY <1>6, StateSet DEF ConnectFailed
  <2>5. Quiet
    BY <1>6, <2>2, <2>3, <2>4
    DEF ConnectFailed, Quiet, connVars, heapVars, VarTypes, EventsMatchState, Reason
  <2> QED
    BY <2>5, QuietKeeps
<1> QED
  BY <1>1, <1>2, <1>3, <1>4, <1>5, <1>6 DEF Connecting

LEMMA ReleasingSteps ==
  ASSUME IInv, ReleaseDelays \/ Releasing PROVE IInv'
<1> USE DEF IInv
<1>1. CASE ReleaseDelays
  <2>1. stack # <<>> /\ Top.proc = "release" /\ Top \in Frames
    BY <1>1, TopFrame DEF ReleaseDelays, At
  <2>2. Goto(Top.at) \in Frames /\ Top.at \notin Passing
    BY <1>1, <2>1 DEF Goto, Frames, ReleaseDelays, At, Passing
  <2>3. Shaped(stack') /\ Moved(stack')
    BY <1>1, <2>1, <2>2, Delayed DEF ReleaseDelays
  <2>4. Quiet
    BY <1>1, <2>3 DEF ReleaseDelays, Quiet, connVars, heapVars, VarTypes, EventsMatchState, Reason
  <2> QED
    BY <2>4, QuietKeeps
<1>2. CASE ReleaseDisconnects
  <2>1. stack # <<>> /\ Top.proc = "release" /\ Top \in Frames
    BY <1>2, TopFrame DEF ReleaseDisconnects, At
  <2>2. /\ Goto("delay again") \in Frames /\ Goto("delay again").proc = Top.proc
        /\ Goto("delay again").client = Top.client /\ Goto("delay again").at = "delay again"
    BY <2>1 DEF Goto, Frames
  <2>3. Shaped(stack') /\ Moved(stack')
    BY <1>2, <2>1, <2>2, GoesOn DEF ReleaseDisconnects, Passing
  <2>4. undefined' \in BOOLEAN /\ (undefined => undefined')
    BY <1>2, <2>1, ClientFrame, UseKeeps DEF ReleaseDisconnects
  <2>5. Quiet
    BY <1>2, <2>3, <2>4 DEF ReleaseDisconnects, Quiet, connVars, VarTypes, EventsMatchState, Reason
  <2> QED
    BY <2>5, QuietKeeps
<1>3. CASE ReleaseFrees
  <2>1. /\ stack # <<>> /\ Top.proc = "release" /\ Top.client \in Clients
        /\ Len(stack) \in DOMAIN stack /\ Top = stack[Len(stack)]
    BY <1>3, TopFrame, ClientFrame DEF ReleaseFrees, At
  <2>2. /\ Shaped(stack')
        /\ \A i \in DOMAIN stack' : /\ i \in DOMAIN stack /\ stack'[i] = stack[i]
                                    /\ stack'[i].at \notin Passing
    BY <1>3, <2>1, Pop DEF ReleaseFrees
  <2>3. Wanted'
    BY <1>3, <2>2 DEF ReleaseFrees, connVars, Wanted, Busy, Reason
  <2>4. undefined' \in BOOLEAN /\ (undefined => undefined')
    BY <1>3, <2>1, UseKeeps DEF ReleaseFrees
  <2>5. VarTypes' /\ EventsMatchState'
    BY <1>3, <2>4 DEF ReleaseFrees, connVars, VarTypes, EventsMatchState
  <2>6. ASSUME ~undefined' PROVE NewClient' /\ UsedClient'
    <3>1. UsedClient
      BY <2>4, <2>6 DEF VarTypes
    <3>2. InUse' => InUse
      BY <1>3, <2>2 DEF ReleaseFrees, connVars, InUse, Passing
    <3>3. InUse => Top.client # pclient
      BY <2>1, <3>1 DEF UsedClient
    <3>4. NewClient'
      BY <2>2 DEF NewClient, Passing
    <3>5. UsedClient'
      BY <1>3, <2>2, <3>1, <3>2, <3>3 DEF ReleaseFrees, UsedClient, VarTypes
    <3> QED
      BY <3>4, <3>5
  <2> QED
    BY <2>2, <2>3, <2>5, <2>6
<1> QED
  BY <1>1, <1>2, <1>3 DEF Releasing

LEMMA Step == IInv /\ [Next]_vars => IInv'
<1> SUFFICES ASSUME IInv, [Next]_vars PROVE IInv'
  OBVIOUS
<1>1. CASE UNCHANGED vars
  <2>1. Shaped(stack') /\ Moved(stack')
    BY <1>1, SameStack DEF vars, IInv
  <2>2. Quiet
    BY <1>1, <2>1 DEF vars, connVars, heapVars, Quiet, IInv, VarTypes, EventsMatchState, Reason
  <2> QED
    BY <2>2, QuietKeeps
<1> QED
  BY <1>1, AppSteps, LoopSteps, OtherSteps, ConnectingSteps, ReleasingSteps DEF Next

LEMMA Invariant == Spec => []IInv
BY InitialState, Step, PTL DEF Spec
-----------------------------------------------------------------------------
(* While iotx_conn_info_t says CONNECTED, pclient is an allocated client,  *)
(* unless a freed one has already been used (IOT_Comm_SendData).           *)
THEOREM ConnectedIsLive == Spec => []ConnectedHasLiveClient
<1>1. IInv => ConnectedHasLiveClient
  BY DEF IInv, UsedClient, InUse, ConnectedHasLiveClient
<1> QED
  BY <1>1, Invariant, PTL

(* The events iotx_set_conn_state reports say what the state is, whichever *)
(* nested call wrote it.                                                   *)
THEOREM EventsInStep == Spec => []EventsMatchState
<1>1. IInv => EventsMatchState
  BY DEF IInv
<1> QED
  BY <1>1, Invariant, PTL

(* iotx_conn_handle_reconnect begins an attempt only if the application    *)
(* asked for the connection and has not given it up since, or if a look at *)
(* the network found it down after that (IOT_Network_IsConnected), however *)
(* deep its loop is nested.                                                *)
THEOREM OnlyWantedReconnects == Spec => NoUnaskedReconnect
<1>1. IInv /\ [Next]_vars => [LoopReconnects => asked \in {"yes", "network"}]_vars
  <2> SUFFICES ASSUME IInv, LoopReconnects PROVE asked \in {"yes", "network"}
    OBVIOUS
  <2> QED
    BY DEF IInv, Wanted, Reason, LoopReconnects
<1> QED
  BY <1>1, Invariant, PTL DEF Spec, NoUnaskedReconnect
=============================================================================
