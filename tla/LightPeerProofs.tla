-------------------------- MODULE LightPeerProofs --------------------------
(***************************************************************************)
(* Proofs about LightPeer.  All five results come from one inductive       *)
(* invariant: where ConnectAndHandshake stands determines the state, the   *)
(* socket and what has been heard, and a connection's own row of missed    *)
(* pongs is never longer than the counter that outlives connections.  At   *)
(* the end, the one property of LightConnMan, whose slots hold such peers. *)
(***************************************************************************)
EXTENDS LightPeer, LightConnMan, TLAPS

\* Where ConnectAndHandshake stands.
Handshaking ==
  /\ pc # "idle" => state = "HANDSHAKE" /\ pending = NoNonce
  /\ pc \in {"version", "verack"} => up
  /\ pc = "verack" => "version" \in heard

\* The counter was not cleared when the connection was made, so that it is
\* ahead of the connection's own timeouts.
CounterLeads == silent <= misses

IInv ==
  /\ PeerTypeOK /\ Handshaking /\ CounterLeads
  /\ ReadyAfterHandshake /\ AwaitsOwnPong /\ TwoMissesClose

\* A state is what SetState is given, or remains.
LEMMA SetStateFacts ==
  /\ \A s, t : SetState(s, t) \in {s, t}
  /\ \A s : SetState(s, "DISCONNECTED") = "DISCONNECTED"
  /\ SetState("DISCONNECTED", "HANDSHAKE") = "HANDSHAKE"
  /\ SetState("HANDSHAKE", "FILTER_SENT") = "FILTER_SENT"
BY DEF SetState, IsValidTransition, Edges

LEMMA SaturateFacts ==
  /\ \A n \in 0..2 : Saturate2(n) \in 0..2
  /\ \A m, n \in 0..2 : m <= n => Saturate2(m) <= Saturate2(n)
BY DEF Saturate2

\* The inbox stays a sequence of messages when its head is read.
LEMMA TailType ==
  ASSUME NEW q \in Seq(Message), q # <<>>
  PROVE  Tail(q) \in Seq(Message) /\ Head(q) \in Message
OBVIOUS

LEMMA MessageTypes ==
  /\ \A c \in {"version", "verack", "ping", "other"}, b \in BOOLEAN : Msg(c, b) \in Message
  /\ \A n \in Nonce : [cmd |-> "pong", nonce |-> n] \in Message
BY DEF Msg, Message

LEMMA NoMessages == <<>> \in Seq(Message)
OBVIOUS

\* What closing the socket leaves of the link has the right types.
LEMMA CloseType ==
  ASSUME Close
  PROVE  /\ up' \in BOOLEAN /\ alive' \in BOOLEAN /\ inbox' \in Seq(Message)
         /\ said' \subseteq {"version", "verack"} /\ pinged' \subseteq Nonce
BY NoMessages DEF Close

LEMMA InitIInv == PeerInit => IInv
<1> SUFFICES ASSUME PeerInit PROVE IInv
  OBVIOUS
<1>1. PeerTypeOK
  <2>1. age \in -1..PongTimeout /\ misses \in 0..2 /\ silent \in 0..2
    BY PeerAssumption DEF PeerInit
  <2>2. inbox \in Seq(Message)
    BY NoMessages DEF PeerInit
  <2>3. up \in BOOLEAN /\ alive \in BOOLEAN
    BY DEF PeerInit
  <2>4. QED
    BY <2>1, <2>2, <2>3 DEF PeerInit, PeerTypeOK, PeerState
<1>2. QED
  BY <1>1 DEF PeerInit, IInv, Handshaking, CounterLeads, ReadyAfterHandshake, AwaitsOwnPong,
     TwoMissesClose, Ready

----------------------------------------------------------------------------
(* The steps.                                                              *)

\* A failed handshake, wherever in it: no socket, DISCONNECTED.
LEMMA FailsIInv == ASSUME IInv, HandshakeFails PROVE IInv'
<1> USE DEF IInv, HandshakeFails
<1>1. state' = "DISCONNECTED"
  BY SetStateFacts
<1>2. PeerTypeOK'
  BY <1>1, CloseType DEF PeerTypeOK, PeerState
<1>3. QED
  BY <1>1, <1>2 DEF Close, PeerTypeOK, Handshaking, CounterLeads, ReadyAfterHandshake, AwaitsOwnPong,
     TwoMissesClose, Ready

LEMMA ConnectIInv == ASSUME IInv, CallConnect \/ Connected PROVE IInv'
<1> USE DEF IInv
<1>1. CASE CallConnect
  <2>1. state' = "HANDSHAKE"
    BY <1>1, SetStateFacts DEF CallConnect
  <2>2. PeerTypeOK'
    BY <1>1, <2>1, CloseType DEF CallConnect, PeerTypeOK, PeerState, historyVars
  <2>3. QED
    BY <1>1, <2>1, <2>2 DEF CallConnect, Close, PeerTypeOK, Handshaking, CounterLeads,
       ReadyAfterHandshake, AwaitsOwnPong, TwoMissesClose, Ready, historyVars
<1>2. CASE Connected
  <2>1. PeerTypeOK'
    BY <1>2 DEF Connected, PeerTypeOK
  <2>2. QED
    BY <1>2, <2>1 DEF Connected, PeerTypeOK, Handshaking, CounterLeads,
       ReadyAfterHandshake, AwaitsOwnPong, TwoMissesClose, Ready
<1>3. QED
  BY <1>1, <1>2

LEMMA ReadVersionIInv == ASSUME IInv, ReadVersion PROVE IInv'
<1> USE DEF IInv
<1>1. CASE HandshakeFails
  BY <1>1, FailsIInv
<1>2. CASE ~HandshakeFails
  <2>1. /\ pc = "version" /\ inbox # <<>>
        /\ inbox' = Tail(inbox)
        /\ UNCHANGED <<state, up, pending, age, misses, alive, said, pinged, mine, silent>>
        /\ \/ pc' = "version" /\ heard' = heard \cup ({Head(inbox).cmd} \cap {"verack"})
           \/ pc' = "verack" /\ heard' = heard \cup {"version"}
    BY <1>2 DEF ReadVersion, ReadFails, peerVars
  <2>2. PeerTypeOK'
    BY <2>1, TailType DEF PeerTypeOK
  <2>3. state = "HANDSHAKE"
    BY <2>1 DEF Handshaking
  <2>4. QED
    BY <2>1, <2>2, <2>3 DEF Handshaking, CounterLeads, ReadyAfterHandshake, AwaitsOwnPong,
       TwoMissesClose, Ready
<1>3. QED
  BY <1>1, <1>2

LEMMA ReadVerackIInv == ASSUME IInv, ReadVerack PROVE IInv'
<1> USE DEF IInv
<1>1. CASE HandshakeFails
  BY <1>1, FailsIInv
<1>2. CASE ~HandshakeFails
  <2>1. /\ pc = "verack" /\ inbox # <<>>
        /\ inbox' = Tail(inbox)
        /\ UNCHANGED <<up, pending, age, misses, alive, said, pinged, mine, silent>>
        /\ heard' = heard \cup ({Head(inbox).cmd} \cap {"verack"})
        /\ IF Head(inbox).cmd = "verack"
             THEN pc' = "idle" /\ state' = SetState(state, "FILTER_SENT")
             ELSE UNCHANGED <<pc, state>>
    BY <1>2 DEF ReadVerack, ReadFails
  <2>2. state = "HANDSHAKE" /\ "version" \in heard
    BY <2>1 DEF Handshaking
  <2>3. CASE Head(inbox).cmd = "verack"
    <3>1. pc' = "idle" /\ state' = "FILTER_SENT" /\ heard' = {"version", "verack"}
      BY <2>1, <2>2, <2>3, SetStateFacts DEF PeerTypeOK
    <3>2. PeerTypeOK'
      BY <2>1, <3>1, TailType DEF PeerTypeOK, PeerState
    <3>3. QED
      BY <2>1, <3>1, <3>2 DEF Handshaking, CounterLeads, ReadyAfterHandshake, AwaitsOwnPong,
         TwoMissesClose
  <2>4. CASE Head(inbox).cmd # "verack"
    <3>1. pc' = pc /\ state' = state /\ heard' = heard
      BY <2>1, <2>4
    <3>2. PeerTypeOK'
      BY <2>1, <3>1, TailType DEF PeerTypeOK
    <3>3. QED
      BY <2>1, <3>1, <3>2 DEF Handshaking, CounterLeads, ReadyAfterHandshake, AwaitsOwnPong,
         TwoMissesClose
  <2>5. QED
    BY <2>3, <2>4
<1>3. QED
  BY <1>1, <1>2

\* Disconnect, and a timeout that disconnects.
LEMMA DisconnectIInv == ASSUME IInv, Disconnect PROVE IInv'
<1>1. PeerTypeOK'
  BY CloseType DEF IInv, PeerTypeOK, PeerState, Disconnect, DisconnectEffect, historyVars
<1>2. QED
  BY <1>1 DEF IInv, PeerTypeOK, Disconnect, DisconnectEffect, Close, historyVars, Handshaking,
     CounterLeads, ReadyAfterHandshake, AwaitsOwnPong, TwoMissesClose, Ready

LEMMA TimeoutIInv == ASSUME IInv, CheckPingTimeout PROVE IInv'
<1> USE DEF IInv
<1>1. /\ misses \in 0..2 /\ silent \in 0..2 /\ silent <= misses
      /\ misses' = Saturate2(misses) /\ silent' = Saturate2(silent)
  BY DEF PeerTypeOK, CounterLeads, CheckPingTimeout
<1>2. misses' \in 0..2 /\ silent' \in 0..2 /\ silent' <= misses'
  BY <1>1, SaturateFacts
<1>3. CASE misses' >= 2
  <2>1. DisconnectEffect
    BY <1>3 DEF CheckPingTimeout
  <2>2. PeerTypeOK'
    BY <1>2, <2>1, CloseType, PeerAssumption
       DEF PeerTypeOK, PeerState, CheckPingTimeout, DisconnectEffect
  <2>3. QED
    BY <1>2, <2>1, <2>2 DEF CheckPingTimeout, DisconnectEffect, Close, Handshaking,
       CounterLeads, ReadyAfterHandshake, AwaitsOwnPong, TwoMissesClose, Ready
<1>4. CASE ~(misses' >= 2)
  <2>1. pending' = NoNonce /\ UNCHANGED <<state, up, remoteVars>>
    BY <1>4 DEF CheckPingTimeout
  <2>2. PeerTypeOK'
    BY <1>2, <2>1, PeerAssumption DEF PeerTypeOK, CheckPingTimeout, remoteVars
  <2>3. silent' # 2
    BY <1>2, <1>4
  <2>4. QED
    BY <1>2, <2>1, <2>2, <2>3 DEF CheckPingTimeout, Handshaking,
       CounterLeads, ReadyAfterHandshake, AwaitsOwnPong, TwoMissesClose, Ready
<1>5. QED
  BY <1>3, <1>4

LEMMA SendPingIInv ==
  ASSUME IInv, NEW n \in Nonce, SendPing(n)
  PROVE  IInv'
<1> USE DEF IInv
<1>1. CASE SendOk /\ pending' = n
  <2>1. /\ age' = 0 /\ mine' = mine \cup {n} /\ pinged' \subseteq pinged \cup {n}
        /\ UNCHANGED <<state, pc, misses, heard, silent, up, alive, inbox, said>>
    BY <1>1, PeerAssumption DEF SendPing, SendOk, SendFails, Close, historyVars
  <2>2. PeerTypeOK'
    BY <1>1, <2>1, PeerAssumption DEF PeerTypeOK
  <2>3. QED
    BY <1>1, <2>1, <2>2 DEF Handshaking, CounterLeads, ReadyAfterHandshake, AwaitsOwnPong,
       TwoMissesClose, SendPing
<1>2. CASE ~(SendOk /\ pending' = n)
  <2>1. Close /\ UNCHANGED <<state, pc, pending, age, misses, historyVars>> /\ pc = "idle"
    BY <1>2 DEF SendPing, SendFails
  <2>2. PeerTypeOK'
    BY <2>1, CloseType DEF PeerTypeOK, historyVars
  <2>3. QED
    BY <2>1, <2>2 DEF Close, historyVars, Handshaking, CounterLeads, ReadyAfterHandshake,
       AwaitsOwnPong, TwoMissesClose
<1>3. QED
  BY <1>1, <1>2

LEMMA ReadAndHandleIInv == ASSUME IInv, ReadAndHandle PROVE IInv'
<1> USE DEF IInv
<1>1. CASE UNCHANGED <<pending, age, misses, silent>>
  <2>1. /\ UNCHANGED <<state, pc, heard, mine, pending, age, misses, silent>>
        /\ pc = "idle" /\ up
        /\ \/ Close
           \/ inbox # <<>> /\ inbox' = Tail(inbox) /\ UNCHANGED <<up, alive, said, pinged>>
    BY <1>1 DEF ReadAndHandle, SendFails
  <2>2. PeerTypeOK'
    BY <2>1, TailType, CloseType DEF PeerTypeOK
  <2>3. QED
    BY <2>1, <2>2 DEF Close, Handshaking, CounterLeads, ReadyAfterHandshake,
       AwaitsOwnPong, TwoMissesClose
<1>2. CASE ~UNCHANGED <<pending, age, misses, silent>>
  <2>1. /\ UNCHANGED <<state, pc, heard, mine, up, alive, said, pinged>>
        /\ pc = "idle" /\ inbox # <<>> /\ inbox' = Tail(inbox)
        /\ pending' = NoNonce /\ age' = -1 /\ misses' = 0 /\ silent' = 0
    BY <1>2 DEF ReadAndHandle, HandlePong
  <2>2. PeerTypeOK'
    BY <2>1, TailType, PeerAssumption DEF PeerTypeOK
  <2>3. QED
    BY <2>1, <2>2 DEF Handshaking, CounterLeads, ReadyAfterHandshake,
       AwaitsOwnPong, TwoMissesClose
<1>3. QED
  BY <1>1, <1>2

\* What changes neither the connection's place nor its counters: the link, the
\* inbox, the socket's end.
LEMMA QuietIInv ==
  ASSUME IInv, PeerTypeOK',
         UNCHANGED <<pc, pending, misses, heard, mine, silent>>,
         state' = state \/ (pc = "idle" /\ state \in Ready /\ state' \in Ready),
         up' = up \/ (pc = "idle" /\ ~up'),
         age' = age \/ age' # -1
  PROVE  IInv'
BY DEF IInv, Handshaking, CounterLeads, ReadyAfterHandshake, AwaitsOwnPong, TwoMissesClose

LEMMA OwnIInv ==
  ASSUME IInv, SendMessageFails \/ (\E to \in Ready : Advance(to)) \/ Tick
  PROVE  IInv'
<1> USE DEF IInv
<1>1. CASE SendMessageFails
  <2>1. PeerTypeOK'
    BY <1>1, CloseType DEF SendMessageFails, SendFails, PeerTypeOK, historyVars
  <2>2. QED
    BY <1>1, <2>1, QuietIInv DEF SendMessageFails, SendFails, Close, historyVars
<1>2. CASE \E to \in Ready : Advance(to)
  <2>1. PICK to \in Ready : Advance(to)
    BY <1>2
  <2>2. state' \in Ready /\ state \in Ready /\ pc = "idle"
    BY <2>1, SetStateFacts DEF Advance
  <2>3. /\ UNCHANGED <<pc, pending, misses, heard, mine, silent, up, age>>
        /\ UNCHANGED <<alive, inbox, said, pinged>>
    BY <2>1 DEF Advance, remoteVars, historyVars
  <2>4. PeerTypeOK'
    BY <2>2, <2>3 DEF PeerTypeOK, Ready, PeerState
  <2>5. QED
    BY <2>2, <2>3, <2>4, QuietIInv
<1>3. CASE Tick
  <2>1. PeerTypeOK'
    BY <1>3, PeerAssumption DEF Tick, PeerTypeOK, remoteVars, historyVars
  <2>2. age' # -1
    BY <1>3 DEF Tick
  <2>3. QED
    BY <1>3, <2>1, <2>2, QuietIInv DEF Tick, historyVars
<1>4. QED
  BY <1>1, <1>2, <1>3

LEMMA RemoteIInv == ASSUME IInv, Remote PROVE IInv'
<1>1. UNCHANGED <<peerVars, historyVars>>
  BY DEF Remote, RemoteSays, RemotePong, RemoteDies
<1>2. alive' \in BOOLEAN /\ inbox' \in Seq(Message)
  <2>1. CASE \E c \in {"version", "verack", "ping", "other"}, b \in BOOLEAN : RemoteSays(c, b)
    BY <2>1, MessageTypes DEF RemoteSays, IInv, PeerTypeOK
  <2>2. CASE \E n \in Nonce : RemotePong(n)
    BY <2>2, MessageTypes DEF RemotePong, IInv, PeerTypeOK
  <2>3. CASE RemoteDies
    BY <2>3 DEF RemoteDies, IInv, PeerTypeOK
  <2>4. QED
    BY <2>1, <2>2, <2>3 DEF Remote
<1>3. said' \subseteq {"version", "verack"} /\ pinged' \subseteq Nonce
  BY DEF Remote, RemoteSays, RemotePong, RemoteDies, IInv, PeerTypeOK
<1>4. PeerTypeOK'
  BY <1>1, <1>2, <1>3 DEF IInv, PeerTypeOK, peerVars, historyVars
<1>5. QED
  BY <1>1, <1>4, QuietIInv DEF peerVars, historyVars

LEMMA NextIInv == ASSUME IInv, [PeerNext]_allPeerVars PROVE IInv'
<1>1. CASE UNCHANGED allPeerVars
  BY <1>1 DEF allPeerVars, peerVars, remoteVars, historyVars, IInv, PeerTypeOK, Handshaking,
     CounterLeads, ReadyAfterHandshake, AwaitsOwnPong, TwoMissesClose
<1>2. CASE CallConnect \/ Connected
  BY <1>2, ConnectIInv
<1>3. CASE ConnectFails
  BY <1>3, FailsIInv DEF ConnectFails
<1>4. CASE ReadVersion
  BY <1>4, ReadVersionIInv
<1>5. CASE ReadVerack
  BY <1>5, ReadVerackIInv
<1>6. CASE Disconnect
  BY <1>6, DisconnectIInv
<1>7. CASE CheckPingTimeout
  BY <1>7, TimeoutIInv
<1>8. CASE ReadAndHandle
  BY <1>8, ReadAndHandleIInv
<1>9. CASE \E n \in Nonce : SendPing(n)
  BY <1>9, SendPingIInv
<1>10. CASE SendMessageFails \/ (\E to \in Ready : Advance(to)) \/ Tick
  BY <1>10, OwnIInv
<1>11. CASE Remote
  BY <1>11, RemoteIInv
<1>12. QED
  BY <1>1, <1>2, <1>3, <1>4, <1>5, <1>6, <1>7, <1>8, <1>9, <1>10, <1>11 DEF PeerNext

----------------------------------------------------------------------------
(* The theorems.                                                           *)

LEMMA InvariantIInv == PeerSpec => []IInv
BY InitIInv, NextIInv, PTL DEF PeerSpec

\* CLightPeer's fields and the messages on their way keep their types.
THEOREM TypeCorrect == PeerSpec => []PeerTypeOK
<1>1. IInv => PeerTypeOK
  BY DEF IInv
<1>2. QED
  BY <1>1, InvariantIInv, PTL

\* A peer past HANDSHAKE has heard version and verack on this very connection,
\* for any number of nonces, messages and clock steps.
THEOREM HandshakeFirst == PeerSpec => []ReadyAfterHandshake
<1>1. IInv => ReadyAfterHandshake
  BY DEF IInv
<1>2. QED
  BY <1>1, InvariantIInv, PTL

\* HandleMessage never takes an old connection's pong for the awaited one.
THEOREM PongIsOwn == PeerSpec => []AwaitsOwnPong
<1>1. IInv => AwaitsOwnPong
  BY DEF IInv
<1>2. QED
  BY <1>1, InvariantIInv, PTL

\* Two missed pongs in a row close the connection, whatever the counter of
\* CheckPingTimeout held when it was made.
THEOREM TwoMissesDisconnect == PeerSpec => []TwoMissesClose
<1>1. IInv => TwoMissesClose
  BY DEF IInv
<1>2. QED
  BY <1>1, InvariantIInv, PTL

\* ConnectAndHandshake returns with a socket exactly when the handshake is done.
THEOREM HandshakeResult == PeerSpec => HandshakeSettles
<1> DEFINE Settles ==
      pc # "idle" /\ pc' = "idle" =>
        \/ state' = "FILTER_SENT" /\ up'
        \/ state' = "DISCONNECTED" /\ ~up'
<1>1. ASSUME IInv, [PeerNext]_allPeerVars PROVE [Settles]_allPeerVars
  <2> SUFFICES ASSUME pc # "idle", pc' = "idle"
               PROVE  \/ state' = "FILTER_SENT" /\ up'
                      \/ state' = "DISCONNECTED" /\ ~up'
    OBVIOUS
  <2>1. ConnectFails \/ ReadVersion \/ ReadVerack
    BY <1>1 DEF PeerNext, allPeerVars, peerVars, CallConnect, Connected, Disconnect, CheckPingTimeout,
       ReadAndHandle, SendMessageFails, SendPing, Advance, Tick, Remote, RemoteSays,
       RemotePong, RemoteDies
  <2>2. HandshakeFails \/ (ReadVerack /\ Head(inbox).cmd = "verack" /\ ~HandshakeFails)
    BY <2>1 DEF ConnectFails, ReadVersion, ReadVerack, ReadFails, peerVars
  <2>3. CASE HandshakeFails
    BY <2>3, SetStateFacts DEF HandshakeFails, Close
  <2>4. CASE ReadVerack /\ Head(inbox).cmd = "verack" /\ ~HandshakeFails
    <3>1. pc = "verack" /\ up' = up /\ state' = SetState(state, "FILTER_SENT")
      BY <2>4 DEF ReadVerack, ReadFails
    <3>2. state = "HANDSHAKE" /\ up
      BY <1>1, <3>1 DEF IInv, Handshaking
    <3>3. QED
      BY <3>1, <3>2, SetStateFacts
  <2>5. QED
    BY <2>2, <2>3, <2>4
<1>2. QED
  BY <1>1, InvariantIInv, PTL DEF PeerSpec, HandshakeSettles

----------------------------------------------------------------------------
(* The connection manager, whose slots hold such peers.                    *)

SlotType == [host : Host, peer : {"none", "up", "down"}, connected : BOOLEAN]

\* An open connection has its flag.
ConnsInv ==
  /\ slots \in Seq(SlotType)
  /\ \A i \in DOMAIN slots : slots[i].peer = "up" => slots[i].connected

\* What a call may make of a slot.
May(s, t) == t \in SlotType /\ t.host = s.host /\ (t.peer = "up" => t.connected)

\* What a call that closes nothing makes of it.
Keeps(s, t) == May(s, t) /\ (s.peer = "up" => t.peer = "up")

\* The calls that leave every slot at its place.
InPlace ==
  /\ slots' \in Seq(SlotType) /\ DOMAIN slots' = DOMAIN slots
  /\ \A i \in DOMAIN slots : May(slots[i], slots'[i])

Closes == \E i \in DOMAIN slots : DisconnectPeer(i) \/ Lose(i)

LEMMA MayFacts ==
  ASSUME NEW s \in SlotType, s.peer = "up" => s.connected
  PROVE  /\ Keeps(s, s)
         /\ \A w \in BOOLEAN : Keeps(s, Try(s, w))
         /\ May(s, [s EXCEPT !.peer = "down"])
         /\ May(s, [s EXCEPT !.peer = IF @ = "none" THEN @ ELSE "down", !.connected = FALSE])
<1>1. Keeps(s, s)
  BY DEF May, Keeps, SlotType
<1>2. ASSUME NEW w \in BOOLEAN
      PROVE  Keeps(s, Try(s, w))
  <2>1. CASE s.connected
    BY <1>1, <2>1 DEF Try
  <2>2. CASE ~s.connected
    <3> DEFINE p == IF w THEN "up" ELSE "down"
    <3>1. Try(s, w) = [host |-> s.host, peer |-> p, connected |-> w]
      BY <2>2 DEF Try, SlotType
    <3>2. p \in {"none", "up", "down"} /\ (p = "up" => w = TRUE)
      OBVIOUS
    <3> HIDE DEF p
    <3>3. QED
      BY <2>2, <3>1, <3>2 DEF May, Keeps, SlotType
  <2>3. QED
    BY <2>1, <2>2
<1>3. May(s, [s EXCEPT !.peer = "down"])
  BY DEF May, SlotType
<1>4. May(s, [s EXCEPT !.peer = IF @ = "none" THEN @ ELSE "down", !.connected = FALSE])
  <2> DEFINE p == IF s.peer = "none" THEN "none" ELSE "down"
  <2>1. [s EXCEPT !.peer = IF @ = "none" THEN @ ELSE "down", !.connected = FALSE] =
        [s EXCEPT !.peer = p, !.connected = FALSE]
    OBVIOUS
  <2>2. p \in {"none", "down"}
    OBVIOUS
  <2> HIDE DEF p
  <2>3. [s EXCEPT !.peer = p, !.connected = FALSE] =
        [host |-> s.host, peer |-> p, connected |-> FALSE]
    <3> DEFINE d == [host |-> s.host, peer |-> p, connected |-> s.connected]
    <3>1. [s EXCEPT !.peer = p] = d
      BY DEF SlotType
    <3>2. [s EXCEPT !.peer = p, !.connected = FALSE] = [[s EXCEPT !.peer = p] EXCEPT !.connected = FALSE]
      OBVIOUS
    <3>3. \A h, b, c, e : [[host |-> h, peer |-> b, connected |-> c] EXCEPT !.connected = e] =
                          [host |-> h, peer |-> b, connected |-> e]
      OBVIOUS
    <3>4. [d EXCEPT !.connected = FALSE] = [host |-> s.host, peer |-> p, connected |-> FALSE]
      BY <3>3
    <3> HIDE DEF d
    <3>5. QED
      BY <3>1, <3>2, <3>4
  <2>4. QED
    BY <2>1, <2>2, <2>3 DEF May, SlotType
<1>5. QED
  BY <1>1, <1>2, <1>3, <1>4

LEMMA OneSlotInPlace ==
  ASSUME ConnsInv, NEW i \in DOMAIN slots, NEW t, May(slots[i], t),
         slots' = [slots EXCEPT ![i] = t]
  PROVE  InPlace
<1>1. slots' \in Seq(SlotType) /\ DOMAIN slots' = DOMAIN slots
  BY DEF ConnsInv, May
<1>2. ASSUME NEW j \in DOMAIN slots
      PROVE  May(slots[j], slots'[j])
  <2>1. CASE j = i
    BY <2>1 DEF ConnsInv
  <2>2. CASE j # i
    <3>1. slots'[j] = slots[j] /\ slots[j] \in SlotType
      BY <2>2 DEF ConnsInv
    <3>2. QED
      BY <3>1, MayFacts DEF ConnsInv, Keeps
  <2>3. QED
    BY <2>1, <2>2
<1>3. QED
  BY <1>1, <1>2 DEF InPlace

\* A step in place keeps the invariant.
LEMMA InPlaceKeeps ==
  ASSUME ConnsInv, InPlace
  PROVE  ConnsInv'
BY DEF ConnsInv, InPlace, May

\* A step in place that closes nothing keeps the nodes with open connections.
LEMMA KeptOpen ==
  ASSUME ConnsInv, InPlace, \A i \in DOMAIN slots : Keeps(slots[i], slots'[i])
  PROVE  ConnsInv' /\ KeepStep
<1>1. ConnsInv'
  BY InPlaceKeeps
<1>2. (\A i \in Slot : IsOpen(i) => slots[i].connected)'
  BY <1>1 DEF ConnsInv, Slot, IsOpen
<1>3. Open \subseteq Open'
  BY DEF InPlace, Keeps, May, Open, IsOpen, Slot
<1>4. QED
  BY <1>1, <1>2, <1>3 DEF KeepStep

\* A step in place that closes something.
LEMMA Closed ==
  ASSUME ConnsInv, InPlace, Closes
  PROVE  ConnsInv' /\ KeepStep
<1>1. ConnsInv'
  BY InPlaceKeeps
<1>2. (\A i \in Slot : IsOpen(i) => slots[i].connected)'
  BY <1>1 DEF ConnsInv, Slot, IsOpen
<1>3. QED
  BY <1>1, <1>2 DEF KeepStep, Closes, Slot

LEMMA ConnsStep ==
  ASSUME ConnsInv, [ConnsNext]_connsVars
  PROVE  ConnsInv' /\ [KeepStep]_connsVars
<1>0. \A i \in DOMAIN slots :
        slots[i] \in SlotType /\ (slots[i].peer = "up" => slots[i].connected)
  BY DEF ConnsInv
<1>1. ASSUME NEW h \in Host, AddPeer(h)
      PROVE  ConnsInv' /\ KeepStep
  <2> DEFINE t == [host |-> h, peer |-> "none", connected |-> FALSE]
  <2>1. slots' = Append(slots, t)
    BY <1>1 DEF AddPeer
  <2>2. t \in SlotType /\ t.peer = "none"
    BY DEF SlotType
  <2> HIDE DEF t
  <2>3. /\ slots' \in Seq(SlotType)
        /\ DOMAIN slots' = 1..(Len(slots) + 1) /\ DOMAIN slots = 1..Len(slots)
        /\ Len(slots) \in Nat
        /\ \A i \in DOMAIN slots : i \in DOMAIN slots' /\ slots'[i] = slots[i]
        /\ slots'[Len(slots) + 1] = t
    BY <2>1, <2>2 DEF ConnsInv
  <2>4. \A i \in DOMAIN slots' : i \in DOMAIN slots \/ i = Len(slots) + 1
    BY <2>3
  <2>5. \A i \in DOMAIN slots' : slots'[i].peer = "up" => slots'[i].connected
    BY <2>2, <2>3, <2>4 DEF ConnsInv
  <2>6. Open \subseteq Open'
    BY <2>3 DEF Open, IsOpen, Slot
  <2>7. QED
    BY <2>3, <2>5, <2>6 DEF ConnsInv, KeepStep, Slot, IsOpen
<1>2. ASSUME NEW i \in DOMAIN slots, NEW works \in BOOLEAN, ConnectPeer(i, works)
      PROVE  ConnsInv' /\ KeepStep
  <2>1. Keeps(slots[i], Try(slots[i], works))
    BY <1>0, MayFacts
  <2>2. slots' = [slots EXCEPT ![i] = Try(slots[i], works)]
    BY <1>2 DEF ConnectPeer
  <2>3. InPlace
    BY <2>1, <2>2, OneSlotInPlace DEF Keeps
  <2>4. \A j \in DOMAIN slots : Keeps(slots[j], slots'[j])
    BY <1>0, <2>1, <2>2, MayFacts DEF ConnsInv
  <2>5. QED
    BY <2>3, <2>4, KeptOpen
<1>3. ASSUME NEW max \in MaxConns, NEW W \in SUBSET Host, ConnectUpTo(max, W)
      PROVE  ConnsInv' /\ KeepStep
  <2>1. PICK tried \in [DOMAIN slots -> BOOLEAN] :
          slots' = [i \in DOMAIN slots |->
                      IF tried[i] THEN Try(slots[i], slots[i].host \in W) ELSE slots[i]]
    <3> DEFINE count == Counted(max, W)
    <3>1. slots' = [i \in DOMAIN slots |->
                      IF count[i - 1] < max THEN Try(slots[i], slots[i].host \in W) ELSE slots[i]]
      BY <1>3 DEF ConnectUpTo, Slot
    <3> HIDE DEF count
    <3>2. [i \in DOMAIN slots |-> count[i - 1] < max] \in [DOMAIN slots -> BOOLEAN]
      OBVIOUS
    <3>3. QED
      BY <3>1, <3>2
  <2>2. ASSUME NEW i \in DOMAIN slots
        PROVE  Keeps(slots[i], slots'[i])
    <3>1. Keeps(slots[i], Try(slots[i], slots[i].host \in W))
      <4>1. (slots[i].host \in W) \in BOOLEAN
        OBVIOUS
      <4>2. slots[i] \in SlotType /\ (slots[i].peer = "up" => slots[i].connected)
        BY <1>0
      <4> DEFINE w == slots[i].host \in W
      <4> HIDE DEF w
      <4>3. QED
        BY <4>1, <4>2, MayFacts DEF w
    <3>2. Keeps(slots[i], slots[i])
      BY <1>0, MayFacts
    <3>3. QED
      BY <2>1, <3>1, <3>2
  <2>3. DOMAIN slots' = DOMAIN slots /\ slots' \in Seq(SlotType)
    <3>1. DOMAIN slots = 1..Len(slots) /\ Len(slots) \in Nat
      BY DEF ConnsInv
    <3>2. \A i \in 1..Len(slots) : slots'[i] \in SlotType
      BY <2>2, <3>1 DEF Keeps, May
    <3>3. QED
      BY <2>1, <3>1, <3>2
  <2>4. InPlace
    BY <2>2, <2>3 DEF InPlace, Keeps
  <2>5. QED
    BY <2>2, <2>4, KeptOpen
<1>4. ASSUME NEW i \in DOMAIN slots, DisconnectPeer(i)
      PROVE  ConnsInv' /\ KeepStep
  <2> DEFINE t == [slots[i] EXCEPT !.peer = IF @ = "none" THEN @ ELSE "down", !.connected = FALSE]
  <2>1. May(slots[i], t)
    BY <1>0, MayFacts
  <2>2. slots' = [slots EXCEPT ![i] = t]
    BY <1>4 DEF DisconnectPeer
  <2> HIDE DEF t
  <2>3. QED
    BY <1>4, <2>1, <2>2, OneSlotInPlace, Closed DEF Closes
<1>5. ASSUME NEW i \in DOMAIN slots, Lose(i)
      PROVE  ConnsInv' /\ KeepStep
  <2> DEFINE t == [slots[i] EXCEPT !.peer = "down"]
  <2>1. May(slots[i], t)
    BY <1>0, MayFacts
  <2>2. slots' = [slots EXCEPT ![i] = t]
    BY <1>5 DEF Lose
  <2> HIDE DEF t
  <2>3. QED
    BY <1>5, <2>1, <2>2, OneSlotInPlace, Closed DEF Closes
<1>6. ASSUME NEW i \in DOMAIN slots, PromoteToPrimary(i)
      PROVE  ConnsInv' /\ KeepStep
  <2>1. 1 \in DOMAIN slots /\ i # 1
    BY <1>6 DEF PromoteToPrimary, ConnsInv
  <2> DEFINE Old(j) == IF j = 1 THEN i ELSE IF j = i THEN 1 ELSE j
  <2>2. slots' \in Seq(SlotType) /\ DOMAIN slots' = DOMAIN slots
    BY <1>6, <2>1 DEF PromoteToPrimary, ConnsInv
  <2>3. \A j \in DOMAIN slots : slots'[j] = slots[Old(j)] /\ Old(j) \in DOMAIN slots
    BY <1>6, <2>1 DEF PromoteToPrimary
  <2>4. \A j \in DOMAIN slots : Old(Old(j)) = j
    BY <2>1
  <2> HIDE DEF Old
  <2>5. ConnsInv'
    BY <2>2, <2>3 DEF ConnsInv
  <2>6. Open \subseteq Open'
    BY <2>2, <2>3, <2>4 DEF Open, IsOpen, Slot
  <2>7. QED
    BY <2>5, <2>6 DEF ConnsInv, KeepStep, Slot, IsOpen
<1>7. CASE UNCHANGED connsVars
  BY <1>7 DEF ConnsInv, connsVars
<1>8. QED
  BY <1>1, <1>2, <1>3, <1>4, <1>5, <1>6, <1>7 DEF ConnsNext, Slot

\* Connections are only ever given up by a loss or DisconnectPeer, for any
\* hosts, also the same one in several slots, and any calls of the manager.
THEOREM OpenConnectionsStay == ConnsSpec => OpenIsKept
<1>1. ConnsInit => ConnsInv
  BY DEF ConnsInit, ConnsInv
<1>2. ConnsInv /\ [ConnsNext]_connsVars => ConnsInv' /\ [KeepStep]_connsVars
  BY ConnsStep
<1>3. QED
  BY <1>1, <1>2, PTL DEF ConnsSpec, OpenIsKept

=============================================================================
