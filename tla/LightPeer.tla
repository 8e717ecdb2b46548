----------------------------- MODULE LightPeer -----------------------------
(***************************************************************************)
(* CLightPeer (src/src/light/light_peer.{h,cpp}) with the socket and the   *)
(* message reader under it: connecting, the version/verack handshake and   *)
(* the ping/pong heartbeat of one connection.                              *)
(*                                                                         *)
(* The remote node is external: it may send version and verack once per    *)
(* connection in either order, answers pings late or never, and may close. *)
(* Payloads that do not parse, wrong magics and wrong checksums all end as *)
(* a failed read.                                                          *)
(***************************************************************************)
EXTENDS Integers, Sequences

CONSTANTS
  Nonce,        \* ping nonces in use, all different from 0
  NoNonce,      \* m_pending_pong_nonce = 0
  PongTimeout,  \* kPongTimeoutMs, in clock steps
  MaxInbox      \* messages on their way to us, a bound of the model

ASSUME PeerAssumption ==
  /\ NoNonce \notin Nonce
  /\ PongTimeout \in Nat \ {0}
  /\ MaxInbox \in Nat \ {0}

VARIABLES
  state,    \* m_state
  up,       \* m_sock.m_connected
  pc,       \* where ConnectAndHandshake is, "idle" outside of it
  pending,  \* m_pending_pong_nonce
  age,      \* now - m_ping_sent_usec, saturated; -1 for m_ping_sent_usec = 0
  misses,   \* m_pong_timeout_count, saturated at 2: the code asks if >= 2
  alive,    \* the TCP link and the remote node
  inbox,    \* messages of the remote node, not read yet
  said,     \* what the remote node has sent on this connection, of version
            \* and verack
  heard,    \* history: what ReadMessage returned of that
  pinged,   \* pings of this connection the remote node may still answer
  mine,     \* history: the nonces SendPing sent on this connection
  silent    \* history: timeouts in a row on this connection, saturated at 2

peerVars == <<state, up, pc, pending, age, misses>>
remoteVars == <<alive, inbox, said, pinged>>
historyVars == <<heard, mine, silent>>
allPeerVars == <<peerVars, remoteVars, historyVars>>

PeerState == {"INIT", "HANDSHAKE", "FILTER_SENT", "WAIT_FILTER_ACK",
              "SYNCING_HEADERS", "SYNCING_TXS", "STEADY", "DISCONNECTED"}

Ready == {"FILTER_SENT", "WAIT_FILTER_ACK", "SYNCING_HEADERS", "SYNCING_TXS", "STEADY"}

Message == [cmd : {"version", "verack", "ping", "other"}, bloom : BOOLEAN]
             \cup [cmd : {"pong"}, nonce : Nonce]

Msg(c, b) == [cmd |-> c, bloom |-> b]

PeerInit ==
  /\ state = "INIT" /\ up = FALSE /\ pc = "idle"
  /\ pending = NoNonce /\ age = -1 /\ misses = 0
  /\ alive = FALSE /\ inbox = <<>> /\ said = {} /\ pinged = {}
  /\ heard = {} /\ mine = {} /\ silent = 0

----------------------------------------------------------------------------
(* light_state.cpp and the helpers.                                        *)

Edges == {<<"INIT", "HANDSHAKE">>, <<"HANDSHAKE", "FILTER_SENT">>,
          <<"FILTER_SENT", "WAIT_FILTER_ACK">>, <<"WAIT_FILTER_ACK", "SYNCING_HEADERS">>,
          <<"SYNCING_HEADERS", "SYNCING_TXS">>, <<"SYNCING_TXS", "STEADY">>,
          <<"STEADY", "HANDSHAKE">>, <<"DISCONNECTED", "HANDSHAKE">>}

IsValidTransition(from, to) ==
  from = to \/ to = "DISCONNECTED" \/ <<from, to>> \in Edges

\* SetState, as a function of m_state; the callers ignore its verdict.
SetState(s, to) == IF IsValidTransition(s, to) THEN to ELSE s

\* Closing the socket: what is under way to us is lost.
Close ==
  /\ up' = FALSE
  /\ alive' = FALSE
  /\ inbox' = <<>> /\ said' = {} /\ pinged' = {}

\* SendAll: a dead link may swallow the bytes or report an error, and an error
\* closes the socket.
SendOk == up /\ UNCHANGED <<up, alive, inbox, said>>
SendFails == up /\ ~alive /\ Close

----------------------------------------------------------------------------
(* ConnectAndHandshake.                                                    *)

\* Mutant: no Disconnect() first, the old connection's ping and state survive.
CallConnectDirty ==
  /\ pc = "idle"
  /\ pc' = "connect"
  /\ Close
  /\ state' = SetState(state, "HANDSHAKE")
  /\ UNCHANGED <<pending, age, misses, historyVars>>

\* Disconnect(), then SetState(HANDSHAKE).
CallConnect ==
  /\ pc = "idle"
  /\ pc' = "connect"
  /\ Close
  /\ state' = SetState("DISCONNECTED", "HANDSHAKE")
  /\ pending' = NoNonce
  /\ UNCHANGED <<age, misses, historyVars>>

HandshakeFails ==
  /\ Close
  /\ pc' = "idle"
  /\ state' = SetState(state, "DISCONNECTED")
  /\ UNCHANGED <<pending, age, misses, heard, mine, silent>>

\* connect() fails, or the version message cannot be sent.
ConnectFails == pc = "connect" /\ HandshakeFails

\* connect() succeeds and version goes out.
Connected ==
  /\ pc = "connect"
  /\ pc' = "version"
  /\ up' = TRUE /\ alive' = TRUE
  /\ heard' = {} /\ mine' = {} /\ silent' = 0
  /\ UNCHANGED <<state, pending, age, misses, inbox, said, pinged>>

\* The receive timeout or an end of file: ReadMessage closes the socket on
\* both.
ReadFails == inbox = <<>> /\ HandshakeFails

\* Everything but version is read and dropped, a verack as well.
ReadVersion ==
  /\ pc = "version"
  /\ \/ ReadFails
     \/ /\ inbox # <<>>
        /\ LET m == Head(inbox) IN
           \/ /\ m.cmd # "version"
              /\ inbox' = Tail(inbox)
              /\ heard' = heard \cup ({m.cmd} \cap {"verack"})
              /\ UNCHANGED <<peerVars, alive, said, pinged, mine, silent>>
           \/ /\ m.cmd = "version"
              /\ ~m.bloom
              /\ HandshakeFails
           \/ /\ m.cmd = "version"   \* verack cannot be sent
              /\ ~alive
              /\ HandshakeFails
           \/ /\ m.cmd = "version"
              /\ m.bloom
              /\ pc' = "verack"
              /\ inbox' = Tail(inbox)
              /\ heard' = heard \cup {"version"}
              /\ UNCHANGED <<state, up, pending, age, misses, alive, said, pinged,
                             mine, silent>>

\* Mutant: any message ends the handshake.
ReadVerackAny ==
  /\ pc = "verack"
  /\ inbox # <<>>
  /\ inbox' = Tail(inbox)
  /\ heard' = heard \cup ({Head(inbox).cmd} \cap {"verack"})
  /\ pc' = "idle" /\ state' = SetState(state, "FILTER_SENT")
  /\ UNCHANGED <<up, pending, age, misses, alive, said, pinged, mine, silent>>

ReadVerack ==
  /\ pc = "verack"
  /\ \/ ReadFails
     \/ /\ inbox # <<>>
        /\ inbox' = Tail(inbox)
        /\ heard' = heard \cup ({Head(inbox).cmd} \cap {"verack"})
        /\ IF Head(inbox).cmd = "verack"
             THEN pc' = "idle" /\ state' = SetState(state, "FILTER_SENT")
             ELSE UNCHANGED <<pc, state>>
        /\ UNCHANGED <<up, pending, age, misses, alive, said, pinged, mine, silent>>

----------------------------------------------------------------------------
(* The other calls, one at a time.                                         *)

DisconnectEffect ==
  /\ Close
  /\ state' = "DISCONNECTED"
  /\ pending' = NoNonce

Disconnect ==
  /\ pc = "idle"
  /\ DisconnectEffect
  /\ UNCHANGED <<pc, age, misses, historyVars>>

SendPing(n) ==
  /\ pc = "idle"
  /\ n \notin mine \cup {pending}   \* the callers' nonces do not repeat
  /\ state \in {"FILTER_SENT", "STEADY"}
  /\ \/ /\ SendOk
        /\ pending' = n /\ age' = 0
        /\ pinged' = IF alive THEN pinged \cup {n} ELSE pinged
        /\ mine' = mine \cup {n}
        /\ UNCHANGED <<state, pc, misses, heard, silent>>
     \/ /\ SendFails
        /\ UNCHANGED <<state, pc, pending, age, misses, historyVars>>

\* Mutant: the counter runs on.
SaturateNot(n) == n + 1

Saturate2(n) == IF n >= 2 THEN 2 ELSE n + 1

\* Mutant: disconnects a timeout late.
CheckPingTimeoutLate ==
  /\ pc = "idle"
  /\ pending # NoNonce /\ age = PongTimeout
  /\ misses' = Saturate2(misses)
  /\ silent' = Saturate2(silent)
  /\ age' = -1
  /\ IF misses >= 2
       THEN DisconnectEffect
       ELSE pending' = NoNonce /\ UNCHANGED <<state, up, remoteVars>>
  /\ UNCHANGED <<pc, heard, mine>>

CheckPingTimeout ==
  /\ pc = "idle"
  /\ pending # NoNonce /\ age = PongTimeout
  /\ misses' = Saturate2(misses)
  /\ silent' = Saturate2(silent)
  /\ age' = -1
  /\ IF misses' >= 2
       THEN DisconnectEffect
       ELSE pending' = NoNonce /\ UNCHANGED <<state, up, remoteVars>>
  /\ UNCHANGED <<pc, heard, mine>>

\* HandleMessage for a pong: only the latest ping counts.
HandlePong(m) ==
  IF m.nonce = pending /\ age # -1
    THEN /\ pending' = NoNonce /\ age' = -1 /\ misses' = 0 /\ silent' = 0
    ELSE UNCHANGED <<pending, age, misses, silent>>

\* ReadMessage, HandleMessage: a failed read closes the socket and leaves the
\* state; a ping is answered, the answer may fail.
ReadAndHandle ==
  /\ pc = "idle"
  /\ up
  /\ \/ /\ inbox = <<>>
        /\ Close
        /\ UNCHANGED <<pending, age, misses, silent>>
     \/ /\ inbox # <<>>
        /\ Head(inbox).cmd # "pong"
        /\ inbox' = Tail(inbox)
        /\ UNCHANGED <<up, alive, said, pinged, pending, age, misses, silent>>
     \/ /\ inbox # <<>>
        /\ Head(inbox).cmd = "ping"
        /\ SendFails
        /\ UNCHANGED <<pending, age, misses, silent>>
     \/ /\ inbox # <<>>
        /\ Head(inbox).cmd = "pong"
        /\ HandlePong(Head(inbox))
        /\ inbox' = Tail(inbox)
        /\ UNCHANGED <<up, alive, said, pinged>>
  /\ UNCHANGED <<state, pc, heard, mine>>

\* SendMessage does not look at the state.
SendMessageFails ==
  /\ pc = "idle"
  /\ up
  /\ SendFails
  /\ UNCHANGED <<state, pc, pending, age, misses, historyVars>>

\* The sync code moves the state on.
Advance(to) ==
  /\ pc = "idle"
  /\ state \in Ready /\ to \in Ready
  /\ state' = SetState(state, to)
  /\ UNCHANGED <<up, pc, pending, age, misses, remoteVars, historyVars>>

Tick ==
  /\ age \in 0..(PongTimeout - 1)
  /\ age' = age + 1
  /\ UNCHANGED <<state, up, pc, pending, misses, remoteVars, historyVars>>

----------------------------------------------------------------------------
(* The remote node, external.                                              *)

RemoteSays(c, b) ==
  /\ alive
  /\ Len(inbox) < MaxInbox
  /\ c \notin said
  /\ b => c = "version"
  /\ inbox' = Append(inbox, Msg(c, b))
  /\ said' = said \cup ({c} \cap {"version", "verack"})
  /\ UNCHANGED <<peerVars, alive, pinged, historyVars>>

RemotePong(n) ==
  /\ alive
  /\ Len(inbox) < MaxInbox
  /\ n \in pinged
  /\ inbox' = Append(inbox, [cmd |-> "pong", nonce |-> n])
  /\ pinged' = pinged \ {n}
  /\ UNCHANGED <<peerVars, alive, said, historyVars>>

RemoteDies ==
  /\ alive
  /\ alive' = FALSE
  /\ UNCHANGED <<peerVars, inbox, said, pinged, historyVars>>

Remote ==
  \/ \E c \in {"version", "verack", "ping", "other"}, b \in BOOLEAN : RemoteSays(c, b)
  \/ \E n \in Nonce : RemotePong(n)
  \/ RemoteDies

PeerNext ==
  \/ CallConnect \/ ConnectFails \/ Connected \/ ReadVersion \/ ReadVerack
  \/ Disconnect \/ CheckPingTimeout \/ ReadAndHandle \/ SendMessageFails
  \/ \E n \in Nonce : SendPing(n)
  \/ \E to \in Ready : Advance(to)
  \/ Tick
  \/ Remote

PeerSpec == PeerInit /\ [][PeerNext]_allPeerVars

----------------------------------------------------------------------------
(* Properties.                                                             *)

PeerTypeOK ==
  /\ state \in PeerState /\ up \in BOOLEAN
  /\ pc \in {"idle", "connect", "version", "verack"}
  /\ pending \in Nonce \cup {NoNonce} /\ age \in -1..PongTimeout /\ misses \in 0..2
  /\ alive \in BOOLEAN /\ inbox \in Seq(Message)
  /\ said \subseteq {"version", "verack"} /\ heard \subseteq {"version", "verack"}
  /\ pinged \subseteq Nonce /\ mine \subseteq Nonce /\ silent \in 0..2

\* Past HANDSHAKE, the connection made last has heard a NODE_BLOOM version and
\* a verack, in whatever order connections failed, closed and were made again.
ReadyAfterHandshake == state \in Ready => heard = {"version", "verack"}

\* The pong that is awaited is one this connection asked for, so that the
\* answer to an old connection's ping never counts for the new one.
AwaitsOwnPong == pending # NoNonce => pending \in mine /\ age # -1

\* A connection that misses two pongs in a row does not stay open.
TwoMissesClose == silent = 2 => ~up

\* ConnectAndHandshake returns with a socket exactly when the state says the
\* handshake is done, whatever state it was called in.
HandshakeSettles ==
  [][pc # "idle" /\ pc' = "idle" =>
       \/ state' = "FILTER_SENT" /\ up'
       \/ state' = "DISCONNECTED" /\ ~up']_allPeerVars

=============================================================================
