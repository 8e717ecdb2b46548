---------------------------- MODULE LightConnMan ----------------------------
(***************************************************************************)
(* CLightConnMan (src/src/light/light_connman.cpp): candidate nodes in     *)
(* slots, each with its CLightPeer and a flag of its own that says         *)
(* connected.  What a CLightPeer does is LightPeer; here it is only "none" *)
(* (not made yet), "up" or "down", and goes down whenever a read, a send   *)
(* or the heartbeat closes its socket.                                     *)
(*                                                                         *)
(* AddPeer refuses an empty host and the port 0, which no Host stands for, *)
(* and nothing else: one node may be in several slots.                     *)
(***************************************************************************)
EXTENDS Integers, Sequences, FiniteSets

CONSTANTS
  Host,      \* candidates
  MaxConns,  \* arguments of ConnectUpTo
  MaxSlots   \* slots, a bound of the model

VARIABLE slots   \* m_slots, of [host, peer, connected]

connsVars == <<slots>>

ConnsInit == slots = <<>>

Slot == DOMAIN slots

AddPeer(h) ==
  /\ Len(slots) < MaxSlots
  /\ slots' = Append(slots, [host |-> h, peer |-> "none", connected |-> FALSE])

\* ConnectPeer on one slot, given whether its handshake would succeed.  It
\* returns the flag.
Try(s, works) ==
  IF s.connected THEN s
  ELSE [s EXCEPT !.peer = IF works THEN "up" ELSE "down", !.connected = works]

ConnectPeer(i, works) == slots' = [slots EXCEPT ![i] = Try(@, works)]

\* Slots in order until max of them are connected: how many are after the
\* first i.
Counted(max, W) ==
  LET count[i \in 0..Len(slots)] ==
        IF i = 0 THEN 0
        ELSE LET before == count[i - 1] IN
             IF before < max /\ Try(slots[i], slots[i].host \in W).connected
               THEN before + 1 ELSE before
  IN  count

ConnectUpTo(max, W) ==
  LET count == Counted(max, W)
  IN  slots' = [i \in Slot |-> IF count[i - 1] < max
                                 THEN Try(slots[i], slots[i].host \in W) ELSE slots[i]]

\* What ConnectUpTo returns.
Returned(max, W) == Counted(max, W)[Len(slots)]

\* Mutant: the flag is cleared and the peer left as it is.
DisconnectFlagOnly(i) ==
  slots' = [slots EXCEPT ![i].connected = FALSE]

DisconnectPeer(i) ==
  slots' = [slots EXCEPT ![i].peer = IF @ = "none" THEN @ ELSE "down", ![i].connected = FALSE]

PromoteToPrimary(i) ==
  /\ i # 1 /\ slots[i].connected
  /\ slots' = [slots EXCEPT ![1] = slots[i], ![i] = slots[1]]

\* The connection is lost; the slot is not told.
Lose(i) ==
  /\ slots[i].peer = "up"
  /\ slots' = [slots EXCEPT ![i].peer = "down"]

ConnsNext ==
  \/ \E h \in Host : AddPeer(h)
  \/ \E i \in Slot, works \in BOOLEAN : ConnectPeer(i, works)
  \/ \E max \in MaxConns, W \in SUBSET Host : ConnectUpTo(max, W)
  \/ \E i \in Slot : DisconnectPeer(i) \/ PromoteToPrimary(i) \/ Lose(i)

ConnsSpec == ConnsInit /\ [][ConnsNext]_connsVars

----------------------------------------------------------------------------
(* Properties.                                                             *)

IsOpen(i) == slots[i].peer = "up"

Open == {h \in Host : \E i \in Slot : IsOpen(i) /\ slots[i].host = h}

KeepStep ==
  /\ (\A i \in Slot : IsOpen(i) => slots[i].connected)'
  /\ (\A i \in Slot : ~DisconnectPeer(i) /\ ~Lose(i)) => Open \subseteq Open'

\* Adding, connecting and promoting never cost an open connection, whatever was
\* lost, disconnected and promoted before: every open one has the flag, wherever
\* a promotion put it, so that ConnectPeer leaves it alone.
OpenIsKept == [][KeepStep]_connsVars

\* "returns the number of successful connections" (light_connman.h:39): as many
\* slots are connected when ConnectUpTo returns.  Does not hold: a connection
\* that was lost keeps its flag, is not made again and is counted.
CountedAreOpen ==
  [][\A max \in MaxConns, W \in SUBSET Host :
       ConnectUpTo(max, W) => Returned(max, W) <= Cardinality({i \in Slot : IsOpen(i)})']_connsVars

=============================================================================
