------------------------ MODULE ClientThreadsProofs ------------------------
(***************************************************************************)
(* Proofs about the threads of the sync client for any number of nodes,    *)
(* addresses and any throttle: the standby's pump only runs while its      *)
(* connection belongs to the standby, and primary and standby are          *)
(* connections to two nodes.                                               *)
(***************************************************************************)
EXTENDS ClientThreads, TLAPS

\* Where the worker is busy with the standby it has just connected.
Preparing == pc \in {"forced", "start"} \/ (pc = "send" /\ ForStandby)

\* Where it has settled the question of a standby and uses the primary.
Serving ==
  \/ pc \in {"enter", "headers", "steady", "over", "failover", "join"}
  \/ pc = "send" /\ ~ForStandby

\* Which connections the worker holds where, and when a pump may exist.
Places ==
  /\ pc = "standby" \/ Preparing \/ Serving => primary # NoPeer
  /\ pc = "connect" => primary = NoPeer
  /\ Preparing => standby # NoPeer
  /\ standby # NoPeer => Preparing \/ Serving \/ pc \in {"leaving", "last", "cleared"}
  /\ pump # "none" => Serving \/ pc \in {"leaving", "last"}
  /\ pump # "none" => standby # NoPeer

\* What idx says of the nodes of the two connections.
IdxTracks ==
  /\ (pc \in {"none", "created", "loop", "standby"} \/ Preparing) /\ primary # NoPeer
       => primary.node = idx
  /\ Preparing => standby.node = NextIdx
  /\ Serving /\ standby # NoPeer => standby.node = idx

IInv == TypeOK /\ Places /\ IdxTracks /\ TwoNodes

\* The next index is another one, for a list of at least two.
LEMMA NextIdxDiffers ==
  ASSUME idx \in 0 .. Peers - 1
  PROVE  NextIdx \in 0 .. Peers - 1 /\ NextIdx # idx
<1> USE ClientAssumption
<1>1. CASE idx = Peers - 1
  <2>1. idx + 1 = Peers
    BY <1>1
  <2>2. Peers % Peers = 0
    OBVIOUS
  <2> QED
    BY <2>1, <2>2 DEF NextIdx
<1>2. CASE idx # Peers - 1
  <2>1. (idx + 1) % Peers = idx + 1
    BY <1>2
  <2> QED
    BY <1>2, <2>1 DEF NextIdx
<1> QED
  BY <1>1, <1>2

\* Neither a lost connection nor a loaded filter changes the node.
LEMMA PeerFacts ==
  ASSUME TypeOK, NEW p \in Peer
  PROVE  /\ p # NoPeer
         /\ Hangup(p) \in Peer /\ Hangup(p).node = p.node
         /\ Load(p) \in Peer /\ Load(p).node = p.node
BY ClientAssumption DEF TypeOK, Peer, Hangup, Load

\* A connection that was just made.
LEMMA NewPeerFacts ==
  ASSUME NEW i \in 0 .. Peers - 1
  PROVE  NewPeer(i) \in Peer /\ NewPeer(i).node = i
BY DEF NewPeer, Peer

\* The invariant holds initially: no connection, no pump.
LEMMA InitIInv == Init => IInv
<1> SUFFICES ASSUME Init PROVE IInv
  OBVIOUS
<1>1. TypeOK
  <2>1. idx \in 0 .. Peers - 1 /\ age \in 0 .. ReloadAfter
    BY ClientAssumption DEF Init
  <2> QED
    BY <2>1 DEF Init, TypeOK, NoHand
<1>2. Places /\ IdxTracks /\ TwoNodes
  BY DEF Init, Places, IdxTracks, TwoNodes, Preparing, Serving
<1> QED
  BY <1>1, <1>2 DEF IInv

\* What the window's buttons, but for the watch list's, may change.
LEMMA WindowFrame ==
  ASSUME TypeOK,
         ui' \in {ui, "idle", "closing", "closed", "terminated"},
         pc' \in {pc, "created"}, stop' \in BOOLEAN, dirty' \in BOOLEAN,
         UNCHANGED <<pump, running, stopPump, idx, primary, standby, watch, hand, age, held>>
  PROVE  TypeOK'
<1>1. ui' \in {"idle", "adding", "closing", "closed", "terminated"}
  BY DEF TypeOK
<1>2. pc' \in {"none", "created", "loop", "connect", "standby", "forced", "start",
               "enter", "send", "headers", "steady", "over", "failover", "join",
               "leaving", "last", "cleared", "ended"}
  BY DEF TypeOK
<1> QED
  BY <1>1, <1>2 DEF TypeOK

\* The window's thread and the clock touch no connection.  Only Connect moves
\* the worker, from where it holds none.
LEMMA WindowIInv ==
  ASSUME IInv, Window \/ Tick, UNCHANGED held
  PROVE  IInv'
<1> USE DEF IInv
<1>1. TypeOK'
  <2>1. CASE Connect
    <3>1. /\ ui' \in {ui, "terminated"} /\ pc' \in {pc, "created"} /\ stop' = FALSE
          /\ UNCHANGED <<pump, running, stopPump, dirty, idx, primary, standby,
                         watch, hand, age>>
      BY <2>1 DEF Connect, filters, peers
    <3>2. stop' \in BOOLEAN /\ dirty' \in BOOLEAN
      BY <3>1 DEF TypeOK
    <3> QED
      BY <3>1, <3>2, WindowFrame
  <2>2. CASE Disconnect \/ Destroy \/ Joined \/ WatchAdded
    <3>1. /\ ui' \in {ui, "closing", "closed", "idle"} /\ pc' = pc
          /\ stop' \in {stop, TRUE} /\ dirty' \in {dirty, TRUE}
          /\ UNCHANGED <<pump, running, stopPump, idx, primary, standby,
                         watch, hand, age>>
      BY <2>2 DEF Disconnect, Destroy, Joined, WatchAdded, filters, peers, flags
    <3>2. stop' \in BOOLEAN /\ dirty' \in BOOLEAN
      BY <3>1 DEF TypeOK
    <3> QED
      BY <3>1, <3>2, WindowFrame
  <2>3. CASE \E a \in Addr : WatchAdd(a) \/ WatchRemove(a)
    <3>1. /\ ui' \in {ui, "adding"}
          /\ \E a \in Addr : watch' \in {watch \cup {a}, watch \ {a}}
          /\ UNCHANGED <<pc, pump, stop, running, stopPump, dirty, idx, primary,
                         standby, hand, age>>
      BY <2>3 DEF WatchAdd, WatchRemove, flags, peers
    <3>2. watch' \in SUBSET Addr
      BY <3>1 DEF TypeOK
    <3> QED
      BY <3>1, <3>2 DEF TypeOK
  <2>4. CASE Tick
    <3>1. age' \in 0 .. ReloadAfter
      BY <2>4, ClientAssumption DEF Tick, TypeOK
    <3> QED
      BY <2>4, <3>1 DEF TypeOK, Tick, flags, peers
  <2> QED
    BY <2>1, <2>2, <2>3, <2>4 DEF Window
<1>2. CASE Connect /\ pc = "none"
  BY <1>2 DEF Connect, peers, filters, Places, IdxTracks, TwoNodes, Preparing, Serving,
              ForStandby, NextIdx, TypeOK
<1>3. CASE Tick \/ (Window /\ ~(Connect /\ pc = "none"))
  <2>1. UNCHANGED <<pc, pump, idx, primary, standby, hand>>
    BY <1>3 DEF Window, Connect, Disconnect, Destroy, Joined, WatchAdded, WatchAdd,
                WatchRemove, Tick, filters, peers
  <2> QED
    BY <1>1, <2>1 DEF Places, IdxTracks, TwoNodes, Preparing, Serving, ForStandby, NextIdx
<1> QED
  BY <1>1, <1>2, <1>3

\* The pump: it may find the standby's connection closed or close it.
LEMMA PumpIInv ==
  ASSUME IInv, PumpStep, UNCHANGED held
  PROVE  IInv'
<1> USE DEF IInv
<1>1. pump # "none" /\ pump' # "none" /\ standby \in Peer /\ standby # NoPeer
  BY DEF PumpStep, PumpTest, PumpReads, PumpReadFails, Places, TypeOK
<1>2. standby' \in Peer /\ standby' # NoPeer /\ standby'.node = standby.node
  BY <1>1, PeerFacts DEF PumpStep, PumpTest, PumpReads, PumpReadFails, peers
<1>3. UNCHANGED <<ui, pc, idx, primary, watch, hand, age, stop, running, stopPump, dirty>>
  BY DEF PumpStep, PumpTest, PumpReads, PumpReadFails, peers, flags, filters
<1>4. TypeOK'
  <2>1. pump' \in {"test", "reading", "ended"}
    BY DEF PumpStep, PumpTest, PumpReads, PumpReadFails
  <2> QED
    BY <1>2, <1>3, <2>1 DEF TypeOK
<1> QED
  BY <1>1, <1>2, <1>3, <1>4 DEF Places, IdxTracks, TwoNodes, Preparing, Serving,
                                ForStandby, NextIdx

\* WorkerMain's way to a primary and a standby.
LEMMA ConnectIInv ==
  ASSUME IInv, UNCHANGED held,
         Started \/ Loop \/ ConnectPrimary \/ ConnectFails \/ ConnectStandby
           \/ NoStandby \/ StartPump
  PROVE  IInv'
<1> USE DEF IInv
<1>0. /\ NextIdx \in 0 .. Peers - 1 /\ NextIdx # idx /\ idx \in 0 .. Peers - 1
      /\ NewPeer(idx) \in Peer /\ NewPeer(idx).node = idx
      /\ NewPeer(NextIdx) \in Peer /\ NewPeer(NextIdx).node = NextIdx
      /\ NoPeer \notin Peer
  BY NextIdxDiffers, NewPeerFacts, ClientAssumption DEF TypeOK
<1>1. CASE Started \/ Loop
  <2>1. /\ pc \in {"created", "loop"}
        /\ pc' \in {"loop", "leaving", "connect", "standby"}
        /\ pc' = "connect" => primary = NoPeer
        /\ pc' = "standby" => primary # NoPeer
        /\ pc = "created" => pc' = "loop"
        /\ pc = "loop" => pc' # "loop"
        /\ running' \in BOOLEAN
        /\ UNCHANGED <<ui, pump, idx, primary, standby, watch, hand, age, stop, stopPump, dirty>>
    BY <1>1 DEF Started, Loop, Go, peers, flags, filters, TypeOK
  <2> QED
    BY <2>1 DEF TypeOK, Places, IdxTracks, TwoNodes, Preparing, Serving, ForStandby
<1>2. CASE ConnectPrimary \/ ConnectFails
  <2>1. /\ pc = "connect"
        /\ \/ pc' = "standby" /\ primary' = NewPeer(idx) /\ idx' = idx
           \/ pc' = "loop" /\ primary' = primary /\ idx' = NextIdx
        /\ UNCHANGED <<ui, pump, standby, watch, hand, age, stop, running, stopPump, dirty>>
    BY <1>2 DEF ConnectPrimary, ConnectFails, Go, peers, flags, filters
  <2> QED
    BY <1>0, <2>1 DEF TypeOK, Places, IdxTracks, TwoNodes, Preparing, Serving, ForStandby
<1>3. CASE ConnectStandby
  <2>1. /\ pc = "standby" /\ pc' = "forced" /\ standby' = NewPeer(NextIdx)
        /\ UNCHANGED <<ui, pump, idx, primary, watch, hand, age, stop, running, stopPump, dirty>>
    BY <1>3 DEF ConnectStandby, Go, peers, flags, filters
  <2>2. NextIdx' = NextIdx
    BY <2>1 DEF NextIdx
  <2> QED
    BY <1>0, <2>1, <2>2 DEF TypeOK, Places, IdxTracks, TwoNodes, Preparing, Serving, ForStandby
<1>4. CASE NoStandby
  <2>1. /\ pc = "standby" /\ pc' = "enter" /\ standby = NoPeer
        /\ idx' = NextIdx
        /\ UNCHANGED <<ui, pump, primary, standby, watch, hand, age, stop, running, stopPump, dirty>>
    BY <1>4 DEF NoStandby, Go, peers, flags, filters, Places, Preparing, Serving
  <2> QED
    BY <1>0, <2>1 DEF TypeOK, Places, IdxTracks, TwoNodes, Preparing, Serving, ForStandby
<1>5. CASE StartPump
  <2>1. /\ pc = "start" /\ pc' = "enter" /\ pump = "none" /\ pump' = "test"
        /\ idx' = NextIdx /\ stopPump' = FALSE
        /\ UNCHANGED <<ui, primary, standby, watch, hand, age, stop, running, dirty>>
    BY <1>5 DEF StartPump, Go, peers, flags, filters, Places, Preparing, Serving
  <2> QED
    BY <1>0, <2>1 DEF TypeOK, Places, IdxTracks, TwoNodes, Preparing, Serving, ForStandby
<1> QED
  BY <1>1, <1>2, <1>3, <1>4, <1>5

\* RebuildFilter changes what a node knows, never which node it is.
LEMMA FilterIInv ==
  ASSUME IInv, UNCHANGED held,Throttled \/ CopyAddresses \/ CopyForced \/ SendFilter \/ SendFilterFails
  PROVE  IInv'
<1> USE DEF IInv
<1>1. CASE Throttled
  <2>1. /\ pc' = "headers" \/ pc' = pc
        /\ pc \in {"enter", "steady"}
        /\ dirty' = FALSE
        /\ UNCHANGED <<ui, pump, idx, primary, standby, watch, hand, age, stop, running, stopPump>>
    BY <1>1 DEF Throttled, Reloads, peers, filters
  <2>2. TypeOK'
    <3>1. pc' \in {"headers", "enter", "steady"} /\ dirty' \in BOOLEAN
      BY <2>1
    <3> QED
      BY <2>1, <3>1 DEF TypeOK
  <2>3. Serving /\ Serving' /\ ~Preparing /\ ~Preparing'
    BY <2>1 DEF Serving, Preparing
  <2>4. pc' \notin {"none", "created", "loop", "standby", "connect"}
    BY <2>1
  <2> QED
    BY <2>1, <2>2, <2>3, <2>4 DEF Places, IdxTracks, TwoNodes
<1>2. CASE CopyAddresses \/ CopyForced
  <2>1. /\ pc' = "send"
        /\ hand' \in [addrs : SUBSET Addr, next : {"start", "headers", "steady"}]
        /\ \/ pc \in {"enter", "steady"} /\ hand'.next # "start"
           \/ pc = "forced" /\ hand'.next = "start"
        /\ age' \in 0 .. ReloadAfter
        /\ UNCHANGED <<ui, pump, idx, primary, standby, watch, stop, running, stopPump, dirty>>
    <3>1. 0 \in 0 .. ReloadAfter
      BY ClientAssumption
    <3>2. CASE CopyAddresses
      BY <3>1, <3>2 DEF CopyAddresses, Reloads, peers, flags, TypeOK
    <3>3. CASE CopyForced
      BY <3>3 DEF CopyForced, Go, peers, flags, TypeOK
    <3> QED
      BY <1>2, <3>2, <3>3
  <2> QED
    BY <2>1 DEF TypeOK, Places, IdxTracks, TwoNodes, Preparing, Serving, ForStandby, NextIdx
<1>3. CASE SendFilter \/ SendFilterFails
  <2>1. /\ pc = "send" /\ pc' = hand.next /\ hand' = NoHand
        /\ hand.next \in {"start", "headers", "steady"}
        /\ dirty' \in BOOLEAN
        /\ UNCHANGED <<ui, pump, idx, watch, age, stop, running, stopPump>>
    BY <1>3 DEF SendFilter, SendFilterFails, Go, flags, TypeOK
  <2>2. ForStandby => /\ standby \in Peer /\ primary' = primary
                      /\ standby' \in {standby, Load(standby), Hangup(standby)}
    BY <1>3, <2>1 DEF SendFilter, SendFilterFails, Places, Preparing, TypeOK
  <2>3. ~ForStandby => /\ primary \in Peer /\ standby' = standby
                       /\ primary' \in {primary, Load(primary), Hangup(primary)}
    BY <1>3, <2>1 DEF SendFilter, SendFilterFails, Places, Serving, TypeOK
  <2>4. /\ ForStandby => standby' \in Peer /\ standby' # NoPeer /\ standby'.node = standby.node
        /\ ~ForStandby => primary' \in Peer /\ primary' # NoPeer /\ primary'.node = primary.node
    BY <2>2, <2>3, PeerFacts
  <2>5. TypeOK'
    BY <2>1, <2>2, <2>3, <2>4 DEF TypeOK, NoHand
  <2>6. CASE ForStandby
    BY <2>1, <2>2, <2>4, <2>5, <2>6
       DEF Places, IdxTracks, TwoNodes, Preparing, Serving, ForStandby, NextIdx
  <2>7. CASE ~ForStandby
    BY <2>1, <2>3, <2>4, <2>5, <2>7
       DEF Places, IdxTracks, TwoNodes, Preparing, Serving, ForStandby, NextIdx
  <2> QED
    BY <2>6, <2>7
<1> QED
  BY <1>1, <1>2, <1>3

\* RunSyncCore to its end, the failover and the way out.
LEMMA ServeIInv ==
  ASSUME IInv, UNCHANGED held,
         HeadersEnd \/ HeadersRefused \/ PrimaryLost \/ SteadyEnds \/ CoreReturns
           \/ StopPump \/ Promote \/ Leave \/ LastJoin \/ Ended
  PROVE  IInv'
<1> USE DEF IInv
<1>1. CASE HeadersEnd \/ HeadersRefused \/ PrimaryLost \/ SteadyEnds \/ CoreReturns
  <2>1. /\ pc \in {"headers", "steady", "over"}
        /\ pc' \in {"steady", "over", "leaving", "failover"}
        /\ primary' \in {primary, Hangup(primary)}
        /\ UNCHANGED <<ui, pump, idx, standby, watch, hand, age, stop, running, stopPump, dirty>>
    BY <1>1 DEF HeadersEnd, HeadersRefused, PrimaryLost, SteadyEnds, CoreReturns, Go,
                peers, flags, filters
  <2>2. primary \in Peer
    BY <2>1 DEF Places, Serving, TypeOK
  <2>3. primary' \in Peer /\ primary' # NoPeer /\ primary'.node = primary.node
    BY <2>1, <2>2, PeerFacts
  <2> QED
    BY <2>1, <2>2, <2>3
       DEF TypeOK, Places, IdxTracks, TwoNodes, Preparing, Serving, ForStandby
<1>2. CASE StopPump \/ Leave
  <2>1. /\ \/ pc = "failover" /\ pc' = "join"
           \/ pc = "leaving" /\ pc' = "last"
        /\ stopPump' \in BOOLEAN
        /\ UNCHANGED <<ui, pump, idx, primary, standby, watch, hand, age, stop, running, dirty>>
    BY <1>2 DEF StopPump, Leave, Go, peers, filters
  <2> QED
    BY <2>1 DEF TypeOK, Places, IdxTracks, TwoNodes, Preparing, Serving, ForStandby
<1>3. CASE Promote
  <2>1. /\ pc = "join" /\ pc' = "loop" /\ pump' = "none" /\ stopPump' = FALSE
        /\ primary' \in {standby, NoPeer} /\ standby' = NoPeer
        /\ UNCHANGED <<ui, idx, watch, hand, age, stop, running, dirty>>
    BY <1>3 DEF Promote, Go, filters
  <2>2. TypeOK'
    <3>1. primary' \in Peer \cup {NoPeer} /\ standby' \in Peer \cup {NoPeer}
      BY <2>1 DEF TypeOK
    <3> QED
      BY <2>1, <3>1 DEF TypeOK
  <2> QED
    BY <2>1, <2>2 DEF Places, IdxTracks, TwoNodes, Preparing, Serving, ForStandby
<1>4. CASE LastJoin
  <2>1. /\ pc = "last" /\ pc' = "cleared" /\ pump' = "none" /\ running' = FALSE
        /\ UNCHANGED <<ui, idx, primary, standby, watch, hand, age, stop, stopPump, dirty>>
    BY <1>4 DEF LastJoin, Go, peers, filters
  <2>2. TypeOK'
    BY <2>1 DEF TypeOK
  <2> QED
    BY <2>1, <2>2 DEF Places, IdxTracks, TwoNodes, Preparing, Serving, ForStandby
<1>5. CASE Ended
  <2>1. /\ pc = "cleared" /\ pc' = "ended" /\ pump' = pump
        /\ primary' = NoPeer /\ standby' = NoPeer /\ stop' = FALSE
        /\ UNCHANGED <<ui, idx, watch, hand, age, running, stopPump, dirty>>
    BY <1>5 DEF Ended, Go, filters
  <2>2. TypeOK'
    BY <2>1 DEF TypeOK
  <2> QED
    BY <2>1, <2>2 DEF Places, IdxTracks, TwoNodes, Preparing, Serving, ForStandby
<1> QED
  BY <1>1, <1>2, <1>3, <1>4, <1>5

\* A node that keeps a thread in a call, or lets it go, changes nothing else.
LEMMA CallIInv ==
  ASSUME IInv, NEW t \in {"worker", "pump"}, CallBlocks(t) \/ CallReturns(t)
  PROVE  IInv'
<1>1. held' \subseteq {"worker", "pump"}
  BY DEF CallBlocks, CallReturns, IInv, TypeOK
<1>2. UNCHANGED <<ui, pc, pump, flags, peers, filters>>
  BY DEF CallBlocks, CallReturns
<1> QED
  BY <1>1, <1>2 DEF flags, peers, filters, IInv, TypeOK, Places, IdxTracks, TwoNodes,
                    Preparing, Serving, ForStandby, NextIdx

\* The invariant is inductive.
LEMMA NextIInv == IInv /\ [Next]_vars => IInv'
<1> SUFFICES ASSUME IInv, [Next]_vars PROVE IInv'
  OBVIOUS
<1>1. CASE (Window \/ Tick) /\ UNCHANGED held
  BY <1>1, WindowIInv
<1>2. CASE WorkerStep /\ Free("worker")
  BY <1>2, ConnectIInv, FilterIInv, ServeIInv DEF WorkerStep, WorkerGoesOn, Free
<1>3. CASE PumpStep /\ Free("pump")
  BY <1>3, PumpIInv DEF Free
<1>4. CASE \E t \in {"worker", "pump"} : CallBlocks(t) \/ CallReturns(t)
  BY <1>4, CallIInv
<1>5. CASE UNCHANGED vars
  BY <1>5 DEF vars, flags, peers, filters, IInv, TypeOK, Places, IdxTracks, TwoNodes,
              Preparing, Serving, ForStandby, NextIdx
<1> QED
  BY <1>1, <1>2, <1>3, <1>4, <1>5 DEF Next, Exited

\* It holds of every reachable state.
LEMMA Invariant == Spec => []IInv
BY InitIInv, NextIInv, PTL DEF Spec

\* Type correctness, for any number of nodes.
THEOREM TypeCorrect == Spec => []TypeOK
<1>1. IInv => TypeOK
  BY DEF IInv
<1> QED
  BY <1>1, Invariant, PTL

\* The raw pointer the pump reads through is valid while the pump runs, is never
\* the primary's, and no pump is left where WorkerMain starts another or returns.
THEOREM PumpOwnership == Spec => []PumpIsOwned
<1>1. IInv => PumpIsOwned
  BY DEF IInv, PumpIsOwned, Places, Preparing, Serving
<1> QED
  BY <1>1, Invariant, PTL

\* Primary and standby are never two connections to one node of the list.
THEOREM StandbyIsAnother == Spec => []TwoNodes
<1>1. IInv => TwoNodes
  BY DEF IInv
<1> QED
  BY <1>1, Invariant, PTL

=============================================================================
