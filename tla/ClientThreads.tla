--------------------------- MODULE ClientThreads ---------------------------
(***************************************************************************)
(* The threads of the sync client (src/demo/demo_win32.cpp): the window's  *)
(* thread with its Connect, Disconnect and watch buttons, the worker that  *)
(* keeps a primary and a standby connection and fails over from one to the *)
(* other, and the pump that reads the standby meanwhile.  They share       *)
(* g_stop, g_worker_running, g_stop_standby, g_filter_dirty and the watch  *)
(* list.  One step is what a thread does between two accesses to what      *)
(* another one writes.                                                     *)
(*                                                                         *)
(* What RunSyncCore does with headers is HeaderSync, what is done with     *)
(* transactions TxPipeline; here both are reads that return or fail.       *)
(***************************************************************************)
EXTENDS Integers

CONSTANTS
  Peers,       \* number of addresses in WorkerMain's list
  Addr,        \* the watch addresses a user may type, mainnet P2PKH all
  ReloadAfter, \* kFilterReloadMinIntervalMs, in ticks
  NoPeer, NoFilter

\* A connection, as its node and its owner see it.
Peer == [node : 0 .. Peers - 1, open : BOOLEAN,
         filter : (SUBSET Addr) \cup {NoFilter}]

ASSUME ClientAssumption ==
  /\ Peers \in Nat /\ Peers >= 2
  /\ ReloadAfter \in Nat
  /\ NoPeer \notin Peer

VARIABLES
  ui,         \* the window: "idle", "adding", "closing", "closed", "terminated"
  stop,       \* g_stop
  running,    \* g_worker_running
  pc,         \* the worker: "none" before Connect, "ended" when it returned
  idx,        \* WorkerMain's idx
  primary, standby,  \* its two CLightPeer, or NoPeer
  stopPump,   \* g_stop_standby
  pump,       \* g_standby_thread: "none", "test", "reading", "ended"
  watch,      \* g_state.watch_addresses
  dirty,      \* g_filter_dirty
  hand,       \* RebuildFilter: the addresses copied, and where it returns to
  age,        \* ticks since m_last_filter_reload_ms, or ReloadAfter
  held        \* of "worker" and "pump", those whose node keeps them in a call

flags == <<stop, running, stopPump, dirty>>
peers == <<idx, primary, standby>>
filters == <<watch, hand, age>>
vars == <<ui, pc, pump, held, flags, peers, filters>>

\* A handshake has just succeeded: the node has no filter for us yet.
NewPeer(i) == [node |-> i, open |-> TRUE, filter |-> NoFilter]

\* What a failed send or read leaves behind.
Hangup(p) == [p EXCEPT !.open = FALSE]

\* Mutant: the index runs past the list.
NextIdxUnwrapped == idx + 1

NextIdx == (idx + 1) % Peers

\* A standby that is not there is not connected.
Usable(p) == IF p = NoPeer THEN FALSE ELSE p.open

NoHand == [addrs |-> {}, next |-> "headers"]

Init ==
  /\ ui = "idle" /\ pc = "none" /\ pump = "none"
  /\ stop = FALSE /\ running = FALSE /\ stopPump = FALSE /\ dirty = FALSE
  /\ idx = 0 /\ primary = NoPeer /\ standby = NoPeer
  /\ watch \in SUBSET Addr
  /\ hand = NoHand /\ age = ReloadAfter /\ held = {}

----------------------------------------------------------------------------
(* The window's thread.  While it waits for a join it handles nothing.     *)

\* g_worker is assigned to without a join: when it still holds a thread, one
\* that has ended included, the assignment calls std::terminate.
Connect ==
  /\ ui = "idle" /\ ~running
  /\ stop' = FALSE
  /\ IF pc = "none"
       THEN pc' = "created" /\ ui' = ui
       ELSE ui' = "terminated" /\ pc' = pc
  /\ UNCHANGED <<pump, running, stopPump, dirty, peers, filters>>

Disconnect ==
  /\ ui = "idle"
  /\ stop' = TRUE
  /\ UNCHANGED <<ui, pc, pump, running, stopPump, dirty, peers, filters>>

\* The list is changed under its lock, saved, and the flag set after that.
WatchAdd(a) ==
  /\ ui = "idle" /\ a \notin watch
  /\ watch' = watch \cup {a}
  /\ ui' = "adding"
  /\ UNCHANGED <<pc, pump, flags, peers, hand, age>>

WatchAdded ==
  /\ ui = "adding"
  /\ dirty' = TRUE
  /\ ui' = "idle"
  /\ UNCHANGED <<pc, pump, stop, running, stopPump, peers, filters>>

\* The filters keep the address: nothing sets the flag.
WatchRemove(a) ==
  /\ ui = "idle" /\ a \in watch
  /\ watch' = watch \ {a}
  /\ UNCHANGED <<ui, pc, pump, flags, peers, hand, age>>

\* WM_DESTROY: stop, then join.
Destroy ==
  /\ ui = "idle"
  /\ stop' = TRUE
  /\ ui' = "closing"
  /\ UNCHANGED <<pc, pump, running, stopPump, dirty, peers, filters>>

Joined ==
  /\ ui = "closing" /\ pc \in {"none", "ended"}
  /\ ui' = "closed"
  /\ UNCHANGED <<pc, pump, flags, peers, filters>>

Alive == ui \notin {"closed", "terminated"}

----------------------------------------------------------------------------
(* WorkerMain.                                                             *)

Go(here, there) == Alive /\ pc = here /\ pc' = there

Started ==
  /\ Go("created", "loop")
  /\ running' = TRUE
  /\ UNCHANGED <<ui, pump, stop, stopPump, dirty, peers, filters>>

Loop ==
  /\ Go("loop", CASE stop -> "leaving"
                  [] ~stop /\ primary = NoPeer -> "connect"
                  [] OTHER -> "standby")
  /\ UNCHANGED <<ui, pump, flags, peers, filters>>

ConnectPrimary ==
  /\ Go("connect", "standby")
  /\ primary' = NewPeer(idx)
  /\ UNCHANGED <<ui, pump, flags, idx, standby, filters>>

ConnectFails ==
  /\ Go("connect", "loop")
  /\ idx' = NextIdx
  /\ UNCHANGED <<ui, pump, flags, primary, standby, filters>>

\* Mutant: the standby is looked for at the address in use.
ConnectStandbySame ==
  /\ standby = NoPeer
  /\ Go("standby", "forced")
  /\ standby' = NewPeer(idx)
  /\ UNCHANGED <<ui, pump, flags, idx, primary, filters>>

ConnectStandby ==
  /\ standby = NoPeer
  /\ Go("standby", "forced")
  /\ standby' = NewPeer(NextIdx)
  /\ UNCHANGED <<ui, pump, flags, idx, primary, filters>>

NoStandby ==
  /\ Go("standby", "enter")
  /\ idx' = IF standby = NoPeer THEN NextIdx ELSE idx
  /\ UNCHANGED <<ui, pump, flags, primary, standby, filters>>

\* Assigning the thread would terminate as above were the last pump not joined.
StartPump ==
  /\ Go("start", "enter")
  /\ IF pump = "none"
       THEN pump' = "test" /\ ui' = ui
       ELSE ui' = "terminated" /\ pump' = pump
  /\ stopPump' = FALSE
  /\ idx' = NextIdx
  /\ UNCHANGED <<stop, running, dirty, primary, standby, filters>>

----------------------------------------------------------------------------
(* RebuildFilter.  From "enter" and "steady" it is for the primary and     *)
(* subject to the throttle, from "forced" for the standby and not.         *)

Reloads == pc = "enter" \/ (pc = "steady" /\ ~stop /\ dirty)

\* AllowFilterReload refuses: the flag is cleared all the same.
Throttled ==
  /\ Alive /\ Reloads /\ age < ReloadAfter
  /\ dirty' = FALSE
  /\ pc' = IF pc = "enter" THEN "headers" ELSE pc
  /\ UNCHANGED <<ui, pump, stop, running, stopPump, peers, filters>>

CopyAddresses ==
  /\ Alive /\ Reloads /\ age >= ReloadAfter
  /\ age' = 0
  /\ hand' = [addrs |-> watch, next |-> IF pc = "enter" THEN "headers" ELSE "steady"]
  /\ pc' = "send"
  /\ UNCHANGED <<ui, pump, flags, peers, watch>>

CopyForced ==
  /\ Go("forced", "send")
  /\ hand' = [addrs |-> watch, next |-> "start"]
  /\ UNCHANGED <<ui, pump, flags, peers, watch, age>>

ForStandby == hand.next = "start"

Load(p) == [p EXCEPT !.filter = hand.addrs]

\* An empty list sends nothing.
SendFilter ==
  /\ Go("send", hand.next)
  /\ dirty' = FALSE
  /\ primary' = IF hand.addrs # {} /\ ~ForStandby THEN Load(primary) ELSE primary
  /\ standby' = IF hand.addrs # {} /\ ForStandby THEN Load(standby) ELSE standby
  /\ hand' = NoHand
  /\ UNCHANGED <<ui, pump, stop, running, stopPump, idx, watch, age>>

SendFilterFails ==
  /\ Go("send", hand.next)
  /\ hand.addrs # {}
  /\ primary' = IF ForStandby THEN primary ELSE Hangup(primary)
  /\ standby' = IF ForStandby THEN Hangup(standby) ELSE standby
  /\ hand' = NoHand
  /\ UNCHANGED <<ui, pump, flags, idx, watch, age>>

----------------------------------------------------------------------------
(* RunSyncCore on the primary, and what WorkerMain does after it.          *)

\* The headers are done without an error, a stop was seen, or sending failed.
HeadersEnd ==
  /\ Go("headers", IF stop \/ ~primary.open THEN "over" ELSE "steady")
  /\ UNCHANGED <<ui, pump, flags, peers, filters>>

\* Refused headers end it with the connection open.
HeadersRefused ==
  /\ Go("headers", "over")
  /\ UNCHANGED <<ui, pump, flags, peers, filters>>

\* A read on the primary fails, a receive timeout included.
PrimaryLost ==
  /\ pc \in {"headers", "steady"}
  /\ Go(pc, "over")
  /\ primary' = Hangup(primary)
  /\ UNCHANGED <<ui, pump, flags, idx, standby, filters>>

\* The loop tests g_stop, then the flag, then reads: a message, once handled,
\* leaves nothing here, and a connection that was lost in a send is noticed.
SteadyEnds ==
  /\ Go("steady", "over")
  /\ stop \/ (~dirty /\ ~primary.open)
  /\ UNCHANGED <<ui, pump, flags, peers, filters>>

\* peer.Disconnect, and the decision of WorkerMain.
CoreReturns ==
  /\ Go("over", IF stop THEN "leaving" ELSE "failover")
  /\ primary' = Hangup(primary)
  /\ UNCHANGED <<ui, pump, flags, idx, standby, filters>>

\* Mutant: the pump is waited for but not told.
StopPumpNot ==
  /\ Go("failover", "join")
  /\ UNCHANGED <<ui, pump, flags, peers, filters>>

StopPump ==
  /\ Go("failover", "join")
  /\ stopPump' = (pump # "none" \/ stopPump)
  /\ UNCHANGED <<ui, pump, stop, running, dirty, peers, filters>>

\* Mutant: the standby is promoted while its pump still reads.
PromoteEarly ==
  /\ Go("join", "loop")
  /\ stopPump' = FALSE
  /\ pump' = IF pump = "ended" THEN "none" ELSE pump
  /\ primary' = IF Usable(standby) THEN standby ELSE NoPeer
  /\ standby' = NoPeer
  /\ UNCHANGED <<ui, stop, running, dirty, idx, filters>>

Promote ==
  /\ pump \in {"none", "ended"}
  /\ Go("join", "loop")
  /\ pump' = "none"
  /\ stopPump' = FALSE
  /\ primary' = IF Usable(standby) THEN standby ELSE NoPeer
  /\ standby' = NoPeer
  /\ UNCHANGED <<ui, stop, running, dirty, idx, filters>>

\* Mutant: the last pump is waited for but not told.
LeaveUntold ==
  /\ Go("leaving", "last")
  /\ UNCHANGED <<ui, pump, flags, peers, filters>>

\* Behind the loop.
Leave ==
  /\ Go("leaving", "last")
  /\ stopPump' = (pump # "none" \/ stopPump)
  /\ UNCHANGED <<ui, pump, stop, running, dirty, peers, filters>>

LastJoin ==
  /\ pump \in {"none", "ended"}
  /\ Go("last", "cleared")
  /\ pump' = "none"
  /\ running' = FALSE
  /\ UNCHANGED <<ui, stop, stopPump, dirty, peers, filters>>

Ended ==
  /\ Go("cleared", "ended")
  /\ stop' = FALSE
  /\ primary' = NoPeer /\ standby' = NoPeer
  /\ UNCHANGED <<ui, pump, running, stopPump, dirty, idx, filters>>

----------------------------------------------------------------------------
(* StandbyPump, and time.                                                  *)

PumpTest ==
  /\ Alive /\ pump = "test"
  /\ pump' = IF stopPump \/ ~Usable(standby) THEN "ended" ELSE "reading"
  /\ UNCHANGED <<ui, pc, flags, peers, filters>>

PumpReads ==
  /\ Alive /\ pump = "reading"
  /\ pump' = "test"
  /\ UNCHANGED <<ui, pc, flags, peers, filters>>

\* Its receive timeout of one second closes the standby, too.
PumpReadFails ==
  /\ Alive /\ pump = "reading"
  /\ pump' = "test"
  /\ standby' = Hangup(standby)
  /\ UNCHANGED <<ui, pc, flags, idx, primary, filters>>

Tick ==
  /\ Alive /\ age < ReloadAfter
  /\ age' = age + 1
  /\ UNCHANGED <<ui, pc, pump, flags, peers, watch, hand>>

Window ==
  \/ Connect \/ Disconnect \/ Destroy \/ Joined \/ WatchAdded
  \/ \E a \in Addr : WatchAdd(a) \/ WatchRemove(a)

WorkerGoesOn ==
  \/ Started \/ Loop \/ ConnectPrimary \/ ConnectFails
  \/ ConnectStandby \/ NoStandby \/ StartPump
  \/ Throttled \/ CopyAddresses \/ CopyForced \/ SendFilter \/ SendFilterFails
  \/ HeadersEnd \/ SteadyEnds \/ CoreReturns
  \/ StopPump \/ Promote \/ Leave \/ LastJoin \/ Ended

WorkerStep == WorkerGoesOn \/ HeadersRefused \/ PrimaryLost

PumpStep == PumpTest \/ PumpReads \/ PumpReadFails

----------------------------------------------------------------------------
(* A node can keep a thread in a call: DoHandshake reads on for as long as *)
(* other messages come, and a send has no timeout (Connect sets only the   *)
(* one for receiving).                                                     *)

InCall(t) ==
  \/ t = "pump" /\ pump = "reading"     \* the pong
  \/ t = "worker" /\ pc \in {"connect", "headers", "steady"}
  \/ t = "worker" /\ pc = "standby" /\ standby = NoPeer
  \/ t = "worker" /\ pc = "send" /\ hand.addrs # {}

CallBlocks(t) ==
  /\ Alive /\ t \notin held /\ InCall(t)
  /\ held' = held \cup {t}
  /\ UNCHANGED <<ui, pc, pump, flags, peers, filters>>

CallReturns(t) ==
  /\ Alive /\ t \in held
  /\ held' = held \ {t}
  /\ UNCHANGED <<ui, pc, pump, flags, peers, filters>>

Free(t) == t \notin held /\ UNCHANGED held

Exited ==
  /\ ~Alive
  /\ UNCHANGED vars

Next ==
  \/ (Window \/ Tick) /\ UNCHANGED held
  \/ WorkerStep /\ Free("worker")
  \/ PumpStep /\ Free("pump")
  \/ \E t \in {"worker", "pump"} : CallBlocks(t) \/ CallReturns(t)
  \/ Exited

\* A thread that no node keeps in a call goes on: reads return because of their
\* timeout, the header phase ends (HeaderSync), and the only other waits are the
\* joins.  Fairness is strong as a step has a bounded number of calls, so that a
\* thread out of one again and again does get to its end.  No node is assumed to
\* let a thread go, to fail, or to keep quiet.
Spec ==
  /\ Init /\ [][Next]_vars
  /\ SF_vars(WorkerGoesOn /\ Free("worker")) /\ SF_vars(PumpStep /\ Free("pump"))

----------------------------------------------------------------------------
(* Properties.                                                             *)

\* Type correctness, and when each connection exists.
TypeOK ==
  /\ ui \in {"idle", "adding", "closing", "closed", "terminated"}
  /\ pc \in {"none", "created", "loop", "connect", "standby", "forced", "start",
             "enter", "send", "headers", "steady", "over", "failover", "join",
             "leaving", "last", "cleared", "ended"}
  /\ pump \in {"none", "test", "reading", "ended"}
  /\ stop \in BOOLEAN /\ running \in BOOLEAN
  /\ stopPump \in BOOLEAN /\ dirty \in BOOLEAN
  /\ idx \in 0 .. Peers - 1
  /\ primary \in Peer \cup {NoPeer} /\ standby \in Peer \cup {NoPeer}
  /\ watch \in SUBSET Addr
  /\ hand \in [addrs : SUBSET Addr, next : {"start", "headers", "steady"}]
  /\ age \in 0 .. ReloadAfter
  /\ held \subseteq {"worker", "pump"}

\* The pump reads through a raw pointer into WorkerMain's unique_ptr: while it
\* runs the standby is there and has not become the primary, which the worker
\* reads, and none runs when WorkerMain starts another one or has returned.
PumpIsOwned ==
  /\ pump \in {"test", "reading"} => standby # NoPeer
  /\ pc \in {"loop", "connect", "standby", "forced", "start", "ended"} => pump = "none"

\* The list holds each address once so that the standby is not another
\* connection to the node of the primary (WorkerMain's comment): also after
\* promotions and failed connects in any order.
TwoNodes ==
  primary # NoPeer /\ standby # NoPeer => primary.node # standby.node

\* A node keeps the worker, or the pump it joins, in a call for good.
KeptForGood == <>[]("worker" \in held) \/ <>[]("pump" \in held)

\* Disconnect and the closing of the window end the worker, from wherever it
\* is, with the standby's pump joined: no wait of the two for each other.  The
\* one exception is a node that never lets one of them out of a call: nothing
\* closes its socket, and WM_DESTROY then waits for good.
StopEndsWorker ==
  \/ KeptForGood
  \/ (stop /\ pc # "none") ~> (pc = "ended" \/ ui = "terminated")

\* The loss of the primary is got over: the join of the pump ends although the
\* standby's node may keep sending, and the worker is back where it connects.
\* With the same exception: a pump kept in sending its pong holds up the
\* failover.  It is no promotion at once, as src/README.md has it: the join
\* waits for the pump's read, and that read's timeout may close the standby.
FailoverProceeds ==
  \/ KeptForGood
  \/ (pc = "failover") ~> (pc = "loop")

\* README: an address that was added is in a filter the sync thread sends.  So
\* once the thread has nothing left to send, the primary's filter has it.
AddedIsLoaded ==
  pc = "steady" /\ primary.open /\ ui = "idle" /\ ~dirty /\ watch # {} =>
    primary.filter # NoFilter /\ watch \subseteq primary.filter
=============================================================================
