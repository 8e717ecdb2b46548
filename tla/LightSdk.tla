------------------------------ MODULE LightSdk ------------------------------
(***************************************************************************)
(* The C interface (src/src/light/light_api.cpp) with the broadcast pool   *)
(* (light_txpool.cpp) and the send monitor (light_sendmonitor.cpp) it      *)
(* drives: start, stop, switch_peer, send_raw_tx, the watch list.          *)
(*                                                                         *)
(* The interface has no thread of its own: every call runs to its end in   *)
(* the caller.  PopNext, MarkRelayed, RecordRejected and CheckTimeouts are *)
(* called by tests only, and are steps of the host here.  The connection   *)
(* is what LightPeer shows of one: made as a whole or not at all, closed   *)
(* when a write fails.  The other end may die unnoticed.                   *)
(***************************************************************************)
EXTENDS Integers, SequencesExt

CONSTANTS
  SdkTxid, Node, SdkAddr,   \* transactions, peers, watch addresses
  None,       \* no node, no transaction
  MaxPool,    \* CLightTxPool::MAX_PENDING, 1024 in the code
  MaxFilter   \* kMaxFilterElements, 20000 in the code

ASSUME SdkAssumption ==
  /\ None \notin Node \cup SdkTxid
  /\ MaxPool \in Nat \ {0} /\ MaxFilter \in Nat \ {0}

VARIABLES
  running,   \* impl.running
  peer,      \* impl.peer
  conn,      \* the node the socket of peer_conn is connected to, or None
  alive,     \* that node still takes what is written
  queue,     \* CLightTxPool::m_pending
  relayed,   \* CLightTxPool::m_relayed
  sent,      \* keys of CLightSendMonitor::m_entries
  rejected,  \* those of them with the flag
  stored,    \* txids the watch store has
  watch,     \* impl.watch_addresses
  told,      \* history: the node on_peer_state last called connected, or None
  unanswered,  \* history: txids a socket took, told SEND_OK and since then nothing
  refused,   \* history: txids the peer has rejected at any time
  written,   \* history: txids a socket took
  result     \* what the last step returned or called back: [call, txid, code]

linkVars == <<running, peer, conn, alive, told>>
poolVars == <<queue, relayed>>
monitorVars == <<sent, rejected>>
sends == <<unanswered, refused, written>>
sdkVars == <<linkVars, poolVars, monitorVars, stored, watch, sends, result>>

Nothing == [call |-> "none", txid |-> None, code |-> "none"]

SdkInit ==
  /\ running = FALSE /\ peer \in Node /\ conn = None /\ alive = FALSE /\ told = None
  /\ queue = <<>> /\ relayed = {}
  /\ sent = {} /\ rejected = {}
  /\ stored \in SUBSET SdkTxid
  /\ watch = <<>>
  /\ unanswered = {} /\ refused = {} /\ written = {} /\ result = Nothing

----------------------------------------------------------------------------
(* The connection.                                                         *)

\* mvc_light_start: ConnectAndHandshake succeeds, or leaves the socket closed.
Start ==
  /\ ~running
  /\ \/ /\ conn' = peer /\ alive' = TRUE
        /\ running' = TRUE
        /\ told' = peer
     \/ /\ conn' = None /\ alive' = FALSE
        /\ UNCHANGED running
        /\ told' = None
  /\ result' = Nothing
  /\ UNCHANGED <<peer, poolVars, monitorVars, stored, watch, sends>>

\* Mutant: the sends are forgotten with the connection.
StopForgetsSends ==
  /\ running' = FALSE
  /\ conn' = None /\ alive' = FALSE
  /\ told' = None
  /\ sent' = {} /\ rejected' = {}
  /\ result' = Nothing
  /\ UNCHANGED <<peer, poolVars, stored, watch, sends>>

Stop ==
  /\ running' = FALSE
  /\ conn' = None /\ alive' = FALSE
  /\ told' = None
  /\ result' = Nothing
  /\ UNCHANGED <<peer, poolVars, monitorVars, stored, watch, sends>>

\* Mutant: the name is taken over and nobody is told.
SwitchPeerSilent(n) ==
  /\ running
  /\ conn' = n /\ alive' = TRUE
  /\ peer' = n
  /\ result' = Nothing
  /\ UNCHANGED <<running, told, poolVars, monitorVars, stored, watch, sends>>

\* The old connection is closed first.  A failed switch leaves running as it
\* is and calls nobody back.
SwitchPeer(n) ==
  /\ running
  /\ \/ /\ conn' = n /\ alive' = TRUE
        /\ peer' = n
        /\ told' = n
     \/ /\ conn' = None /\ alive' = FALSE
        /\ UNCHANGED <<peer, told>>
  /\ result' = Nothing
  /\ UNCHANGED <<running, poolVars, monitorVars, stored, watch, sends>>

NodeDies ==
  /\ alive
  /\ alive' = FALSE
  /\ result' = Nothing
  /\ UNCHANGED <<running, peer, conn, told, poolVars, monitorVars, stored, watch, sends>>

----------------------------------------------------------------------------
(* The pool.                                                               *)

\* Mutant: the limit is off by one.
RoomLate(t) ==
  IF t \notin relayed /\ Len(queue) > MaxPool THEN Tail(queue) ELSE queue

\* The oldest txid makes room before the duplicate is looked for.
Room(t) ==
  IF t \notin relayed /\ Len(queue) >= MaxPool THEN Tail(queue) ELSE queue

\* Mutant: the pool is not searched.
IsNewLoose(t) == t \notin relayed

IsNew(t) == t \notin relayed /\ ~Contains(Room(t), t)

Enqueue(t) ==
  /\ queue' = IF IsNew(t) THEN Append(Room(t), t) ELSE Room(t)
  /\ UNCHANGED relayed

PopNext ==
  /\ queue # <<>>
  /\ queue' = Tail(queue)
  /\ result' = Nothing
  /\ UNCHANGED <<linkVars, relayed, monitorVars, stored, watch, sends>>

\* Called after a successful broadcast (light_txpool.h:35).
MarkRelayed(t) ==
  /\ t \in written
  /\ relayed' = relayed \cup {t}
  /\ result' = Nothing
  /\ UNCHANGED <<linkVars, queue, monitorVars, stored, watch, sends>>

----------------------------------------------------------------------------
(* Sending.                                                                *)

\* CLightSendMonitor::RecordSent: the entry starts afresh.
RecordSent(t) ==
  /\ sent' = sent \cup {t}
  /\ rejected' = rejected \ {t}

\* CLightPeer::SendMessage, given whether the socket takes the transaction.
Write(t, taken) ==
  IF taken THEN conn # None /\ written' = written \cup {t} /\ UNCHANGED conn
  ELSE (conn = None \/ ~alive) /\ conn' = None /\ UNCHANGED written

\* Nobody looks at the result of the write: RecordSent and SEND_OK follow
\* also when no socket took the transaction.
SendRawTx(t, taken) ==
  /\ Enqueue(t)
  /\ IF IsNew(t) /\ running
       THEN /\ Write(t, taken)
            /\ RecordSent(t)
            /\ unanswered' = IF taken THEN unanswered \cup ({t} \ refused) ELSE unanswered
            /\ result' = [call |-> "send", txid |-> t, code |-> "ok"]
       ELSE /\ result' = [call |-> "send", txid |-> t, code |-> "none"]
            /\ UNCHANGED <<conn, written, monitorVars, unanswered>>
  /\ UNCHANGED <<running, peer, alive, told, stored, watch, refused>>

RecordRejected(t) ==
  /\ t \in sent
  /\ rejected' = rejected \cup {t}
  /\ unanswered' = unanswered \ {t}
  /\ refused' = refused \cup {t}
  /\ result' = [call |-> "reject", txid |-> t, code |-> "rejected"]
  /\ UNCHANGED <<linkVars, poolVars, sent, stored, watch, written>>

\* CheckTimeouts, one expired txid (the order is the map's): removed, and
\* called back for unless the store has it.  RecordSent is always given
\* now = 0, so all deadlines are one and the clock alone decides.
Expire(t) ==
  /\ t \in sent \ rejected
  /\ sent' = sent \ {t}
  /\ unanswered' = unanswered \ {t}
  /\ result' = IF t \in stored THEN Nothing
               ELSE [call |-> "timeout", txid |-> t, code |-> "timeout"]
  /\ UNCHANGED <<linkVars, poolVars, rejected, stored, watch, refused, written>>

----------------------------------------------------------------------------
(* The rest.                                                               *)

WatchAdd(a) ==
  /\ running
  /\ Len(watch) < MaxFilter
  /\ watch' = Append(watch, a)
  /\ result' = Nothing
  /\ UNCHANGED <<linkVars, poolVars, monitorVars, stored, sends>>

WatchRemove(a) ==
  /\ watch' = RemoveFirst(watch, a)
  /\ result' = Nothing
  /\ UNCHANGED <<linkVars, poolVars, monitorVars, stored, sends>>

ForceResetChain ==
  /\ stored' = {}
  /\ result' = Nothing
  /\ UNCHANGED <<linkVars, poolVars, monitorVars, watch, sends>>

\* The store is given a transaction; the interface itself commits none.
Commit(t) ==
  /\ stored' = stored \cup {t}
  /\ result' = Nothing
  /\ UNCHANGED <<linkVars, poolVars, monitorVars, watch, sends>>

SdkNext ==
  \/ Start \/ Stop \/ NodeDies \/ PopNext \/ ForceResetChain
  \/ \E n \in Node : SwitchPeer(n)
  \/ \E t \in SdkTxid :
       \/ \E taken \in BOOLEAN : SendRawTx(t, taken)
       \/ MarkRelayed(t) \/ RecordRejected(t) \/ Expire(t) \/ Commit(t)
  \/ \E a \in SdkAddr : WatchAdd(a) \/ WatchRemove(a)

SdkSpec == SdkInit /\ [][SdkNext]_sdkVars

----------------------------------------------------------------------------
(* Properties.                                                             *)

SdkTypeOK ==
  /\ running \in BOOLEAN /\ peer \in Node /\ conn \in Node \cup {None} /\ alive \in BOOLEAN
  /\ queue \in Seq(SdkTxid) /\ relayed \subseteq SdkTxid
  /\ sent \subseteq SdkTxid /\ rejected \subseteq sent
  /\ stored \subseteq SdkTxid
  /\ watch \in Seq(SdkAddr) /\ Len(watch) <= MaxFilter
  /\ told \in Node \cup {None} /\ unanswered \subseteq SdkTxid
  /\ refused \subseteq SdkTxid /\ written \subseteq SdkTxid

\* The pool holds no transaction twice and never more than MaxPool, however
\* submissions, overflows and broadcasts mix.
PoolIsSound == IsInjective(queue) /\ Len(queue) <= MaxPool

\* A socket that is up leads to the node the application was last told it is
\* connected to, and belongs to a client that says it is running.
ConnectedAsTold == conn # None => conn = told /\ conn = peer /\ running

\* What a socket took and was reported as sent is being watched for until it
\* is answered, through stops, switches, resets and resubmissions: it can still
\* time out.  A txid the peer has ever rejected is promised no such answer.
OpenSendIsWatched == unanswered \subseteq sent \ rejected

\* A transaction is written again only after it has left the pool or as it
\* leaves it, pushed out by itself: a submission that came twice goes out once.
SentOncePerStay ==
  [][\A t \in SdkTxid :
       (result' = [call |-> "send", txid |-> t, code |-> "ok"] /\ Contains(queue, t))
         => Len(queue) = MaxPool /\ Head(queue) = t]_sdkVars

\* "PushMessage(TX) succeeded: SEND_OK" (doc/light-node-design.md:204, "called
\* after PushMessage succeeded", light_sendmonitor.h:6).  Does not hold: the
\* result of the write is dropped.
SendOkWasWritten ==
  result.call = "send" /\ result.code = "ok" => result.txid \in written

\* "A txid that was once answered with REJECT does not start the 120-minute
\* timer" (doc/light-node-design.md:209).  Does not hold: submitted again after
\* it left the pool, the txid gets a fresh entry.
RejectedIsNotTimed == refused \cap (sent \ rejected) = {}

\* "not running: send_raw_tx still queues and returns the txid (the broadcast
\* follows once connected)" (src/tests/integration/test_phase5.cpp:23): a txid
\* returned by a connected client has been written.  Does not hold: nothing
\* takes what was queued before the start out of the pool.
QueuedGoesOut ==
  running /\ alive /\ result.call = "send" => result.txid \in written

=============================================================================
