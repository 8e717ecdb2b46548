----------------------------- MODULE TxPipeline -----------------------------
(***************************************************************************)
(* How a matched transaction travels through the sync client               *)
(* (src/demo/demo_win32.cpp): the worker and the standby pump read         *)
(* merkleblock and tx messages from their own connections, both pair them  *)
(* in the one g_pending and commit the pairs to the one g_store, while the *)
(* backfill thread commits what it finds in whole blocks, or pairs what a  *)
(* merkleblock sent instead of one has, and the UI thread edits the watch  *)
(* list.  Only g_state has a lock.                                         *)
(*                                                                         *)
(* Each call of g_pending and each access of CommitTx to memory or LevelDB *)
(* is one step; the steps of the threads interleave.                       *)
(***************************************************************************)
EXTENDS Integers, FiniteSets, SequencesExt

CONSTANTS
  Conn,        \* threads that read a connection: worker and standby pump
  Backfill,    \* threads that scan whole blocks
  Addr, Txid,
  Block,       \* <<hash, height>> pairs a thread can attach to a transaction
  Matches,     \* the matched txids of a block, in block order
  Offers,      \* the blocks a thread may be sent a merkleblock of, a bound of the
               \* model; a block message may be any block
  Wanted,      \* the blocks the backfill threads ask for
  NoBlock, NoEntry, MaxPending

Thread == Conn \cup Backfill

ASSUME PipelineAssumption ==
  /\ Conn \cap Backfill = {}
  /\ NoBlock \notin Block
  /\ Matches \in [Block -> Seq(Txid)]
  /\ Offers \in [Thread -> SUBSET Block]
  /\ Wanted \subseteq Block

VARIABLES
  map, fifo, broken,       \* g_pending
  open, txs, index, db,    \* g_store
  watch,    \* g_state.watch_addresses
  listed,   \* g_state.txs: the <<txid, record>> pairs the window lists
  th,       \* thread -> what it is doing
  proven, relayed, scanned,  \* history: what the network has delivered:
            \* matches of merkleblocks, tx messages, and matches of block
            \* messages with the block that was asked for
  current,  \* history: the addresses the last RefreshTxList listed
  gone      \* history: txids the last step gave up: evicted from the table,
            \* watched by nobody, not written, in flight when the process died

pendingState == <<map, fifo, broken>>
storeState == <<open, txs, index, db>>
window == <<watch, listed, current>>
delivered == <<proven, relayed, scanned>>
vars == <<pendingState, storeState, window, th, delivered, gone>>

P == INSTANCE PendingTx
       WITH PairTimeout <- 0, MaxRetry <- 1, due <- {}, asked <- [t \in Txid |-> 0]

S == INSTANCE WatchStore
       WITH StoreTxid <- Txid, Record <- Block, NoRecord <- NoBlock, diskFull <- FALSE, disk <- db

Idle == [pc |-> "idle"]

FirstStep == [merkleblock |-> "merkle", tx |-> "tx", block |-> "snapshot"]

\* A thread inside the handler of a message: the txid in hand, those still to
\* come and the block they come with, and once it commits the record, the
\* addresses left and what HasTx said.
Busy(message, t, todo, b) ==
  [message |-> message, pc |-> FirstStep[message],
   txid |-> t, todo |-> todo, block |-> b,
   rec |-> b, addrs |-> {}, known |-> FALSE]

NothingGone == gone' = {}

Goto(x, w) == th' = [th EXCEPT ![x] = w]

Step(x, pc) == Goto(x, [th[x] EXCEPT !.pc = pc])

\* Where a thread goes when it is done with the txid in hand.
NextTxid(x) ==
  IF th[x].todo = <<>> THEN Idle
  ELSE Busy(th[x].message, Head(th[x].todo), Tail(th[x].todo), th[x].block)

Listing(recs, links, addrs) ==
  {<<t, recs[t]>> : t \in {u \in Txid :
      recs[u] # NoBlock /\ \E a \in addrs : <<a, u>> \in links}}

Init ==
  /\ P!PendingInit
  /\ open \in BOOLEAN
  /\ txs = S!EmptyRecords /\ index = {} /\ db = S!EmptyDb
  /\ watch \in SUBSET Addr
  /\ listed = {} /\ current = watch
  /\ th = [x \in Thread |-> Idle]
  /\ proven = {} /\ relayed = {} /\ scanned = {} /\ gone = {}

----------------------------------------------------------------------------
(* HandleMerkleBlock, HandleTxMessage and ParseBlockAndMatch.              *)

\* A merkleblock whose partial tree checks out.  The height in b is the
\* chain's for a known header and tip + 1 otherwise: one hash may come with
\* different heights on different threads.
RecvMerkle(x, b) ==
  /\ th[x] = Idle
  /\ b \in Offers[x] /\ Matches[b] # <<>>
  /\ Goto(x, Busy("merkleblock", Head(Matches[b]), Tail(Matches[b]), b))
  /\ proven' = proven \cup {<<t, b>> : t \in ToSet(Matches[b])}
  /\ NothingGone
  /\ UNCHANGED <<pendingState, storeState, window, relayed, scanned>>

RecvTx(x, t) ==
  /\ th[x] = Idle
  /\ Goto(x, Busy("tx", t, <<>>, NoBlock))
  /\ relayed' = relayed \cup {t}
  /\ NothingGone
  /\ UNCHANGED <<pendingState, storeState, window, proven, scanned>>

\* A block message with outputs to watched addresses, while the thread waits
\* for the block it asked for.  The header in the message is skipped: whatever
\* was sent, its matches are committed with the hash and height asked for.
ScanBlock(x, asked, sent) ==
  /\ th[x] = Idle
  /\ Matches[sent] # <<>>
  /\ Goto(x, Busy("block", Head(Matches[sent]), Tail(Matches[sent]), asked))
  /\ scanned' = scanned \cup {<<t, asked>> : t \in ToSet(Matches[sent])}
  /\ NothingGone
  /\ UNCHANGED <<pendingState, storeState, window, proven, relayed>>

CallAddMerkle(x) ==
  /\ th[x].pc = "merkle"
  /\ P!AddMerkle(th[x].txid, th[x].block)
  /\ Step(x, "pair")
  /\ gone' = P!Keys(map) \ P!Keys(map')
  /\ UNCHANGED <<storeState, window, delivered>>

\* Mutant: only merkleblocks try to pair.
CallAddTxOnly(x) ==
  /\ th[x].pc = "tx"
  /\ P!AddTx(th[x].txid)
  /\ Goto(x, Idle)
  /\ gone' = P!Keys(map) \ P!Keys(map')
  /\ UNCHANGED <<storeState, window, delivered>>

CallAddTx(x) ==
  /\ th[x].pc = "tx"
  /\ P!AddTx(th[x].txid)
  /\ Step(x, "pair")
  /\ gone' = P!Keys(map) \ P!Keys(map')
  /\ UNCHANGED <<storeState, window, delivered>>

\* Mutant: the pair that was taken out of the table is dropped.
CallTryPairDrops(x) ==
  /\ th[x].pc = "pair"
  /\ P!TryPair(th[x].txid)
  /\ Goto(x, NextTxid(x))
  /\ NothingGone
  /\ UNCHANGED <<storeState, window, delivered>>

\* The entry TryPair returns holds the block of the latest merkleblock,
\* whichever thread added it.
CallTryPair(x) ==
  LET t == th[x].txid IN
  /\ th[x].pc = "pair"
  /\ P!TryPair(t)
  /\ Goto(x, IF P!CanPair(t)
               THEN [th[x] EXCEPT !.pc = "snapshot", !.rec = map[t].block]
               ELSE NextTxid(x))
  /\ NothingGone
  /\ UNCHANGED <<storeState, window, delivered>>

----------------------------------------------------------------------------
(* CommitPairedTx and CommitBackfillTx, and CommitTx inside them.          *)

\* The watch list is copied under the lock; nobody watching ends the commit.
CopyWatchList(x) ==
  /\ th[x].pc = "snapshot"
  /\ IF watch = {}
       THEN /\ Goto(x, NextTxid(x))
            /\ gone' = {th[x].txid}
       ELSE /\ Goto(x, [th[x] EXCEPT !.pc = "look", !.addrs = watch])
            /\ NothingGone
  /\ UNCHANGED <<pendingState, storeState, window, delivered>>

AddrInHand(x) == CHOOSE a \in th[x].addrs : TRUE

NextAddr(x) ==
  LET rest == th[x].addrs \ {AddrInHand(x)}
  IN  [th[x] EXCEPT !.addrs = rest, !.pc = IF rest = {} THEN "refresh" ELSE "look"]

\* CommitTx, the record goes into the batch unless memory has one now.
LookInMemory(x) ==
  /\ th[x].pc = "look"
  /\ Goto(x, [th[x] EXCEPT !.known = S!HasTx(th[x].txid),
                           !.pc = IF open THEN "write" ELSE "emplace"])
  /\ NothingGone
  /\ UNCHANGED <<pendingState, storeState, window, delivered>>

WriteBatch(x) ==
  /\ th[x].pc = "write"
  /\ db' = S!Batch(db, th[x].known, AddrInHand(x), th[x].txid, th[x].rec)
  /\ Step(x, "emplace")
  /\ NothingGone
  /\ UNCHANGED <<pendingState, open, txs, index, window, delivered>>

\* Mutant: the error is not noticed.
WriteFailsUnnoticed(x) ==
  /\ th[x].pc = "write"
  /\ Step(x, "emplace")
  /\ gone' = {th[x].txid}
  /\ UNCHANGED <<pendingState, storeState, window, delivered>>

\* Write returns an error: CommitTx returns false, and nobody looks.
WriteFails(x) ==
  /\ th[x].pc = "write"
  /\ Goto(x, NextAddr(x))
  /\ gone' = {th[x].txid}
  /\ UNCHANGED <<pendingState, storeState, window, delivered>>

EmplaceInMemory(x) ==
  /\ th[x].pc = "emplace"
  /\ txs' = S!Emplace(txs, th[x].txid, th[x].rec)
  /\ index' = index \cup {<<AddrInHand(x), th[x].txid>>}
  /\ Goto(x, NextAddr(x))
  /\ NothingGone
  /\ UNCHANGED <<pendingState, open, db, window, delivered>>

\* RefreshTxList builds the window's list from the store, under the lock.
RefreshTxList(addrs) ==
  /\ listed' = Listing(txs, index, addrs)
  /\ current' = addrs

\* Mutant: the window is not told.
EndCommitSilent(x) ==
  /\ th[x].pc = "refresh"
  /\ Goto(x, NextTxid(x))
  /\ NothingGone
  /\ UNCHANGED <<pendingState, storeState, window, delivered>>

EndCommit(x) ==
  /\ th[x].pc = "refresh"
  /\ RefreshTxList(watch)
  /\ Goto(x, NextTxid(x))
  /\ NothingGone
  /\ UNCHANGED <<pendingState, storeState, watch, delivered>>

----------------------------------------------------------------------------
(* The window, and the process.                                            *)

\* Add leaves the list of transactions as it is.  The list of addresses is a
\* vector: an address added twice stays watched when one of the two is removed.
WatchAdd(a) ==
  /\ watch' = watch \cup {a}
  /\ NothingGone
  /\ UNCHANGED <<pendingState, storeState, listed, current, th, delivered>>

WatchRemove(a) ==
  /\ a \in watch
  /\ watch' \in {watch, watch \ {a}}
  /\ RefreshTxList(watch')
  /\ NothingGone
  /\ UNCHANGED <<pendingState, storeState, th, delivered>>

\* WorkerMain and BackfillWorker refresh the list once more as they end.
ThreadEnds ==
  /\ RefreshTxList(watch)
  /\ NothingGone
  /\ UNCHANGED <<pendingState, storeState, watch, th, delivered>>

\* txids a crash takes with it.
InFlight == P!Keys(map) \cup {th[x].txid : x \in {y \in Thread : th[y] # Idle}}

\* The process dies and is started again: WinMain loads the watch list, opens
\* the store or goes on without it, and lists what is there.  The file of the
\* watch list is rewritten after the change, errors unnoticed: it may be behind
\* or cut short.
Restart ==
  /\ map' = [t \in Txid |-> NoEntry] /\ fifo' = <<>> /\ broken' = FALSE
  /\ open' \in BOOLEAN
  /\ txs' = IF open' THEN db.rec ELSE S!EmptyRecords
  /\ index' = IF open' THEN db.link ELSE {}
  /\ watch' \in SUBSET Addr
  /\ listed' = Listing(txs', index', watch')
  /\ current' = watch'
  /\ th' = [x \in Thread |-> Idle]
  /\ gone' = InFlight
  /\ UNCHANGED <<db, delivered>>

----------------------------------------------------------------------------

\* The backfill thread drops tx messages.  To a getdata for a block it takes a
\* merkleblock for an answer too.
Deliver(x) ==
  \/ \E b \in Block : RecvMerkle(x, b)
  \/ x \in Conn /\ \E t \in Txid : RecvTx(x, t)
  \/ x \in Backfill /\ \E asked \in Wanted, sent \in Block : ScanBlock(x, asked, sent)

Handle(x) ==
  \/ CallAddMerkle(x) \/ CallAddTx(x) \/ CallTryPair(x)
  \/ CopyWatchList(x) \/ LookInMemory(x) \/ WriteBatch(x) \/ WriteFails(x)
  \/ EmplaceInMemory(x) \/ EndCommit(x)

Next ==
  \/ \E x \in Thread : Deliver(x) \/ Handle(x)
  \/ \E a \in Addr : WatchAdd(a) \/ WatchRemove(a)
  \/ ThreadEnds
  \/ Restart

\* A thread that has a message in hand is scheduled until it is done with it.
Fairness == \A x \in Thread : WF_vars(Handle(x))

Spec == Init /\ [][Next]_vars /\ Fairness

----------------------------------------------------------------------------
(* Properties.                                                             *)

TypeOK ==
  /\ P!PendingTypeOK /\ S!StoreTypeOK
  /\ watch \in SUBSET Addr /\ current \in SUBSET Addr
  /\ listed \in SUBSET (Txid \X Block)
  /\ \A x \in Thread : th[x] = Idle \/ th[x].txid \in Txid

\* Two halves never lie side by side in the table with nobody to pair them,
\* on whichever connections and in whichever order they came.
NoStrandedPair ==
  \A t \in Txid : P!CanPair(t) => \E x \in Thread : th[x].pc = "pair" /\ th[x].txid = t

\* Whatever is shown or kept for a transaction was delivered: its bytes and a
\* merkle proof for the very block in the record, or a block message taken for
\* the answer to a request for that block.
StoredWasDelivered ==
  \A t \in Txid, b \in Block :
    (txs[t] = b \/ db.rec[t] = b)
      => <<t, b>> \in scanned \/ (<<t, b>> \in proven /\ t \in relayed)

\* No link without a record, in memory or in the database, wherever the
\* threads stand in CommitTx and wherever the process dies.
IndexRefersToTx == S!IndexRefersToTx

\* With all threads between messages the window lists exactly the stored
\* transactions of the addresses it last listed.
ListIsFresh ==
  (\A x \in Thread : th[x] = Idle) => listed = Listing(txs, index, current)

\* Once both halves are in the table the transaction gets a record, unless
\* nobody watched, a write failed or the process died.
PairIsStored ==
  \A t \in Txid : P!CanPair(t) ~> (S!HasTx(t) \/ t \in gone)

\* A transaction is shown and kept with a block that contains it.  Does not
\* hold: ParseBlockAndMatch (demo_win32.cpp:532) is given the hash the thread
\* asked for and does not look whether the message is that block.
RecordedInItsBlock ==
  \A t \in Txid, b \in Block :
    (txs[t] = b \/ db.rec[t] = b) => Contains(Matches[b], t)

\* "INSERT OR IGNORE tx_store" (light_watchstore.h:47).  Does not hold: two
\* threads that commit one txid both look into memory before either writes.
DurableRecordKept ==
  [][\A t \in Txid : db.rec[t] # NoBlock => db'.rec[t] = db.rec[t]]_vars

=============================================================================
