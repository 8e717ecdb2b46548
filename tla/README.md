# MVCLight in TLA+

Specifications of the light node MVCLight (`src/src/light`, the SDK) and of the
sync client built on it (`src/demo/demo_win32.cpp`), with the TLC models that
check them and TLAPS proofs of the results that hold for every instance.
`PROJECT.json` lists components, runs, the code each definition stands for, the
hazards, findings and theorems; this file explains them.

    tlc -config MCTables.cfg MCTables            # check a model
    tlapm PendingTxProofs.tla                    # check the proofs of a module

## 1. The system

MVCLight follows the block headers of a Bitcoin-style chain from full nodes, asks
them with a Bloom filter for the transactions of some watched addresses, and
stores what comes with a merkle proof. The client has these threads: the window's
thread (buttons), the worker (`WorkerMain`, which runs `RunSyncCore` on a primary
connection), the pump of a standby connection (`StandbyPump`), and the backfill
thread, which downloads whole blocks again. They share globals: `g_pending`,
`g_store` and `g_chain` without a lock, `g_state` with one, and a few atomic
flags.

| component (code) | its state | its operations | what makes it correct |
|---|---|---|---|
| pending table (`light_pendingtx`) | entries by txid, each with one or two halves; an eviction queue | AddTx, AddMerkle, TryPair, Remove, Expire | limit kept, queue and table agree, two requests per entry and then an end |
| watch store (`light_watchstore`, LevelDB) | records and links in memory and database | Open, Close, ClearMemory, CommitTx, queries | no link without a record, memory covered by the database, readers keep the record they were shown |
| pipeline (`HandleMerkleBlock`, `HandleTxMessage`, `CommitPairedTx`, `ParseBlockAndMatch`, `RefreshTxList`) | what each thread has in hand | messages, watch buttons, restart | a pair is taken and stored, nothing undelivered is stored, the list is current |
| client threads (`WorkerMain`, `StandbyPump`, `RebuildFilter`, `WndProc`) | flags, thread handles, two connections, the filters nodes have | buttons, failover, filter reload | every join ends if the nodes let go, a pump never loses its connection, two nodes |
| peer (`light_peer`, `light_state`, `light_message`, `light_socket`) | state, socket, awaited nonce, missed pongs | connect and handshake, ping, receive, send, disconnect | ready only after a handshake on this connection, two misses close it |
| header chain (`light_chainstore`, `light_validation`, `light_checkpoints`) | headers by height and hash, work | AddHeader, AddWork, ValidateHeader, CheckCheckpoint | one line of parents and children |
| header sync (`RunSyncCore`) | chain, locator, batch and attempt counters, resume file, anchor flag | batches, refusals, resume, save, reset | one line of checked headers with true heights, an end |
| C interface (`light_api`, `light_txpool`, `light_sendmonitor`) | running, peer, pool, monitor, watch list | start, stop, switch, send, watch, reset | pool sound, what was reported is watched for, the application is told |
| SDK header synchroniser (`light_sync`) | the chain store, one answer under way | SendGetHeaders, ProcessHeaders | one line of checked headers whose work counts each once |
| connection manager (`light_connman`) | slots with a peer and a flag | AddPeer, ConnectPeer, ConnectUpTo, DisconnectPeer, PromoteToPrimary | no call but `DisconnectPeer` costs an open connection; not that a node is connected once |
| filtered blocks (`light_filter`, `light_merkle`, `RebuildFilter`) | the filter at the node, a message | insert, look up, build and extract a partial tree | what the node flags is what the client gets, nothing else is |
| targets (`light_arith_uint256`, `light_asert`) | words of a number | shifts, sums, products, quotients, compact form, ASERT | words stand for the exact number, compact forms are upstream's |
| backfill (`BackfillWorker`, its button) | running flag, threads, the lock of `g_state` | click, connect, scan, every return | the button works again |
| not modelled: codecs, embedded node, tests | | | section 8 |

Threads interact through shared objects and flags; with nodes through messages
that may be late, lost with their connection, repeated by another connection, or
in an order the code does not expect; with the disk through LevelDB (writes are
not synced) and two small files rewritten in place. What is hard: calls of several
threads on unlocked tables, flags cleared after the state they announce was read,
the end of a connection or process between two steps, and long sequences of legal
calls. `PROJECT.json` "hazards" has them at their lines.

## 2. Modules

| module | models | composed of |
|---|---|---|
| `PendingTx` | the pending table | |
| `WatchStore` | the watch store and the database | `TxArchive` (what it implements) |
| `TxArchive` | abstract: what readers of an archive see, and what is kept of it; which record of a txid wins is told below | |
| `TxPipeline` | the threads' way from message to list | instances of `PendingTx` and `WatchStore` |
| `ClientThreads` | window, worker, pump, filters | |
| `LightPeer` | one connection and the node behind it | |
| `HeaderChain` | chain store and validation, as operators; the nodes' block tree | |
| `HeaderSync` | the header loop of the client | extends `HeaderChain` |
| `LightSync` | `CLightSync` | extends `HeaderChain` |
| `LightConnMan` | `CLightConnMan` | |
| `LightSdk` | the C interface with pool and monitor | |
| `Powers` | powers of 2 | |
| `FilteredBlock` | from the watched address through filter and node to the extracted matches | extends `Powers` |
| `ArithUint` | `arith_uint256`, as operators on words | extends `Powers` |
| `Difficulty` | compact targets, ASERT, work | extends `ArithUint` |
| `Backfill` | the backfill's button and threads | |
| `PendingTxProofs`, `WatchStoreProofs`, `TxPipelineProofs`, `ClientThreadsProofs`, `LightPeerProofs`, `LightSdkProofs`, `HeaderSyncProofs`, `AlgorithmProofs` | proofs | extend their modules; `LightPeerProofs` extends `LightConnMan` too, `HeaderSyncProofs` `LightSync`; `AlgorithmProofs` is about `Difficulty` and `FilteredBlock` |
| `MCTables` | the three passive objects side by side, for TLC | extends `PendingTx`, `WatchStore` and `LightSdk` |
| `MCLibrary` | seven parts that share no state side by side, for TLC | extends `HeaderSync` (with the tree of `MCHeaderSync`), `LightPeer`, `LightConnMan`, `LightSync`, `Difficulty` and `FilteredBlock`, an instance of `Backfill` |
| other `MC...` | instances for TLC | |

Definitions carry the names of the code. A definition whose comment says *Mutant*
is a deliberately wrong form of the next one and is used by no specification;
`PROJECT.json` pairs it with the property that notices it.

**PendingTx.** `map` and `fifo` are `m_map` and `m_fifo`. Each public call is an
action; `Expire` calls back into its user between two loops, so it is a scan
(`due`) and one visit per entry. `Erase` and `EnforceFifo` are the code's,
including the `pop_front` that follows an `Erase` which has already taken the
front. Of `Expire` the tree has no caller but tests: what is said of it here is
said of the class, under any caller. On an empty deque that is undefined: `broken`
records it and the table is then no longer called, which is why this model may
stop (`CHECK_DEADLOCK FALSE`). Time is the age of an entry, counted up to
`PairTimeout`, beyond which nothing changes; `asked` is history.

**WatchStore.** `txs` and `index` are the maps in memory, `db` what a read of
LevelDB returns, `disk` what a power failure leaves of it. LevelDB itself is
external: a batch is atomic, `Flush` makes what was written stable at any time,
`PowerFailure` falls back to `disk`, `ProcessCrash` keeps `db`. Key and record
formats are abstracted, a record is a value. What the store implements,
`TxArchive`, is weaker than first-record-wins, and says how much: of the records
given for a txid, readers keep the first until they forget (`ClearMemory`, a
restart); what is kept in the database follows what readers see, so that the first
commit of a txid which readers do not see replaces the record kept for it.

**TxPipeline.** `th[x]` holds the locals of a thread's handler and where it is.
Each call of `g_pending` and each access of `CommitTx` to memory or database is
one step: calls of different threads interleave between these points. (That two
unlocked calls run *at once* is undefined behaviour in C++; a call here is atomic.
The model shows what goes wrong, or not, even with a lock in each call.) `proven`,
`relayed`, `scanned` record what the network delivered, `gone` what the last step
gave up for a reason a user would accept: evicted, nobody watching, write error,
process death. Blocks are the (hash, height) pairs a thread may attach, because an
unknown header gets height tip + 1. `ScanBlock` takes the block asked for and the
block sent apart, because the code does not compare them, and the backfill handles
a merkleblock that comes for an answer.

**ClientThreads.** `pc` is the worker's place in `WorkerMain`, `RunSyncCore` and
`RebuildFilter`; a step lies between two accesses to what another thread writes.
`watch` and `dirty` change in two steps of the window, as in the code. A
connection is its node, whether its socket is open, and the filter the node was
last sent. A `std::thread` assigned to while it still holds one ends the program
(`ui = "terminated"`): the window's second Connect does that, since only
`WM_DESTROY` joins. Watch addresses are taken to be of the one supported kind and
few enough for one filter. `held` names the threads that a node keeps in a call, a
handshake or a send: `CallBlocks` and `CallReturns` at every such call.

**LightPeer.** `pc` is the place in `ConnectAndHandshake`, whose reads block; all
other calls are steps. The node's side (`inbox`, what it `said`, pings it owes
answers to) is external. `heard`, `mine` and `silent` record what this connection
has seen. A receive timeout closes the socket (`ReadMessage` does).

**HeaderChain, HeaderSync.** Headers are values with a parent, time, work and what
its checks find. `Branches` are the block tree the nodes know. Whether a hash is
below the header's *own* target (`Good`) and whether nBits is the one the rules
give (`Expected`) are two things: the client looks at the first only. `chain` is
the local of `RunSyncCore`, `gchain` the copy for other threads, `file` the saved
tip, `net` the branch of the full node, which moves. `Answers` is what a full node
sends for a locator: what follows it on its branch, else from block 1; the branch
may be any, one with headers against the rules included. A batch that is refused
in its middle, by a check or by its transaction count (`k` of `ReadHeaders`),
leaves the headers before. `held` is as in `ClientThreads`. Height 0 of the client
is therefore block 1: `HeightsAgree` states that all stages count in this way.

**LightSync.** The loop of `ProcessHeaders` is a recursive function over an answer
(`ProcessAll`), from the height its caller gives. Answers are those of nodes on
any branch and any two headers. The nBits `GetNextASERTBits` expects (`Expected`)
is a property of the header.

**LightConnMan.** A slot's peer is only up or down here; it goes down by itself,
and the slot's flag does not follow (`light_connman.cpp:22`). `AddPeer` does not
look for the host: a node may be in several slots, and be connected in each.

**LightSdk.** One action per exported call that changes state and per operation of
pool and monitor. `told` is what the application was told of its connection;
`written` is what a socket took, `unanswered` what of it was reported as sent and
has had no answer, `refused` what the peer has ever rejected.

**FilteredBlock.** Hashes are terms (a hash of a pair is the pair), filter bits a
constant `BitsOf` that may let elements collide. The node's side,
`IsRelevantAndUpdate` and `CPartialMerkleTree`'s builder, is read from the
vendored node and external; `Corrupt` damages a message in one place on its way.
Each recursion of the code is a recursive function of the height, so that it can
be proved about: `Traverse` gives for a node, and the bits and hashes used before
it (`Cursor`), what the code's counters, `fBad` and `vMatch` hold after it.
`Extract` has the code's last test (`light_merkle.cpp:180`) with its two
divisions.

**ArithUint, Difficulty.** A word is four bytes of `ByteBits` bits, a number
`Limbs` words; loops over words are recursive functions. `*=`, `+=` and `-=` are
one loop, `Carried`: the code's borrow is a carry of -1. `Pow2` (`Powers`) is a
recursive function because the provers know nothing of `2 ^ n`. `reg` goes through
any operations, `val` is the same in exact integers modulo `2^Size`. The cubic of
ASERT is a table `Factor`, of which its range is used.

**Backfill.** `mu` names who holds `g_state.mu` beyond one step. `AppendLog` under
that lock (`demo_win32.cpp:970`) locks it twice, undefined for `std::mutex`: here
the thread waits for itself. `gchain` changes between any two reads; `held` is as
in `ClientThreads`.

**MCTables, MCLibrary.** `part` says which part a behaviour is of. The parts share
no variable, so that nothing is lost by not interleaving them.

## 3. Runs

Distinct states in parentheses.

| run | shows |
|---|---|
| `tables` (720,214) | every sequence of calls of three objects. Pending table: `MapBounded`, `FifoTracksLive`, `RetryBudget`, `GiveUpAfterRetries`. Watch store, with crashes and power failures between any two calls: `IndexRefersToTx`, `MemoryIsDurable`, `ShownRecordKept`, and the refinement `ArchiveSpec`. C interface: `PoolIsSound`, `ConnectedAsTold`, `OpenSendIsWatched`, `SentOncePerStay` |
| `pipeline` (633,790) | `NoStrandedPair`, `StoredWasDelivered`, `IndexRefersToTx`, `ListIsFresh`, and `PairIsStored` with the fairness of section 6 |
| `client` (523,228) | `PumpIsOwned`, `TwoNodes`; every wait ends that no node draws out: `StopEndsWorker`, `FailoverProceeds`; no deadlock |
| `library` (126,077) | header sync: `ChainIsSound`, `HeightsAgree`, `NewSegmentChecked`, `HeaderPhaseEnds`; peer: `ReadyAfterHandshake`, `AwaitsOwnPong`, `TwoMissesClose`, `HandshakeSettles`; connection manager: `OpenIsKept`; SDK synchroniser: `StoreIsOneLine`; targets: `ArithAgrees`; filtered blocks: `MatchesAreOfBlock`, `HonestByteAccepted`; backfill: `ButtonComesBack` |

With `PendingTypeOK`, `StoreTypeOK`, `PeerTypeOK` and `TypeOK` for the types.

Eight runs end in a violation: the code does otherwise than a document, comment or
test says.

| run | what it finds |
|---|---|
| `pending_fifo` | `EnforceFifo` drops two queue slots per eviction (`light_pendingtx.cpp:18`): an entry without a slot outlives younger ones |
| `client_filter` | an added address is lost for the filter when it comes between `RebuildFilter`'s read of the list and its clearing of the flag, or when the throttle clears the flag |
| `filter_match` | the filter is made of whole output scripts, the node looks up what they push: payments to watched addresses are not matched |
| `proof_size` | `ExtractMatches` compares bits with bytes: an honest proof of more than 8 flags is refused |
| `compact_bits` | `GetCompact` keeps the wrong bytes of a target: its nBits are not upstream's |
| `conn_count` | `ConnectUpTo` returns more connections than there are: a slot that lost its connection keeps its flag (`light_connman.cpp:22`), is not connected again and is counted, against `light_connman.h:31` and `:39`. Nor is there a call of the class that would connect it again in the background (`src/README.md:56`) |
| `reorg` | a longer branch that forks near the tip and keeps all rules is an error, in this and every later session: the only locator is the tip, and an answer from block 1 does not link to it. The design (`light-node-design.md:229`, `:322`) has reorganisations of up to 144 blocks followed |
| `new_segment` | above the checkpoint the client takes a header whose nBits is not the one the rules give, as long as its hash is below the target it names: neither `nBits == GetNextWorkRequired` nor powLimit is checked (`light-node-design.md:243`, `:244`, `:249`) |

Some properties say less than one may read into them. `NewSegmentChecked` is about
what `ValidateHeader` does ask above the checkpoint: the hash under the header's
own target, version, time and median time past, the median of the session's own
headers, of which a resumed session has at first one. What it does not ask is
`new_segment`. `StoredWasDelivered` says of the backfill that a block message was
taken for the answer to the request, not that it was that block (section 4).
`OpenSendIsWatched` is about sends the socket took, of txids never rejected; what
the design says of the others fails (section 4). `ConnectedAsTold` has one
direction: after a failed `switch_peer` or a failed send the application is not
told that the connection is gone. `SentOncePerStay` has the exception of a full
pool, which drops its oldest txid before it looks for the duplicate and may
thereby drop the duplicate's own entry. `FailoverProceeds` says the worker is back
at its loop, not that the standby was promoted, nor at once as `src/README.md:56`
has it: the worker joins the pump first, and the pump's receive timeout of a
second closes a quiet standby. `StopEndsWorker`, `FailoverProceeds`,
`HeaderPhaseEnds` and `ButtonComesBack` make an exception of nodes that never let
a thread out of a call (section 6), and the last also of unsupported addresses,
with which the backfill may hold the lock for good.

## 4. Statements that fail, without a run of their own

The first seven are definitions of their modules, marked as not holding; each was
refuted by TLC.

- `AnchoredMeansVerified` (`HeaderSync`): "[ANCHORED]" means that the chain
  contains the checkpoint. A chain that failed the checkpoint is saved, and a
  session that resumes above the checkpoint sets the flag (`demo_win32.cpp:635`).
- `QueuedGoesOut` (`LightSdk`): `test_phase5.cpp:23` says that a transaction
  queued while stopped follows once connected. Nothing takes it out of the pool
  then, and submitted again it counts as a duplicate.
- `FirstRecordWins` (`WatchStore`): "INSERT OR IGNORE tx_store"
  (`light_watchstore.h:47`, `light-node-design.md:679`): a commit never replaces
  the record the database has. `mvc_light_force_reset_chain` calls `ClearMemory`
  on an open database (`light_api.cpp:255`); the next commit of the txid finds no
  record in memory, which is all `CommitTx` looks at, and puts its own over the
  one in LevelDB.
- `DurableRecordKept` (`TxPipeline`): the same line of `light_watchstore.h`. Two
  threads that commit one txid both look into memory before either writes; the
  second replaces the first one's record in the database. Within one thread a
  record shown stays, which is `ShownRecordKept`.
- `RecordedInItsBlock` (`TxPipeline`): a transaction is stored with a block that
  contains it. `ParseBlockAndMatch` skips the 80 bytes of the header
  (`demo_win32.cpp:541`) and is given the hash and height the thread asked for: a
  late block of an earlier request, or any other, is committed under them. No
  proof is asked for either.
- `SendOkWasWritten` (`LightSdk`): SEND_OK is reported when the push has succeeded
  (`light-node-design.md:204`, `light_sendmonitor.h:6`). `mvc_light_send_raw_tx`
  drops the result of `SendMessage` (`light_api.cpp:236`).
- `RejectedIsNotTimed` (`LightSdk`): a txid that was ever rejected starts no timer
  (`light-node-design.md:209`). Submitted again after it left the pool it gets a
  fresh entry (`light_sendmonitor.cpp:5`), which can time out.
- The anchor of ASERT: `light_checkpoints.cpp:17` and `test_mainnet_sync.cpp:27`
  (and `:171`) call the client's height 21256 the height of mainnet's ASERT
  anchor. Client heights are one less than heights in the chain (`HeightsAgree`),
  so that it is another block: its nBits is 0x18366875, that of the anchor
  0x1836845b (`light_asert.h:18`). No run can show it, since both are constants.
  The checkpoint is sound as one, because it was made by the same count; targets
  that `GetNextASERTBits` gives for heights of this count are off by one block's
  spacing.
- A `verack` that comes before `version` is dropped and a second one awaited
  (`light_peer.cpp:155`). A full node sends its `version` first.
- `kBloomUpdateAll` is 2 (`light_filter.h:25`), which the node reads as
  `BLOOM_UPDATE_P2PUBKEY_ONLY`: matched outputs of other kinds are not added to
  the filter, and spends of them not matched. It follows from the constant alone.
- The count of missed pongs survives `Disconnect` (`light_peer.cpp:224`): one miss
  on a new connection may close it. `TwoMissesClose` does not forbid it.

## 5. Bounds, and why they are enough

- `tables`, pending table: five txids over a table of two, so that the queue can
  lose slots, run empty under a full table, and be filled by several generations;
  `MaxRetry = 3` is the code's; one tick is the timeout. Txids are symmetric.
- `tables`, watch store: two of each. A commit touches one address, one txid and
  one record; the second ones tell "kept" from "overwritten".
- `pipeline`: one transaction that three threads get from deliveries of two
  blocks, its own and another; the backfill asks for the other, so that what it
  commits may be the wrong one. Losing, doubling or overwriting a record concerns
  one txid. What one txid does to another is eviction, which this instance lacks:
  `tables` covers it one call after another. There is one address: that a commit
  goes over several, and what a failed write of one of them leaves, is covered by
  the proofs (section 7) alone. An earlier form of this model (no wrong blocks)
  had its safety properties checked once on two txids with a table of one and two
  connections (739,038 states); it is not a run.
- `client`: three nodes, so that the successor of the standby's node is a third
  one; two addresses, so that a filter may have one and miss the other; a throttle
  of one tick: refused or allowed is all it decides. Nodes fail or answer at every
  point.
- `library`, peer: two nonces, an old and a new ping; two messages under way; a
  pong is late after one tick.
- `library`, targets: 12-bit numbers, three words of four bits, so that shifts
  cross one word and two, carries run through a middle word, and products and
  shifts overflow; operands include the largest word; times and heights put
  ASERT's exponent below zero, at the shift's overflow and beyond both limits.
- `library`, filtered blocks: up to five transactions, three levels with one and
  with two odd widths, any set of them flagged through colliding filter bits;
  proofs of one byte and of two; one damage per proof by TLC; the proofs (section
  7) hold for blocks of any size, and the lemma under `MatchesAreOfBlock` for any
  message, however often it was damaged.
- `library`, header sync, and `reorg`, `new_segment`: batches of at most two over
  branches of up to seven blocks (sixteen in all), so that answers are full, short
  and empty, and forks lie below and above the checkpoint, with one header that
  fails by itself, one with wrong nBits and one too old for the median; three
  batches and two attempts stand for 1,024 and 60, and `MaxReorg = 2` for 144.
- `library`, synchroniser: the same tree, so that batches straddle the checkpoint.
- `library`, connection manager: three hosts in three slots (`MaxSlots`), also one
  host in several; at most one or two to connect.
- `library`, backfill: two threads (two clicks), two blocks, two reads each, an
  empty chain, a whole one and one that a resumed session starts from.
- `tables`, C interface: three txids, a pool of two, two nodes, one address; at
  most one transaction in its store, and a watched address only without one
  (`FewStored`): neither has a part in what pool and monitor do. The proofs have
  no such bounds.

Every bound is a CONSTANT of its module, and every one that stands for a limit of
the code has that limit's role in the code's own test.

## 6. Fairness

- `TxPipeline`: `WF(Handle(x))` for each thread. A thread with a message in hand
  makes no call that waits for anybody: it is scheduled until it is done. Nothing
  is assumed about deliveries or restarts.
- `HeaderSync`: `SF(HeaderStep /\ ~held)`. A read comes back with a message or by
  the socket's receive timeout. What comes is an answer of a full node of some
  branch, whole or with a transaction count where none may be, or another message.
- `ClientThreads`: `SF` of the worker's steps without those where a node fails,
  and of the pump's steps, each for a thread that is not held. The header phase
  ends by `HeaderPhaseEnds`.
- `Backfill`: `SF(ThreadStep(w))`, likewise. Nothing is assumed about the window.
- `PendingTx`, `WatchStore`, `LightPeer`, `LightSdk` and the other classes of
  `library` are passive objects: no fairness, no liveness claims.

What the code guarantees is a receive timeout (`light_socket.cpp` sets
`SO_RCVTIMEO`, no `SO_SNDTIMEO`). Two things have no end of their own:
`DoHandshake` reads on as long as a node sends other messages
(`light_peer.cpp:145`, `:175`), and `SendAll` blocks as long as a node does not
read. In both the thread is `held`, from any such call on, for as long as the node
likes, and nothing is assumed about its letting go. The liveness properties
therefore are disjunctions: a node keeps a thread in a call for good (`<>[]`), or
what is waited for comes. Strong fairness is for the rest: a thread that is held
and released over and over gets on, since a step of the model has only a few calls
in it and each release is the return of one.

## 7. Proofs

Assumptions are the named `ASSUME`s of the modules, which TLC evaluates in each
run: limits are natural numbers, positive where the code has constants that are;
the values for "none" are no proper values; `Txid` is finite in `PendingTx`
(cardinalities), and there are at least two nodes in `ClientThreads`. Threads that
read connections and backfill threads are different ones in `TxPipeline`, and a
merkle block is only handled with matches. `TreeAssumption` says of the blocks of
the network that they are a tree: branches start at one genesis block, each block
of a branch names the one below as its parent, and none comes twice in a branch,
since a block holds the hash of its parent. Headers a node makes up are not bound
by it. The assumptions of `Difficulty` and `FilteredBlock` are with their proofs
below.

**PendingTxProofs**: `TypeCorrect`, `TableBounded`, `QueueTracksTable`,
`ExpireBudget`, `ExpireGivesUpLast`. The inductive invariant adds `DueIsLive` to
the checked ones: between the two loops of `Expire` the entries still to be
visited are live and incomplete, without which the count of requests would not
survive a visit. `TableBounded` needs the queue in step with the table for one
reason only: an insertion over the limit finds its own slot at the back, so that
there is a slot to evict and one eviction suffices.

**WatchStoreProofs**: `TypeCorrect`, `LinksNeverDangle`, `MemoryIsCovered`,
`ShownRecordStays`, `StoreImplementsArchive`. A commit of a known txid writes its
link without a record: that the link does not dangle needs `MemoryIsDurable` (the
database has what memory shows), and after a power failure `DiskLags` (stable
storage holds no link the database lacks). The refinement maps what readers see to
memory and what a restart gives back to the database, step by step; it shows the
archive `TxArchive` describes, not that the first record wins in the database.

**ClientThreadsProofs**: `TypeCorrect`, `PumpOwnership`, `StandbyIsAnother`.
`Places` says which connections the worker holds at which point and where a pump
may exist; `IdxTracks` that `idx` is the primary's node before the standby is
settled and the standby's after it. The successor of an index in a list of at
least two is another one, so the two nodes differ, and stay so through a
promotion, which turns the second fact into the first.

**TxPipelineProofs**: `PairsAreTaken`, `OnlyDeliveredIsStored`,
`LinksNeverDangle`, `ListStaysFresh`, for any number of threads. `HalvesArrived`
and `ThreadsSound` carry what was delivered from the message through the table and
the locals of a handler to the record, with a block message counted for the block
that was asked for. Links need what a thread knows between the two halves of
`CommitTx`: whoever decided to leave the record out of its batch saw it in memory,
and `MemoryHasRecord` says that an open database has a record then, though perhaps
another thread's; the step of one thread never takes such knowledge from another,
because records are replaced but not removed. `ListInv` says the list is behind
only while a thread is between the copy of the watch list and the refresh. That a
call of the table only adds its own entry and removes others suffices; nothing
about the queue is needed.

**LightPeerProofs**: `TypeCorrect`, `HandshakeFirst`, `PongIsOwn`,
`TwoMissesDisconnect`, `HandshakeResult`, `OpenConnectionsStay`. `Handshaking`
says what has been heard at each place in `ConnectAndHandshake`, and that no other
call sees a state in between; `CounterLeads` that the counter of missed pongs is
never below the misses of this connection, whatever it brought along.
`OpenConnectionsStay` is about the connection manager, for any hosts, several
slots of one included: every open connection has its flag (`ConnsInv`), so that
`ConnectPeer`, and the loop of `ConnectUpTo` over it, leave it alone, and a
promotion carries both to the other slot.

**LightSdkProofs**: `PoolStaysSound`, `ApplicationWasTold`, `SendsAreWatched`,
`WrittenOncePerStay`. Three independent invariants; the lemmas say what the pool
is after a push, a pop and an overflow. That a write is the only one of a stay
follows from the pool being free of duplicates.

**HeaderSyncProofs**: `TypeCorrect`, `ChainStaysSound`, `HeightsStayTrue`,
`NewSegmentIsChecked`, `SavedTipExtends`, and for the SDK's synchroniser
`SdkStoreIsOneLine`. That each kept header is the child of the one below is not
inductive by itself: answers come from branches that change, and a session may
start from a header whose parents it does not have. The invariant (`Line`)
therefore says that all kept headers lie on *one* branch of the tree, the header
of height n as block n + 2; that the maps by height and by hash are each other's
inverse; and of the headers above the checkpoint that they pass what
`ValidateHeader` asks there (`Good`, and younger than the median before them). A
median stays what it was when the chain grows above it (`MedianStays`), without
which `NewSegmentIsChecked` would speak of a header's first moment only.
`LocatorIsTip` makes the next answer go on where the chain ends, so that a header
which passes the test of its link puts the chain on the answer's branch
(`LineGrows`): on two branches, blocks of equal depth with equal parents lie on
equal lines (`SameDepth`). `FileStands` says the same of the saved tip, and
`ResumedFrom` keeps the header a session was resumed from below its tip, which is
what `SavedTipExtends` needs: the saved tip only moves to its descendants, no
virtue but the reason why `reorg` fails for every tree. What an answer does is an
induction over its headers: `NatSetInduction` gets induction for *sets* of
naturals from the library's `WFMin`, and recursive functions are shown to exist by
it before they are used.

**AlgorithmProofs**, of `Difficulty`: `ArithmeticIsExact`, for words of any number
of bits and numbers of any number of words. The inductive invariant `Exact` is
`ArithAgrees` with the types, `IsNumber(reg, val)`; the work is in one lemma per
operation (`AddIs`, `SubIs`, `MulIs`, `ShlIs`, `ShrIs`, `DivisionIs`, `CompactIs`,
`AsertIs`, ...), each of which says what integer the words of its result stand
for. A number is given by its digits, which are slices of its bits
(`NumberDigits`), so that a shift is shown digit by digit; a sum, difference or
product is a weighted sum of integers that the carry loop leaves as it is, but for
what leaves the highest word (`CarriedIs`). The long division keeps `Divides`:
after n bits, the bits of the dividend seen so far are the divisor times the
quotient so far plus a remainder below the divisor; the remainder doubled does not
overflow, because it is at most what has been seen. `BlockProofIs` gets 2^Size /
(target + 1) from the quotient that fits into words, and `AsertIs` shows that
shifting back finds every overflow. The powers, remainders and recursive functions
this needs are lemmas at the beginning, from induction over sets.

The assumptions: `ArithUintAssumption` (there are words and bits),
`OperandsAssumption` (operands, nBits, heights and times have the ranges of the
code's types, and the half-life is not 0) and `TargetsAssumption`: the
proof-of-work limit is a target, and the anchor's target times the factor does not
overflow. In the code (`light_asert.h:18`) the anchor `0x1836845b` is below 2^192
and the factor below 2^17. With an anchor of 2^240 the product in `CalculateASERT`
would wrap around before any test.

**AlgorithmProofs**, of `FilteredBlock`: `ProofsShowTheBlock`,
`ShortProofsAreAccepted`, `LongProofsAreRejected`, for blocks of any size, any
filter and any bits in a byte.

- The recursions are shown to be what their definitions say (`CalcHashIs`,
  `BuildIs`, `VisitIs`, `RelevantIs`), by an induction that needs a set the values
  stay in: hashes are in one closed under pairs (`ClosedUnderPairs`).
- Widths halve from level to level while nothing overflows (`WidthIs`,
  `WidthHalves`), which relates the `nTransactions` of the message to the levels
  of `ComputeMerkleRoot`: its root is the hash of the top node (`RootIs`), also
  where a level is odd and its last hash is doubled.
- A hash has one place at a height (`OnePlace`). What the client finds under a
  hash of the tree therefore lies under the place of that hash, in order and
  without repetition (`FoundPlaced`, by induction over the height from which the
  client takes the hash, whatever the message claims its count is). This needs
  `fBad` for equal halves: without it, a last hash could stand for two places.
  `AcceptedOfBlock` says it of every message with hashes, bits and the block's
  root.
- The client's walk through the node's message follows the node's (`FollowedAll`):
  at a node of the tree, given what the node wrote of it at this place, it uses up
  exactly that, finds the hash, and gives the relevant transactions below it
  (`upTo`, the relevant ones up to a transaction, grows by them). At the root that
  is the whole message. Whether it is accepted then depends on the last test only
  (`HonestOutcome`): the number of bytes is divided by eight once more, which
  leaves 1 as it is and makes every other number smaller (`DividedTwice`).

The inductive invariant `FilteredInv` says that a message has the root of the
block asked for, is the node's where nothing happened to it, and that the result
was extracted from it. `FilteredAssumption` has the ranges of the code's types,
and that three times the transactions of a block are at most 2^32 (`CountBase`),
with which no width of a block's tree overflows; a block has far fewer. The
`nTransactions` of a damaged message is any number, and its widths may overflow.

Only model-checked: all liveness, with its fairness and ENABLED. The properties of
the eight runs that expect a violation do not hold; of those, what
`HonestProofAccepted` asks is proved for one byte of flags and refuted for more
(`LongProofsAreRejected`).

## 8. Not modelled

- JSON and wire formats, SHA-256 and MurmurHash3, logging and layout, the window's
  drawing: formats and wording, without state of their own. The codecs
  (`light_tx.cpp`, `light_header.cpp`) appear as messages that parse or do not.
- `CLightNodeCore` starts and stops the vendored full node; what it does is the
  vendored code's. Tests and build files are read, not modelled.
- The Reset button while other threads are inside the store uses a deleted LevelDB
  handle: undefined at once. Reset during a header sync is modelled.
- What a data race inside one call does. A call of a shared table is one step.
- The wait of the getheaders throttle, which takes time only, and
  `NextRetryDelayMs` and the limit for getheaders of the peer policy, which only
  tests call.
- The loop of `ProcessHeaders` that drops other messages has no bound
  (`light_sync.cpp:97`): a node may hold it for as long as it sends, and nothing
  in the code justifies excluding that. No liveness is claimed there.
