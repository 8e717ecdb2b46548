-------------------------- MODULE TxPipelineProofs --------------------------
(***************************************************************************)
(* Proofs about the way of a transaction through the sync client, for any  *)
(* threads, transactions, blocks and addresses: complete pairs are taken,  *)
(* only what was delivered is stored, no link dangles.                     *)
(***************************************************************************)
EXTENDS TxPipeline, SequenceTheorems, TLAPS

Committing == {"snapshot", "look", "write", "emplace", "refresh"}

Work == [message : {"merkleblock", "tx", "block"},
         pc : {"merkle", "tx", "pair"} \cup Committing,
         txid : Txid, todo : Seq(Txid),
         block : Block \cup {NoBlock}, rec : Block \cup {NoBlock},
         addrs : SUBSET Addr, known : BOOLEAN]

\* The network delivered what a record of t in block b stands for.
Arrived(t, b, pr, re, sc) == <<t, b>> \in sc \/ (<<t, b>> \in pr /\ t \in re)

\* The locals w of a thread, given what was delivered, whether the store has a
\* database and its records: what is in hand was delivered, and once a thread
\* has decided on the batch the database has a record or the batch brings one.
Sound(w, pr, re, sc, op, recs) ==
  /\ w \in Work
  /\ \A i \in 1..Len(w.todo) : <<w.todo[i], w.block>> \in IF w.message = "block" THEN sc ELSE pr
  /\ w.message = "tx" => w.todo = <<>>
  /\ w.pc = "merkle" => <<w.txid, w.block>> \in pr
  /\ w.pc = "tx" => w.txid \in re
  /\ w.pc \in Committing => w.rec \in Block /\ Arrived(w.txid, w.rec, pr, re, sc)
  /\ w.pc \in {"look", "write", "emplace"} => w.addrs # {}
  /\ w.pc = "write" => op /\ (w.known => recs[w.txid] # NoBlock)
  /\ w.pc = "emplace" => (op => recs[w.txid] # NoBlock)

Types ==
  /\ map \in [Txid -> P!Entry \cup {NoEntry}]
  /\ open \in BOOLEAN /\ txs \in S!Records /\ db \in S!Database
  /\ index \in SUBSET (Addr \X Txid)
  /\ watch \in SUBSET Addr
  /\ proven \subseteq Txid \X Block /\ scanned \subseteq Txid \X Block
  /\ relayed \subseteq Txid
  /\ th = [x \in Thread |-> th[x]]

\* A half in the table was delivered, the proof for the block beside it.
HalvesArrived ==
  \A t \in Txid : map[t] # NoEntry =>
     /\ map[t].tx => t \in relayed
     /\ map[t].merkle => <<t, map[t].block>> \in proven

ThreadsSound ==
  \A x \in Thread :
    th[x] = Idle \/ Sound(th[x], proven, relayed, scanned, open, db.rec)

\* With a database open, what memory shows is in it, if not the same record.
MemoryHasRecord == open => \A t \in Txid : txs[t] # NoBlock => db.rec[t] # NoBlock

\* The inductive invariant.
IInv ==
  /\ Types /\ HalvesArrived /\ ThreadsSound /\ MemoryHasRecord
  /\ NoStrandedPair /\ StoredWasDelivered /\ IndexRefersToTx

----------------------------------------------------------------------------
(* Lemmas about the locals of the threads.                                 *)

\* A thread that goes on in its list, after a merkle block to the next match to
\* pair, after a whole block to the next to commit.
LEMMA NextSound ==
  ASSUME Types, NEW x \in Thread,
         Sound(th[x], proven, relayed, scanned, open, db.rec),
         NEW op, NEW recs
  PROVE  NextTxid(x) = Idle \/ Sound(NextTxid(x), proven, relayed, scanned, op, recs)
<1> DEFINE w == th[x]
           d == IF w.message = "block" THEN scanned ELSE proven
           v == Busy(w.message, Head(w.todo), Tail(w.todo), w.block)
<1>1. /\ w \in Work /\ w.todo \in Seq(Txid)
      /\ \A i \in 1..Len(w.todo) : <<w.todo[i], w.block>> \in d
      /\ d \subseteq Txid \X Block
  BY DEF Sound, Work, Types
<1> HIDE DEF w
<1>2. CASE w.todo = <<>>
  BY <1>2 DEF NextTxid, w
<1>3. CASE w.todo # <<>>
  <2>1. /\ Len(w.todo) \in Nat \ {0}
        /\ Head(w.todo) = w.todo[1] /\ Tail(w.todo) \in Seq(Txid)
        /\ Len(Tail(w.todo)) = Len(w.todo) - 1
        /\ \A i \in 1..Len(Tail(w.todo)) : Tail(w.todo)[i] = w.todo[i + 1]
    BY <1>1, <1>3
  <2>2. <<Head(w.todo), w.block>> \in d
    BY <1>1, <2>1
  <2>3. Head(w.todo) \in Txid /\ w.block \in Block
    BY <1>1, <2>2
  <2>4. \A i \in 1..Len(Tail(w.todo)) : <<Tail(w.todo)[i], w.block>> \in d
    BY <1>1, <2>1
  <2> HIDE DEF d
  <2>5. w.message \in {"merkleblock", "block"}
    BY <1>1, <1>3 DEF Work, w, Sound
  <2>6. /\ v.todo = Tail(w.todo) /\ v.block = w.block /\ v.txid = Head(w.todo)
        /\ v.rec = w.block /\ v.message = w.message /\ v.pc = FirstStep[w.message]
        /\ v.pc = IF w.message = "block" THEN "snapshot" ELSE "merkle"
    BY <2>5 DEF Busy, FirstStep
  <2>7. v \in Work
    BY <2>1, <2>3, <2>5, <2>6 DEF Work, Busy, Committing
  <2> HIDE DEF v
  <2>8. Sound(v, proven, relayed, scanned, op, recs)
    <3>1. CASE w.message # "block"
      BY <3>1, <2>2, <2>4, <2>5, <2>6, <2>7 DEF Sound, Committing, d
    <3>2. CASE w.message = "block"
      BY <3>2, <2>2, <2>3, <2>4, <2>6, <2>7 DEF Sound, Committing, Arrived, d
    <3> QED
      BY <3>1, <3>2
  <2> QED
    BY <1>3, <2>8 DEF NextTxid, v, w
<1> QED
  BY <1>2, <1>3

\* More deliveries and more records leave a thread's locals sound.
LEMMA SoundKept ==
  ASSUME NEW w, NEW pr, NEW re, NEW sc, NEW op, NEW recs,
         NEW pr2, NEW re2, NEW sc2, NEW recs2,
         Sound(w, pr, re, sc, op, recs),
         pr \subseteq pr2, re \subseteq re2, sc \subseteq sc2,
         \A t \in Txid : recs[t] # NoBlock => recs2[t] # NoBlock
  PROVE  Sound(w, pr2, re2, sc2, op, recs2)
<1>1. w.txid \in Txid
  BY DEF Sound, Work
<1>2. \A i \in 1..Len(w.todo) : <<w.todo[i], w.block>> \in IF w.message = "block" THEN sc2 ELSE pr2
  BY DEF Sound
<1>3. w.pc \in Committing => w.rec \in Block /\ Arrived(w.txid, w.rec, pr2, re2, sc2)
  BY DEF Sound, Arrived
<1> QED
  BY <1>1, <1>2, <1>3 DEF Sound

\* One thread moves, the others keep what they hold.
LEMMA OneThreadMoves ==
  ASSUME Types, ThreadsSound, NEW x \in Thread, NEW v,
         th' = [th EXCEPT ![x] = v],
         v = Idle \/ Sound(v, proven', relayed', scanned', open', db'.rec),
         open' = open,
         proven \subseteq proven', relayed \subseteq relayed', scanned \subseteq scanned',
         \A t \in Txid : db.rec[t] # NoBlock => db'.rec[t] # NoBlock
  PROVE  /\ ThreadsSound'
         /\ th' = [y \in Thread |-> th'[y]]
<1>1. /\ th'[x] = v
      /\ \A y \in Thread : y # x => th'[y] = th[y]
      /\ th' = [y \in Thread |-> th'[y]]
  BY DEF Types
<1>2. ASSUME NEW y \in Thread, y # x, th[y] # Idle
      PROVE  Sound(th'[y], proven', relayed', scanned', open', db'.rec)
  <2>1. Sound(th[y], proven, relayed, scanned, open, db.rec)
    BY <1>2 DEF ThreadsSound
  <2>2. Sound(th[y], proven', relayed', scanned', open, db'.rec)
    BY <2>1, SoundKept
  <2> QED
    BY <2>2, <1>1, <1>2
<1> QED
  BY <1>1, <1>2 DEF ThreadsSound

\* The pairs of the table are still awaited when one thread moves.
LEMMA PairsAwaited ==
  ASSUME Types, NoStrandedPair, NEW x \in Thread, NEW v,
         th' = [th EXCEPT ![x] = v],
         \A t \in Txid : P!CanPair(t)' =>
            P!CanPair(t) \/ (v.pc = "pair" /\ v.txid = t),
         \A t \in Txid : th[x].pc = "pair" /\ th[x].txid = t => ~P!CanPair(t)'
  PROVE  NoStrandedPair'
<1>1. /\ th'[x] = v
      /\ \A y \in Thread : y # x => th'[y] = th[y]
  BY DEF Types
<1>2. SUFFICES ASSUME NEW t \in Txid, P!CanPair(t)'
               PROVE  \E y \in Thread : th'[y].pc = "pair" /\ th'[y].txid = t
  BY DEF NoStrandedPair
<1>3. CASE P!CanPair(t)
  <2>1. PICK y \in Thread : th[y].pc = "pair" /\ th[y].txid = t
    BY <1>3 DEF NoStrandedPair
  <2>2. y # x
    BY <2>1, <1>2
  <2> QED
    BY <2>1, <2>2, <1>1 DEF Thread
<1>4. CASE v.pc = "pair" /\ v.txid = t
  BY <1>4, <1>1
<1> QED
  BY <1>2, <1>3, <1>4

----------------------------------------------------------------------------
(* Lemmas about the table: what a call does to the map.                    *)

LEMMA ErasedMap ==
  ASSUME NEW t \in Txid
  PROVE  P!Erase(P!Table, t).map = [map EXCEPT ![t] = NoEntry]
<1>1. P!Table = [map |-> map, fifo |-> fifo, broken |-> broken]
  BY DEF P!Table
<1> QED
  BY <1>1 DEF P!Erase

\* An insertion brings its entry, unless it is evicted at once, and leaves or
\* evicts the others.
LEMMA InsertedMap ==
  ASSUME map \in [Txid -> P!Entry \cup {NoEntry}], NEW t \in Txid, NEW e \in P!Entry,
         NEW m, m = P!Insert(P!Table, t, e).map
  PROVE  /\ m \in [Txid -> P!Entry \cup {NoEntry}]
         /\ \A u \in Txid : m[u] \in {NoEntry, IF u = t THEN e ELSE map[u]}
<1> DEFINE p == [P!Table EXCEPT !.map = [@ EXCEPT ![t] = e], !.fifo = Append(@, t)]
           h == Head(p.fifo)
           q == P!Erase(p, h)
           l == [map EXCEPT ![t] = e]
           s == Append(fifo, t)
<1>1. p = [map |-> l, fifo |-> s, broken |-> broken]
  <2>1. P!Table = [map |-> map, fifo |-> fifo, broken |-> broken]
    BY DEF P!Table
  <2>2. P!Table.map = map /\ P!Table.fifo = fifo
    BY <2>1
  <2>3. p = [P!Table EXCEPT !.map = l, !.fifo = s]
    BY <2>2
  <2> HIDE DEF p, l, s
  <2> QED
    BY <2>1, <2>3
<1>2. p.map = l
  BY <1>1
<1>3. m = P!EnforceFifo(p).map
  BY DEF P!Insert
<1> HIDE DEF p
<1> DEFINE r == P!RemoveFirst(p.fifo, h)
           n == [p.map EXCEPT ![h] = NoEntry]
<1>4. q.map = n /\ q = [map |-> q.map, fifo |-> q.fifo, broken |-> q.broken]
  <2>1. q = [p EXCEPT !.map = n, !.fifo = r]
    BY DEF P!Erase
  <2> HIDE DEF q, r, n
  <2> QED
    BY <1>1, <2>1
<1> HIDE DEF h, q
<1>5. P!EnforceFifo(p).map \in {p.map, q.map}
  <2>1. [q EXCEPT !.broken = TRUE].map = q.map /\ [q EXCEPT !.fifo = Tail(@)].map = q.map
    BY <1>4
  <2> QED
    BY <2>1 DEF P!EnforceFifo, q, h
<1>6. /\ l \in [Txid -> P!Entry \cup {NoEntry}]
      /\ \A u \in Txid : l[u] = IF u = t THEN e ELSE map[u]
  OBVIOUS
<1> HIDE DEF l
<1>7. CASE m = p.map
  BY <1>2, <1>6, <1>7
<1>8. CASE m = q.map
  <2>1. m = [l EXCEPT ![h] = NoEntry]
    BY <1>2, <1>4, <1>8
  <2>2. m = [u \in Txid |-> IF u = h THEN NoEntry ELSE l[u]]
    BY <1>6, <2>1
  <2>3. m \in [Txid -> P!Entry \cup {NoEntry}]
    BY <1>6, <2>2
  <2> QED
    BY <1>6, <2>2, <2>3
<1> QED
  BY <1>3, <1>5, <1>7, <1>8

----------------------------------------------------------------------------
(* What steps leave alone.                                                 *)

\* Deliveries only add to what has arrived.
MoreArrived == proven \subseteq proven' /\ relayed \subseteq relayed' /\ scanned \subseteq scanned'

LEMMA TableKept ==
  ASSUME HalvesArrived, MoreArrived, UNCHANGED map
  PROVE  HalvesArrived'
BY DEF HalvesArrived, MoreArrived

LEMMA StoreKept ==
  ASSUME StoredWasDelivered, IndexRefersToTx, MemoryHasRecord, MoreArrived,
         UNCHANGED storeState
  PROVE  StoredWasDelivered' /\ IndexRefersToTx' /\ MemoryHasRecord'
<1>1. StoredWasDelivered'
  BY DEF StoredWasDelivered, MoreArrived, storeState
<1>2. IndexRefersToTx'
  BY DEF IndexRefersToTx, S!IndexRefersToTx, S!NoDangling, storeState
<1>3. MemoryHasRecord'
  BY DEF MemoryHasRecord, storeState
<1> QED
  BY <1>1, <1>2, <1>3

\* A step that changes one thread's locals, and the window's lists at most.
LEMMA MovesAlone ==
  ASSUME IInv, NEW x \in Thread, NEW v,
         th' = [th EXCEPT ![x] = v], th[x].pc # "pair",
         v = Idle \/ Sound(v, proven, relayed, scanned, open, db.rec),
         watch' \in SUBSET Addr,
         UNCHANGED <<pendingState, storeState, delivered>>
  PROVE  IInv'
<1>1. /\ map' = map /\ open' = open /\ txs' = txs /\ index' = index /\ db' = db
      /\ proven' = proven /\ relayed' = relayed /\ scanned' = scanned
  BY DEF pendingState, storeState, delivered
<1>2. ThreadsSound' /\ th' = [y \in Thread |-> th'[y]]
  BY <1>1, OneThreadMoves DEF IInv
<1>3. Types'
  BY <1>1, <1>2 DEF IInv, Types
<1>4. HalvesArrived'
  BY <1>1, TableKept DEF IInv, MoreArrived
<1>5. StoredWasDelivered' /\ IndexRefersToTx' /\ MemoryHasRecord'
  BY <1>1, StoreKept DEF IInv, MoreArrived, storeState
<1>6. NoStrandedPair'
  <2>1. \A t \in Txid : P!CanPair(t)' <=> P!CanPair(t)
    BY <1>1 DEF P!CanPair
  <2> QED
    BY <2>1, PairsAwaited DEF IInv
<1> QED
  BY <1>2, <1>3, <1>4, <1>5, <1>6 DEF IInv

----------------------------------------------------------------------------
(* Initially, and after a restart.                                         *)

LEMMA InitIInv == Init => IInv
<1> SUFFICES ASSUME Init PROVE IInv
  OBVIOUS
<1>1. /\ th = [x \in Thread |-> Idle] /\ map = [t \in Txid |-> NoEntry]
      /\ open \in BOOLEAN /\ watch \in SUBSET Addr
      /\ txs = [t \in Txid |-> NoBlock] /\ index = {}
      /\ db = [rec |-> [t \in Txid |-> NoBlock], link |-> {}]
      /\ proven = {} /\ relayed = {} /\ scanned = {}
  BY DEF Init, P!PendingInit, S!EmptyRecords, S!EmptyDb
<1>2. Types
  BY <1>1 DEF Types, S!Records, S!Database, S!Links
<1>3. StoredWasDelivered
  BY <1>1, PipelineAssumption DEF StoredWasDelivered
<1>4. IndexRefersToTx /\ MemoryHasRecord
  BY <1>1 DEF IndexRefersToTx, S!IndexRefersToTx, S!NoDangling, MemoryHasRecord
<1>5. HalvesArrived /\ ThreadsSound /\ NoStrandedPair
  BY <1>1 DEF HalvesArrived, ThreadsSound, NoStrandedPair, P!CanPair
<1> QED
  BY <1>2, <1>3, <1>4, <1>5 DEF IInv

LEMMA RestartKeeps ==
  ASSUME IInv, Restart
  PROVE  IInv'
<1>1. /\ map' = [t \in Txid |-> NoEntry] /\ th' = [x \in Thread |-> Idle]
      /\ open' \in BOOLEAN /\ watch' \in SUBSET Addr
      /\ txs' = IF open' THEN db.rec ELSE [t \in Txid |-> NoBlock]
      /\ index' = IF open' THEN db.link ELSE {}
      /\ db' = db /\ proven' = proven /\ relayed' = relayed /\ scanned' = scanned
  BY DEF Restart, delivered, S!EmptyRecords
<1>2. /\ map' \in [Txid -> P!Entry \cup {NoEntry}]
      /\ th' = [x \in Thread |-> th'[x]]
      /\ HalvesArrived' /\ ThreadsSound' /\ NoStrandedPair'
  BY <1>1 DEF HalvesArrived, ThreadsSound, NoStrandedPair, P!CanPair
<1>3. Types'
  BY <1>1, <1>2 DEF IInv, Types, S!Records, S!Database, S!Links
<1>4. StoredWasDelivered'
  BY <1>1, PipelineAssumption DEF IInv, StoredWasDelivered
<1>5. IndexRefersToTx' /\ MemoryHasRecord'
  BY <1>1 DEF IInv, IndexRefersToTx, S!IndexRefersToTx, S!NoDangling, MemoryHasRecord
<1> QED
  BY <1>2, <1>3, <1>4, <1>5 DEF IInv

----------------------------------------------------------------------------
(* Deliveries.                                                             *)

\* A handler starts with something that has just arrived in hand.
LEMMA StartsHandler ==
  ASSUME IInv, NEW x \in Thread, NEW v, th[x] = Idle,
         th' = [th EXCEPT ![x] = v],
         Sound(v, proven', relayed', scanned', open', db'.rec),
         MoreArrived,
         proven' \subseteq Txid \X Block, scanned' \subseteq Txid \X Block,
         relayed' \subseteq Txid,
         UNCHANGED <<pendingState, storeState, window>>
  PROVE  IInv'
<1>1. /\ map' = map /\ open' = open /\ txs' = txs /\ index' = index /\ db' = db
      /\ watch' = watch
  BY DEF pendingState, storeState, window
<1>2. ThreadsSound' /\ th' = [y \in Thread |-> th'[y]]
  BY <1>1, OneThreadMoves DEF IInv, MoreArrived
<1>3. Types'
  BY <1>1, <1>2 DEF IInv, Types
<1>4. HalvesArrived'
  BY <1>1, TableKept DEF IInv
<1>5. StoredWasDelivered' /\ IndexRefersToTx' /\ MemoryHasRecord'
  BY StoreKept DEF IInv
<1>6. NoStrandedPair'
  <2>1. \A t \in Txid : P!CanPair(t)' <=> P!CanPair(t)
    BY <1>1 DEF P!CanPair
  <2>2. th[x].pc # "pair"
    BY DEF Idle
  <2> QED
    BY <2>1, <2>2, PairsAwaited DEF IInv
<1> QED
  BY <1>2, <1>3, <1>4, <1>5, <1>6 DEF IInv

\* The matches of a block, split into the first and the others.
LEMMA MatchesSplit ==
  ASSUME NEW b \in Block, Matches[b] # <<>>
  PROVE  /\ Head(Matches[b]) \in Txid /\ Tail(Matches[b]) \in Seq(Txid)
         /\ ToSet(Matches[b]) \subseteq Txid
         /\ Head(Matches[b]) \in ToSet(Matches[b])
         /\ \A i \in 1..Len(Tail(Matches[b])) : Tail(Matches[b])[i] \in ToSet(Matches[b])
<1> DEFINE m == Matches[b]
<1>1. m \in Seq(Txid) /\ m # <<>>
  BY PipelineAssumption
<1> HIDE DEF m
<1>2. /\ Len(m) \in Nat \ {0} /\ DOMAIN m = 1..Len(m)
      /\ \A i \in 1..Len(m) : m[i] \in Txid
      /\ Head(m) = m[1] /\ Tail(m) \in Seq(Txid) /\ Len(Tail(m)) = Len(m) - 1
      /\ \A i \in 1..Len(Tail(m)) : Tail(m)[i] = m[i + 1]
  BY <1>1
<1>3. \A i \in 1..Len(m) : m[i] \in ToSet(m)
  BY <1>2 DEF ToSet
<1>4. ToSet(m) \subseteq Txid
  BY <1>2 DEF ToSet
<1>5. Head(m) \in Txid /\ Head(m) \in ToSet(m)
  BY <1>2, <1>3
<1>6. \A i \in 1..Len(Tail(m)) : Tail(m)[i] \in ToSet(m)
  BY <1>2, <1>3
<1> QED
  BY <1>2, <1>4, <1>5, <1>6 DEF m

LEMMA RecvMerkleKeeps ==
  ASSUME IInv, NEW x \in Thread, NEW b \in Block, RecvMerkle(x, b)
  PROVE  IInv'
<1> DEFINE m == Matches[b]
           v == Busy("merkleblock", Head(m), Tail(m), b)
<1>1. /\ th[x] = Idle /\ th' = [th EXCEPT ![x] = v] /\ m # <<>>
      /\ proven' = proven \cup {<<t, b>> : t \in ToSet(m)}
      /\ relayed' = relayed /\ scanned' = scanned
      /\ UNCHANGED <<pendingState, storeState, window>>
  BY DEF RecvMerkle, Goto
<1>2. /\ Head(m) \in Txid /\ Tail(m) \in Seq(Txid) /\ ToSet(m) \subseteq Txid
      /\ <<Head(m), b>> \in proven'
      /\ \A i \in 1..Len(Tail(m)) : <<Tail(m)[i], b>> \in proven'
  BY <1>1, MatchesSplit
<1>3. proven' \subseteq Txid \X Block
  BY <1>1, <1>2 DEF IInv, Types
<1> HIDE DEF m
<1>4. Sound(v, proven', relayed', scanned', open', db'.rec)
  BY <1>2 DEF Sound, Work, Busy, FirstStep, Committing
<1> HIDE DEF v
<1> QED
  BY <1>1, <1>3, <1>4, StartsHandler DEF IInv, Types, MoreArrived, Thread

LEMMA RecvTxKeeps ==
  ASSUME IInv, NEW x \in Conn, NEW t \in Txid, RecvTx(x, t)
  PROVE  IInv'
<1> DEFINE v == Busy("tx", t, <<>>, NoBlock)
<1>1. /\ th[x] = Idle /\ th' = [th EXCEPT ![x] = v]
      /\ relayed' = relayed \cup {t}
      /\ proven' = proven /\ scanned' = scanned
      /\ UNCHANGED <<pendingState, storeState, window>>
  BY DEF RecvTx, Goto
<1>2. Sound(v, proven', relayed', scanned', open', db'.rec)
  BY <1>1 DEF Sound, Work, Busy, FirstStep, Committing
<1> HIDE DEF v
<1> QED
  BY <1>1, <1>2, StartsHandler DEF IInv, Types, MoreArrived, Thread

LEMMA ScanBlockKeeps ==
  ASSUME IInv, NEW x \in Backfill, NEW b \in Block, NEW sent \in Block,
         ScanBlock(x, b, sent)
  PROVE  IInv'
<1> DEFINE m == Matches[sent]
           v == Busy("block", Head(m), Tail(m), b)
<1>1. /\ th[x] = Idle /\ th' = [th EXCEPT ![x] = v] /\ m # <<>>
      /\ scanned' = scanned \cup {<<t, b>> : t \in ToSet(m)}
      /\ proven' = proven /\ relayed' = relayed
      /\ UNCHANGED <<pendingState, storeState, window>>
  BY DEF ScanBlock, Goto
<1>2. /\ Head(m) \in Txid /\ Tail(m) \in Seq(Txid) /\ ToSet(m) \subseteq Txid
      /\ <<Head(m), b>> \in scanned'
      /\ \A i \in 1..Len(Tail(m)) : <<Tail(m)[i], b>> \in scanned'
  BY <1>1, MatchesSplit
<1>3. scanned' \subseteq Txid \X Block
  BY <1>1, <1>2 DEF IInv, Types
<1> HIDE DEF m
<1>4. Sound(v, proven', relayed', scanned', open', db'.rec)
  BY <1>2 DEF Sound, Work, Busy, FirstStep, Committing, Arrived
<1> HIDE DEF v
<1> QED
  BY <1>1, <1>3, <1>4, StartsHandler DEF IInv, Types, MoreArrived, Thread

----------------------------------------------------------------------------
(* Calls of the table.                                                     *)

\* A thread in a handler holds the locals of one.
LEMMA InHandler ==
  ASSUME IInv, NEW x \in Thread, th[x].pc # "idle"
  PROVE  /\ th[x] # Idle
         /\ Sound(th[x], proven, relayed, scanned, open, db.rec)
         /\ th[x] \in Work
BY DEF IInv, ThreadsSound, Idle, Sound

\* After an addition the thread goes on to pair what it added, which arrived.
LEMMA AfterAdd ==
  ASSUME IInv, NEW x \in Thread, NEW t \in Txid,
         th[x].pc \in {"merkle", "tx"}, th[x].txid = t, Step(x, "pair"),
         map' \in [Txid -> P!Entry \cup {NoEntry}],
         \A u \in Txid : u # t => map'[u] \in {NoEntry, map[u]},
         map'[t] # NoEntry =>
            /\ map'[t].tx => t \in relayed
            /\ map'[t].merkle => <<t, map'[t].block>> \in proven,
         UNCHANGED <<storeState, window, delivered>>
  PROVE  IInv'
<1> DEFINE v == [th[x] EXCEPT !.pc = "pair"]
<1>1. /\ open' = open /\ txs' = txs /\ index' = index /\ db' = db /\ watch' = watch
      /\ proven' = proven /\ relayed' = relayed /\ scanned' = scanned
      /\ th' = [th EXCEPT ![x] = v]
  BY DEF storeState, window, delivered, Step, Goto
<1>2. /\ Sound(th[x], proven, relayed, scanned, open, db.rec)
      /\ th[x] \in Work
  BY InHandler
<1>3. v \in Work /\ v.pc = "pair" /\ v.txid = t /\ v.todo = th[x].todo /\ v.block = th[x].block /\ v.message = th[x].message
  BY <1>2 DEF Work
<1> HIDE DEF v
<1>4. Sound(v, proven, relayed, scanned, open, db.rec)
  BY <1>2, <1>3 DEF Sound, Committing
<1>5. ThreadsSound' /\ th' = [y \in Thread |-> th'[y]]
  BY <1>1, <1>4, OneThreadMoves DEF IInv
<1>6. Types'
  BY <1>1, <1>5 DEF IInv, Types
<1>7. HalvesArrived'
  BY <1>1 DEF IInv, HalvesArrived
<1>8. StoredWasDelivered' /\ IndexRefersToTx' /\ MemoryHasRecord'
  BY <1>1, StoreKept DEF IInv, MoreArrived
<1>9. NoStrandedPair'
  <2>1. \A u \in Txid : P!CanPair(u)' => P!CanPair(u) \/ u = t
    BY DEF P!CanPair
  <2>2. th[x].pc # "pair"
    OBVIOUS
  <2> QED
    BY <1>1, <1>3, <1>4, <2>1, <2>2, PairsAwaited DEF IInv
<1> QED
  BY <1>5, <1>6, <1>7, <1>8, <1>9 DEF IInv

LEMMA CallAddMerkleKeeps ==
  ASSUME IInv, NEW x \in Thread, CallAddMerkle(x)
  PROVE  IInv'
<1> DEFINE t == th[x].txid
           b == th[x].block
           e == [[map[t] EXCEPT !.merkle = TRUE] EXCEPT !.block = b]
<1>1. /\ th[x].pc = "merkle" /\ P!AddMerkle(t, b) /\ Step(x, "pair")
      /\ UNCHANGED <<storeState, window, delivered>>
  BY DEF CallAddMerkle
<1>2. t \in Txid /\ b \in Block /\ <<t, b>> \in proven
  <2>1. /\ Sound(th[x], proven, relayed, scanned, open, db.rec)
        /\ th[x] \in Work
    BY <1>1, InHandler
  <2> QED
    BY <1>1, <2>1 DEF Sound, Work, IInv, Types
<1>3. map \in [Txid -> P!Entry \cup {NoEntry}] /\ HalvesArrived
  BY DEF IInv, Types
<1> HIDE DEF t, b
<1>4. CASE map[t] # NoEntry
  <2>1. map[t] \in P!Entry
    BY <1>2, <1>3, <1>4
  <2>2. e \in P!Entry /\ e.tx = map[t].tx /\ e.block = b
    BY <1>2, <2>1 DEF P!Entry
  <2>3. map' = [map EXCEPT ![t] = e]
    BY <1>1, <1>4 DEF P!AddMerkle
  <2> HIDE DEF e
  <2>4. /\ map' \in [Txid -> P!Entry \cup {NoEntry}] /\ map'[t] = e
        /\ \A u \in Txid : u # t => map'[u] = map[u]
    BY <1>2, <1>3, <2>2, <2>3
  <2>5. map[t].tx => t \in relayed
    BY <1>2, <1>3, <1>4 DEF HalvesArrived
  <2> QED
    BY <1>1, <1>2, <2>2, <2>4, <2>5, AfterAdd DEF t
<1>5. CASE map[t] = NoEntry
  <2> DEFINE f == P!Fresh(FALSE, b)
  <2>1. f \in P!Entry /\ ~f.tx /\ f.block = b
    BY <1>2 DEF P!Fresh, P!Entry
  <2>2. map' = P!Insert(P!Table, t, f).map
    BY <1>1, <1>5 DEF P!AddMerkle, P!Becomes
  <2> HIDE DEF f
  <2>3. /\ map' \in [Txid -> P!Entry \cup {NoEntry}]
        /\ \A u \in Txid : map'[u] \in {NoEntry, IF u = t THEN f ELSE map[u]}
    BY <1>2, <1>3, <2>1, <2>2, InsertedMap
  <2>4. \A u \in Txid : u # t => map'[u] \in {NoEntry, map[u]}
    BY <2>3
  <2>5. map'[t] \in {NoEntry, f}
    BY <1>2, <2>3
  <2>6. map'[t] # NoEntry =>
           /\ map'[t].tx => t \in relayed
           /\ map'[t].merkle => <<t, map'[t].block>> \in proven
    BY <1>2, <2>1, <2>5
  <2> QED
    BY <1>1, <1>2, <2>3, <2>4, <2>6, AfterAdd DEF t
<1> QED
  BY <1>4, <1>5

LEMMA CallAddTxKeeps ==
  ASSUME IInv, NEW x \in Thread, CallAddTx(x)
  PROVE  IInv'
<1> DEFINE t == th[x].txid
           e == [map[t] EXCEPT !.tx = TRUE]
<1>1. /\ th[x].pc = "tx" /\ P!AddTx(t) /\ Step(x, "pair")
      /\ UNCHANGED <<storeState, window, delivered>>
  BY DEF CallAddTx
<1>2. t \in Txid /\ t \in relayed
  <2>1. /\ Sound(th[x], proven, relayed, scanned, open, db.rec)
        /\ th[x] \in Work
    BY <1>1, InHandler
  <2> QED
    BY <1>1, <2>1 DEF Sound, Work
<1>3. map \in [Txid -> P!Entry \cup {NoEntry}] /\ HalvesArrived
  BY DEF IInv, Types
<1> HIDE DEF t
<1>4. CASE map[t] # NoEntry
  <2>1. map[t] \in P!Entry
    BY <1>2, <1>3, <1>4
  <2>2. e \in P!Entry /\ e.merkle = map[t].merkle /\ e.block = map[t].block
    BY <2>1 DEF P!Entry
  <2>3. map' = [map EXCEPT ![t] = e]
    BY <1>1, <1>4 DEF P!AddTx
  <2> HIDE DEF e
  <2>4. /\ map' \in [Txid -> P!Entry \cup {NoEntry}] /\ map'[t] = e
        /\ \A u \in Txid : u # t => map'[u] = map[u]
    BY <1>2, <1>3, <2>2, <2>3
  <2>5. map[t].merkle => <<t, map[t].block>> \in proven
    BY <1>2, <1>3, <1>4 DEF HalvesArrived
  <2> QED
    BY <1>1, <1>2, <2>2, <2>4, <2>5, AfterAdd DEF t
<1>5. CASE map[t] = NoEntry
  <2> DEFINE f == P!Fresh(TRUE, NoBlock)
  <2>1. f \in P!Entry /\ ~f.merkle
    <3>1. f = [tx |-> TRUE, merkle |-> FALSE, block |-> NoBlock, age |-> 0, retry |-> 0]
      BY DEF P!Fresh
    <3> HIDE DEF f
    <3> QED
      BY <3>1 DEF P!Entry
  <2>2. map' = P!Insert(P!Table, t, f).map
    BY <1>1, <1>5 DEF P!AddTx, P!Becomes
  <2> HIDE DEF f
  <2>3. /\ map' \in [Txid -> P!Entry \cup {NoEntry}]
        /\ \A u \in Txid : map'[u] \in {NoEntry, IF u = t THEN f ELSE map[u]}
    BY <1>2, <1>3, <2>1, <2>2, InsertedMap
  <2>4. \A u \in Txid : u # t => map'[u] \in {NoEntry, map[u]}
    BY <2>3
  <2>5. map'[t] \in {NoEntry, f}
    BY <1>2, <2>3
  <2>6. map'[t] # NoEntry =>
           /\ map'[t].tx => t \in relayed
           /\ map'[t].merkle => <<t, map'[t].block>> \in proven
    BY <1>2, <2>1, <2>5
  <2> QED
    BY <1>1, <1>2, <2>3, <2>4, <2>6, AfterAdd DEF t
<1> QED
  BY <1>4, <1>5

\* The pair that TryPair takes out of the table is in the thread's hands, with
\* the block of the entry.
LEMMA CallTryPairKeeps ==
  ASSUME IInv, NEW x \in Thread, CallTryPair(x)
  PROVE  IInv'
<1> DEFINE t == th[x].txid
           v == IF P!CanPair(t)
                  THEN [[th[x] EXCEPT !.pc = "snapshot"] EXCEPT !.rec = map[t].block]
                  ELSE NextTxid(x)
<1>1. /\ th[x].pc = "pair" /\ P!TryPair(t) /\ th' = [th EXCEPT ![x] = v]
      /\ UNCHANGED <<storeState, window, delivered>>
  BY DEF CallTryPair, Goto
<1>2. /\ open' = open /\ txs' = txs /\ index' = index /\ db' = db /\ watch' = watch
      /\ proven' = proven /\ relayed' = relayed /\ scanned' = scanned
  BY <1>1 DEF storeState, window, delivered
<1>3. /\ Sound(th[x], proven, relayed, scanned, open, db.rec)
      /\ th[x] \in Work /\ t \in Txid
  BY <1>1, InHandler DEF Work
<1>4. map \in [Txid -> P!Entry \cup {NoEntry}] /\ HalvesArrived
  BY DEF IInv, Types
<1>5. v = Idle \/ Sound(v, proven, relayed, scanned, open, db.rec)
  <2>1. CASE P!CanPair(t)
    <3> DEFINE b == map[t].block
               u == [[th[x] EXCEPT !.pc = "snapshot"] EXCEPT !.rec = b]
    <3>1. t \in relayed /\ <<t, b>> \in proven
      BY <1>3, <1>4, <2>1 DEF HalvesArrived, P!CanPair, P!Paired
    <3>2. b \in Block
      BY <3>1 DEF IInv, Types
    <3> HIDE DEF b
    <3>3. /\ u \in Work /\ u.pc = "snapshot" /\ u.rec = b
          /\ u.txid = t /\ u.todo = th[x].todo /\ u.block = th[x].block /\ u.message = th[x].message
      BY <1>3, <3>2 DEF Work, Committing
    <3>4. v = u
      BY <2>1 DEF b
    <3> HIDE DEF u, v, t
    <3>5. Sound(u, proven, relayed, scanned, open, db.rec)
      BY <1>3, <3>1, <3>2, <3>3 DEF Sound, Arrived
    <3> QED
      BY <3>4, <3>5
  <2>2. CASE ~P!CanPair(t)
    BY <1>3, <2>2, NextSound DEF IInv
  <2> QED
    BY <2>1, <2>2
<1>6. /\ map' \in [Txid -> P!Entry \cup {NoEntry}]
      /\ \A u \in Txid : map'[u] \in {NoEntry, map[u]}
      /\ P!CanPair(t) => map'[t] = NoEntry
      /\ ~P!CanPair(t) => map' = map
  <2> HIDE DEF t, v
  <2>1. CASE P!CanPair(t)
    <3>1. map' = [map EXCEPT ![t] = NoEntry]
      BY <1>1, <1>3, <2>1, ErasedMap DEF P!TryPair, P!Becomes
    <3> QED
      BY <1>3, <1>4, <2>1, <3>1
  <2>2. CASE ~P!CanPair(t)
    BY <1>1, <1>4, <2>2 DEF P!TryPair
  <2> QED
    BY <2>1, <2>2
<1> HIDE DEF v
<1>7. ThreadsSound' /\ th' = [y \in Thread |-> th'[y]]
  BY <1>1, <1>2, <1>5, OneThreadMoves DEF IInv
<1>8. Types'
  BY <1>2, <1>6, <1>7 DEF IInv, Types
<1>9. HalvesArrived'
  BY <1>2, <1>4, <1>6 DEF HalvesArrived
<1>10. StoredWasDelivered' /\ IndexRefersToTx' /\ MemoryHasRecord'
  BY <1>1, <1>2, StoreKept DEF IInv, MoreArrived
<1>11. NoStrandedPair'
  <2>1. \A u \in Txid : P!CanPair(u)' => P!CanPair(u)
    BY <1>6 DEF P!CanPair
  <2>2. ASSUME NEW u \in Txid, th[x].txid = u PROVE ~P!CanPair(u)'
    <3>1. map'[u] = NoEntry \/ (~P!CanPair(u) /\ map' = map)
      BY <1>6, <2>2
    <3> QED
      BY <3>1 DEF P!CanPair
  <2> QED
    BY <1>1, <2>1, <2>2, PairsAwaited DEF IInv
<1> QED
  BY <1>7, <1>8, <1>9, <1>10, <1>11 DEF IInv

----------------------------------------------------------------------------
(* The steps of a commit.                                                  *)

LEMMA CopyWatchListKeeps ==
  ASSUME IInv, NEW x \in Thread, CopyWatchList(x)
  PROVE  IInv'
<1> DEFINE v == IF watch = {} THEN NextTxid(x)
                ELSE [[th[x] EXCEPT !.pc = "look"] EXCEPT !.addrs = watch]
<1>1. /\ th[x].pc = "snapshot" /\ th' = [th EXCEPT ![x] = v]
      /\ UNCHANGED <<pendingState, storeState, window, delivered>>
  BY DEF CopyWatchList, Goto
<1>2. /\ Sound(th[x], proven, relayed, scanned, open, db.rec)
      /\ th[x] \in Work
  BY <1>1, InHandler
<1>3. v = Idle \/ Sound(v, proven, relayed, scanned, open, db.rec)
  <2>1. CASE watch = {}
    BY <1>2, <2>1, NextSound DEF IInv
  <2>2. CASE watch # {}
    <3> DEFINE u == [[th[x] EXCEPT !.pc = "look"] EXCEPT !.addrs = watch]
    <3>1. v = u
      BY <2>2
    <3>2. /\ u \in Work /\ u.pc = "look" /\ u.addrs = watch /\ u.rec = th[x].rec
          /\ u.txid = th[x].txid /\ u.todo = th[x].todo /\ u.block = th[x].block /\ u.message = th[x].message
      BY <1>2 DEF Work, Committing, IInv, Types
    <3> HIDE DEF u, v
    <3>3. Sound(u, proven, relayed, scanned, open, db.rec)
      BY <1>1, <1>2, <2>2, <3>2 DEF Sound, Committing
    <3> QED
      BY <3>1, <3>3
  <2> QED
    BY <2>1, <2>2
<1> HIDE DEF v
<1> QED
  BY <1>1, <1>3, MovesAlone DEF window, IInv, Types

\* The address after this one, or the end of the commit.
LEMMA NextAddrSound ==
  ASSUME IInv, NEW x \in Thread, th[x].pc \in Committing, NEW op, NEW recs
  PROVE  Sound(NextAddr(x), proven, relayed, scanned, op, recs)
<1> DEFINE rest == th[x].addrs \ {AddrInHand(x)}
           pc == IF rest = {} THEN "refresh" ELSE "look"
           v == [[th[x] EXCEPT !.addrs = rest] EXCEPT !.pc = pc]
<1>1. /\ Sound(th[x], proven, relayed, scanned, open, db.rec)
      /\ th[x] \in Work
  BY InHandler DEF Committing
<1>2. rest \in SUBSET Addr
  BY <1>1 DEF Work
<1>3. NextAddr(x) = v
  BY DEF NextAddr
<1> HIDE DEF rest
<1>4. pc \in {"refresh", "look"} /\ (pc = "look" => rest # {})
  OBVIOUS
<1> HIDE DEF pc
<1>5. /\ v \in Work /\ v.pc = pc /\ v.addrs = rest /\ v.rec = th[x].rec
      /\ v.txid = th[x].txid /\ v.todo = th[x].todo /\ v.block = th[x].block /\ v.message = th[x].message
  BY <1>1, <1>2, <1>4 DEF Work, Committing
<1> HIDE DEF v
<1> QED
  BY <1>1, <1>3, <1>4, <1>5 DEF Sound, Committing

\* With a database HasTx is never ahead of it.
LEMMA LookInMemoryKeeps ==
  ASSUME IInv, NEW x \in Thread, LookInMemory(x)
  PROVE  IInv'
<1> DEFINE k == S!HasTx(th[x].txid)
           pc == IF open THEN "write" ELSE "emplace"
           v == [[th[x] EXCEPT !.known = k] EXCEPT !.pc = pc]
<1>1. /\ th[x].pc = "look" /\ th' = [th EXCEPT ![x] = v]
      /\ UNCHANGED <<pendingState, storeState, window, delivered>>
  BY DEF LookInMemory, Goto
<1>2. /\ Sound(th[x], proven, relayed, scanned, open, db.rec)
      /\ th[x] \in Work
  BY <1>1, InHandler
<1>3. /\ k \in BOOLEAN /\ open \in BOOLEAN
      /\ open => (k => db.rec[th[x].txid] # NoBlock)
  BY <1>2 DEF S!HasTx, Work, IInv, Types, MemoryHasRecord
<1> HIDE DEF k
<1>4. pc \in {"write", "emplace"} /\ (pc = "write" => open) /\ (pc = "emplace" => ~open)
  OBVIOUS
<1> HIDE DEF pc
<1>5. /\ v \in Work /\ v.pc = pc /\ v.known = k /\ v.addrs = th[x].addrs /\ v.rec = th[x].rec
      /\ v.txid = th[x].txid /\ v.todo = th[x].todo /\ v.block = th[x].block /\ v.message = th[x].message
  BY <1>2, <1>3, <1>4 DEF Work, Committing
<1> HIDE DEF v
<1>6. Sound(v, proven, relayed, scanned, open, db.rec)
  BY <1>1, <1>2, <1>3, <1>4, <1>5 DEF Sound, Committing
<1> QED
  BY <1>1, <1>6, MovesAlone DEF window, IInv, Types

LEMMA WriteFailsKeeps ==
  ASSUME IInv, NEW x \in Thread, WriteFails(x)
  PROVE  IInv'
<1>1. /\ th[x].pc = "write" /\ th' = [th EXCEPT ![x] = NextAddr(x)]
      /\ UNCHANGED <<pendingState, storeState, window, delivered>>
  BY DEF WriteFails, Goto
<1>2. Sound(NextAddr(x), proven, relayed, scanned, open, db.rec)
  BY <1>1, NextAddrSound DEF Committing
<1> QED
  BY <1>1, <1>2, MovesAlone DEF window, IInv, Types

LEMMA EndCommitKeeps ==
  ASSUME IInv, NEW x \in Thread, EndCommit(x)
  PROVE  IInv'
<1>1. /\ th[x].pc = "refresh" /\ th' = [th EXCEPT ![x] = NextTxid(x)]
      /\ UNCHANGED <<pendingState, storeState, watch, delivered>>
  BY DEF EndCommit, Goto
<1>2. NextTxid(x) = Idle \/ Sound(NextTxid(x), proven, relayed, scanned, open, db.rec)
  BY <1>1, InHandler, NextSound DEF IInv
<1> QED
  BY <1>1, <1>2, MovesAlone DEF IInv, Types

\* The batch puts the record, or knows that the database has one.
LEMMA WriteBatchKeeps ==
  ASSUME IInv, NEW x \in Thread, WriteBatch(x)
  PROVE  IInv'
<1> DEFINE v == [th[x] EXCEPT !.pc = "emplace"]
           t == th[x].txid
           r == th[x].rec
           a == AddrInHand(x)
           k == th[x].known
<1>1. /\ th[x].pc = "write" /\ th' = [th EXCEPT ![x] = v]
      /\ db' = S!Batch(db, k, a, t, r)
      /\ UNCHANGED <<pendingState, open, txs, index, window, delivered>>
  BY DEF WriteBatch, Step, Goto
<1>2. /\ map' = map /\ open' = open /\ txs' = txs /\ index' = index /\ watch' = watch
      /\ proven' = proven /\ relayed' = relayed /\ scanned' = scanned
  BY <1>1 DEF pendingState, window, delivered
<1>3. /\ Sound(th[x], proven, relayed, scanned, open, db.rec)
      /\ th[x] \in Work
  BY <1>1, InHandler
<1>4. /\ t \in Txid /\ r \in Block /\ k \in BOOLEAN
      /\ Arrived(t, r, proven, relayed, scanned)
      /\ k => db.rec[t] # NoBlock
  BY <1>1, <1>3 DEF Sound, Work, Committing
<1>5. a \in Addr
  BY <1>1, <1>3 DEF Sound, Work, AddrInHand
<1>6. /\ v \in Work /\ v.pc = "emplace" /\ v.txid = t /\ v.rec = r /\ v.addrs = th[x].addrs
      /\ v.todo = th[x].todo /\ v.block = th[x].block /\ v.message = th[x].message
  BY <1>3 DEF Work, Committing
<1> HIDE DEF v, t, r, a, k
<1>7. db \in S!Database /\ db.rec \in [Txid -> Block \cup {NoBlock}] /\ db.link \subseteq Addr \X Txid
  BY DEF IInv, Types, S!Database, S!Records, S!Links
<1>8. /\ db'.rec = IF k THEN db.rec ELSE [db.rec EXCEPT ![t] = r]
      /\ db'.link = db.link \cup {<<a, t>>}
      /\ db' = [rec |-> db'.rec, link |-> db'.link]
  BY <1>1 DEF S!Batch
<1>9. /\ db'.rec \in [Txid -> Block \cup {NoBlock}]
      /\ db'.rec[t] # NoBlock
      /\ \A u \in Txid : db'.rec[u] = db.rec[u] \/ (u = t /\ db'.rec[u] = r)
  BY <1>4, <1>7, <1>8, PipelineAssumption
<1>10. db' \in S!Database
  BY <1>4, <1>5, <1>7, <1>8, <1>9 DEF S!Database, S!Records, S!Links
<1>11. \A u \in Txid : db.rec[u] # NoBlock => db'.rec[u] # NoBlock
  BY <1>9
<1>12. Sound(v, proven, relayed, scanned, open, db'.rec)
  BY <1>1, <1>3, <1>4, <1>6, <1>9 DEF Sound, Committing
<1>13. ThreadsSound' /\ th' = [y \in Thread |-> th'[y]]
  BY <1>1, <1>2, <1>11, <1>12, OneThreadMoves DEF IInv
<1>14. Types'
  BY <1>2, <1>10, <1>13 DEF IInv, Types
<1>15. HalvesArrived'
  BY <1>2, TableKept DEF IInv, MoreArrived
<1>16. StoredWasDelivered'
  BY <1>2, <1>4, <1>9 DEF IInv, StoredWasDelivered, Arrived
<1>17. IndexRefersToTx'
  <2>1. \A l \in db'.link : l[2] \in Txid /\ db'.rec[l[2]] # NoBlock
    <3>1. \A l \in db.link : l[2] \in Txid /\ db.rec[l[2]] # NoBlock
      BY <1>7 DEF IInv, IndexRefersToTx, S!IndexRefersToTx, S!NoDangling
    <3> QED
      BY <3>1, <1>4, <1>8, <1>9, <1>11
  <2> QED
    BY <2>1, <1>2 DEF IInv, IndexRefersToTx, S!IndexRefersToTx, S!NoDangling
<1>18. MemoryHasRecord'
  BY <1>2, <1>11 DEF IInv, MemoryHasRecord
<1>19. NoStrandedPair'
  <2>1. \A u \in Txid : P!CanPair(u)' <=> P!CanPair(u)
    BY <1>2 DEF P!CanPair
  <2>2. th[x].pc # "pair"
    BY <1>1
  <2> QED
    BY <1>1, <2>1, <2>2, PairsAwaited DEF IInv
<1> QED
  BY <1>13, <1>14, <1>15, <1>16, <1>17, <1>18, <1>19 DEF IInv

LEMMA EmplaceInMemoryKeeps ==
  ASSUME IInv, NEW x \in Thread, EmplaceInMemory(x)
  PROVE  IInv'
<1> DEFINE v == NextAddr(x)
           t == th[x].txid
           r == th[x].rec
           a == AddrInHand(x)
<1>1. /\ th[x].pc = "emplace" /\ th' = [th EXCEPT ![x] = v]
      /\ txs' = S!Emplace(txs, t, r) /\ index' = index \cup {<<a, t>>}
      /\ UNCHANGED <<pendingState, open, db, window, delivered>>
  BY DEF EmplaceInMemory, Goto
<1>2. /\ map' = map /\ open' = open /\ db' = db /\ watch' = watch
      /\ proven' = proven /\ relayed' = relayed /\ scanned' = scanned
  BY <1>1 DEF pendingState, window, delivered
<1>3. /\ Sound(th[x], proven, relayed, scanned, open, db.rec)
      /\ th[x] \in Work
  BY <1>1, InHandler
<1>4. /\ t \in Txid /\ r \in Block
      /\ Arrived(t, r, proven, relayed, scanned)
      /\ open => db.rec[t] # NoBlock
  BY <1>1, <1>3 DEF Sound, Work, Committing
<1>5. a \in Addr
  BY <1>1, <1>3 DEF Sound, Work, AddrInHand
<1>6. Sound(v, proven, relayed, scanned, open, db.rec)
  BY <1>1, NextAddrSound DEF Committing
<1> HIDE DEF v, t, r, a
<1>7. txs \in [Txid -> Block \cup {NoBlock}] /\ index \subseteq Addr \X Txid
  BY DEF IInv, Types, S!Records
<1>8. /\ txs' \in [Txid -> Block \cup {NoBlock}]
      /\ txs'[t] # NoBlock
      /\ \A u \in Txid : txs'[u] = txs[u] \/ (u = t /\ txs'[u] = r)
      /\ \A u \in Txid : txs[u] # NoBlock => txs'[u] # NoBlock
  BY <1>1, <1>4, <1>7, PipelineAssumption DEF S!Emplace
<1>9. ThreadsSound' /\ th' = [y \in Thread |-> th'[y]]
  BY <1>1, <1>2, <1>6, OneThreadMoves DEF IInv
<1>10. Types'
  BY <1>1, <1>2, <1>4, <1>5, <1>8, <1>9 DEF IInv, Types, S!Records
<1>11. HalvesArrived'
  BY <1>2, TableKept DEF IInv, MoreArrived
<1>12. StoredWasDelivered'
  BY <1>2, <1>4, <1>8 DEF IInv, StoredWasDelivered, Arrived
<1>13. IndexRefersToTx'
  <2>1. \A l \in index' : l[2] \in Txid /\ txs'[l[2]] # NoBlock
    <3>1. \A l \in index : l[2] \in Txid /\ txs[l[2]] # NoBlock
      BY <1>7 DEF IInv, IndexRefersToTx, S!IndexRefersToTx, S!NoDangling
    <3> QED
      BY <3>1, <1>1, <1>4, <1>8
  <2> QED
    BY <2>1, <1>2 DEF IInv, IndexRefersToTx, S!IndexRefersToTx, S!NoDangling
<1>14. MemoryHasRecord'
  BY <1>2, <1>4, <1>8 DEF IInv, MemoryHasRecord
<1>15. NoStrandedPair'
  <2>1. \A u \in Txid : P!CanPair(u)' <=> P!CanPair(u)
    BY <1>2 DEF P!CanPair
  <2>2. th[x].pc # "pair"
    BY <1>1
  <2> QED
    BY <1>1, <2>1, <2>2, PairsAwaited DEF IInv
<1> QED
  BY <1>9, <1>10, <1>11, <1>12, <1>13, <1>14, <1>15 DEF IInv

----------------------------------------------------------------------------
(* The window, and all steps together.                                     *)

\* Edits of the watch list, refreshes of the window's list, and stuttering.
LEMMA WindowKeeps ==
  ASSUME IInv, watch' \in SUBSET Addr,
         UNCHANGED <<pendingState, storeState, th, delivered>>
  PROVE  IInv'
<1>1. /\ map' = map /\ open' = open /\ txs' = txs /\ index' = index /\ db' = db
      /\ th' = th /\ proven' = proven /\ relayed' = relayed /\ scanned' = scanned
  BY DEF pendingState, storeState, delivered
<1>2. Types' /\ HalvesArrived' /\ ThreadsSound'
  BY <1>1 DEF IInv, Types, HalvesArrived, ThreadsSound
<1>3. StoredWasDelivered' /\ IndexRefersToTx' /\ MemoryHasRecord'
  BY <1>1, StoreKept DEF IInv, MoreArrived, storeState
<1>4. NoStrandedPair'
  BY <1>1 DEF IInv, NoStrandedPair, P!CanPair
<1> QED
  BY <1>2, <1>3, <1>4 DEF IInv

LEMMA NextIInv == IInv /\ [Next]_vars => IInv'
<1> SUFFICES ASSUME IInv, [Next]_vars PROVE IInv'
  OBVIOUS
<1>1. ASSUME NEW x \in Thread, Deliver(x) PROVE IInv'
  BY <1>1, RecvMerkleKeeps, RecvTxKeeps, ScanBlockKeeps, PipelineAssumption DEF Deliver
<1>2. ASSUME NEW x \in Thread, Handle(x) PROVE IInv'
  BY <1>2, CallAddMerkleKeeps, CallAddTxKeeps, CallTryPairKeeps, CopyWatchListKeeps,
     LookInMemoryKeeps, WriteBatchKeeps, WriteFailsKeeps, EmplaceInMemoryKeeps,
     EndCommitKeeps DEF Handle
<1>3. ASSUME NEW a \in Addr, WatchAdd(a) \/ WatchRemove(a) PROVE IInv'
  <2>1. watch \in SUBSET Addr
    BY DEF IInv, Types
  <2> QED
    BY <1>3, <2>1, WindowKeeps DEF WatchAdd, WatchRemove
<1>4. CASE ThreadEnds
  BY <1>4, WindowKeeps DEF ThreadEnds, IInv, Types
<1>5. CASE Restart
  BY <1>5, RestartKeeps
<1>6. CASE UNCHANGED vars
  BY <1>6, WindowKeeps DEF vars, window, IInv, Types
<1> QED
  BY <1>1, <1>2, <1>3, <1>4, <1>5, <1>6 DEF Next

LEMMA InvariantIInv == Spec => []IInv
BY InitIInv, NextIInv, PTL DEF Spec

----------------------------------------------------------------------------
(* The list in the window: it is behind only while a thread is between the *)
(* copy of the watch list and the refresh that ends the commit.            *)

InCommit == {"look", "write", "emplace", "refresh"}

ListInv ==
  (\A x \in Thread : th[x].pc \notin InCommit) => listed = Listing(txs, index, current)

\* No other step ends a commit or touches what the list is made from.
LEMMA ListKept ==
  ASSUME IInv, ListInv, NEW x \in Thread, NEW v, th' = [th EXCEPT ![x] = v],
         th[x].pc \in InCommit => v.pc \in InCommit,
         UNCHANGED <<txs, index, listed, current>>
  PROVE  ListInv'
<1>1. /\ th'[x] = v
      /\ \A y \in Thread : y # x => th'[y] = th[y]
  BY DEF IInv, Types
<1>2. SUFFICES ASSUME \A y \in Thread : th'[y].pc \notin InCommit
               PROVE  listed = Listing(txs, index, current)
  BY DEF ListInv, Listing
<1>3. \A y \in Thread : th[y].pc \notin InCommit
  BY <1>1, <1>2
<1> QED
  BY <1>3 DEF ListInv

LEMMA NextAddrInCommit ==
  ASSUME IInv, NEW x \in Thread, th[x].pc \in InCommit
  PROVE  NextAddr(x).pc \in InCommit
<1>1. th[x] \in Work
  BY InHandler DEF InCommit
<1> QED
  BY <1>1 DEF NextAddr, Work, InCommit

LEMMA NextListInv == IInv /\ ListInv /\ [Next]_vars => ListInv'
<1> SUFFICES ASSUME IInv, ListInv, [Next]_vars PROVE ListInv'
  OBVIOUS
<1>1. ASSUME NEW x \in Thread, Deliver(x) PROVE ListInv'
  <2>1. /\ th[x] = Idle /\ \E v : th' = [th EXCEPT ![x] = v]
        /\ UNCHANGED <<txs, index, listed, current>>
    BY <1>1 DEF Deliver, RecvMerkle, RecvTx, ScanBlock, Goto, storeState, window
  <2>2. th[x].pc \notin InCommit
    BY <2>1 DEF Idle, InCommit
  <2> QED
    BY <2>1, <2>2, ListKept
<1>2. ASSUME NEW x \in Thread, CallAddMerkle(x) \/ CallAddTx(x) \/ CallTryPair(x) PROVE ListInv'
  <2>1. /\ th[x].pc \notin InCommit /\ \E v : th' = [th EXCEPT ![x] = v]
        /\ UNCHANGED <<txs, index, listed, current>>
    BY <1>2 DEF CallAddMerkle, CallAddTx, CallTryPair, Step, Goto, storeState, window, InCommit
  <2> QED
    BY <2>1, ListKept
<1>3. ASSUME NEW x \in Thread, CopyWatchList(x) PROVE ListInv'
  <2>1. /\ th[x].pc \notin InCommit /\ \E v : th' = [th EXCEPT ![x] = v]
        /\ UNCHANGED <<txs, index, listed, current>>
    BY <1>3 DEF CopyWatchList, Goto, storeState, window, InCommit
  <2> QED
    BY <2>1, ListKept
<1>4. ASSUME NEW x \in Thread, LookInMemory(x) PROVE ListInv'
  <2> DEFINE v == [[th[x] EXCEPT !.known = S!HasTx(th[x].txid)]
                     EXCEPT !.pc = IF open THEN "write" ELSE "emplace"]
  <2>1. th[x] \in Work
    BY <1>4, InHandler DEF LookInMemory
  <2>2. v.pc \in InCommit
    BY <2>1 DEF Work, InCommit
  <2>3. th' = [th EXCEPT ![x] = v] /\ UNCHANGED <<txs, index, listed, current>>
    BY <1>4 DEF LookInMemory, Goto, storeState, window
  <2> HIDE DEF v
  <2> QED
    BY <2>2, <2>3, ListKept
<1>5. ASSUME NEW x \in Thread, WriteBatch(x) PROVE ListInv'
  <2> DEFINE v == [th[x] EXCEPT !.pc = "emplace"]
  <2>1. th[x] \in Work
    BY <1>5, InHandler DEF WriteBatch
  <2>2. v.pc \in InCommit
    BY <2>1 DEF Work, InCommit
  <2>3. th' = [th EXCEPT ![x] = v] /\ UNCHANGED <<txs, index, listed, current>>
    BY <1>5 DEF WriteBatch, Step, Goto, window
  <2> HIDE DEF v
  <2> QED
    BY <2>2, <2>3, ListKept
<1>6. ASSUME NEW x \in Thread, WriteFails(x) PROVE ListInv'
  <2>1. /\ th[x].pc \in InCommit /\ th' = [th EXCEPT ![x] = NextAddr(x)]
        /\ UNCHANGED <<txs, index, listed, current>>
    BY <1>6 DEF WriteFails, Goto, storeState, window, InCommit
  <2> QED
    BY <2>1, NextAddrInCommit, ListKept
<1>7. ASSUME NEW x \in Thread, EmplaceInMemory(x) PROVE ListInv'
  <2>1. th[x].pc \in InCommit /\ th' = [th EXCEPT ![x] = NextAddr(x)]
    BY <1>7 DEF EmplaceInMemory, Goto, InCommit
  <2>2. th'[x].pc \in InCommit
    BY <2>1, NextAddrInCommit DEF IInv, Types
  <2> QED
    BY <2>2 DEF ListInv
<1>8. ASSUME NEW x \in Thread, EndCommit(x) PROVE ListInv'
  BY <1>8 DEF EndCommit, RefreshTxList, storeState, ListInv, Listing
<1>9. ASSUME NEW a \in Addr, WatchAdd(a) PROVE ListInv'
  BY <1>9 DEF WatchAdd, storeState, ListInv, Listing
<1>10. ASSUME NEW a \in Addr, WatchRemove(a) PROVE ListInv'
  BY <1>10 DEF WatchRemove, RefreshTxList, storeState, ListInv, Listing
<1>11. CASE ThreadEnds
  BY <1>11 DEF ThreadEnds, RefreshTxList, storeState, ListInv, Listing
<1>12. CASE Restart
  BY <1>12 DEF Restart, ListInv
<1>13. CASE UNCHANGED vars
  BY <1>13 DEF vars, storeState, window, ListInv, Listing
<1> QED
  BY <1>1, <1>2, <1>3, <1>4, <1>5, <1>6, <1>7, <1>8, <1>9, <1>10, <1>11, <1>12, <1>13
     DEF Next, Handle

----------------------------------------------------------------------------
(* The theorems.                                                           *)

\* A pair that is complete in g_pending has a thread between AddTx or AddMerkle
\* and TryPair, whichever connections the halves came on.
THEOREM PairsAreTaken == Spec => []NoStrandedPair
<1>1. IInv => NoStrandedPair
  BY DEF IInv
<1> QED
  BY <1>1, InvariantIInv, PTL

\* CommitTx never writes or shows a transaction in a block unless a merkle proof
\* the client received puts it there and its bytes came, or it came in a block
\* message that was read while that block was asked for.  Whether that message
\* was the block is not checked, and not claimed (RecordedInItsBlock).
THEOREM OnlyDeliveredIsStored == Spec => []StoredWasDelivered
<1>1. IInv => StoredWasDelivered
  BY DEF IInv
<1> QED
  BY <1>1, InvariantIInv, PTL

\* The interleaved halves of CommitTx leave no link without a record.
THEOREM LinksNeverDangle == Spec => []IndexRefersToTx
<1>1. IInv => IndexRefersToTx
  BY DEF IInv
<1> QED
  BY <1>1, InvariantIInv, PTL

\* With no thread in a commit the window lists the store, although the watch
\* list is copied before a commit and read again after it.
THEOREM ListStaysFresh == Spec => []ListIsFresh
<1>1. Init => ListInv
  BY DEF Init, ListInv, Listing, S!EmptyRecords
<1>2. ListInv => ListIsFresh
  BY DEF ListInv, ListIsFresh, Idle, InCommit
<1> QED
  BY <1>1, <1>2, InvariantIInv, NextListInv, PTL DEF Spec

=============================================================================
