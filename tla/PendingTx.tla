----------------------------- MODULE PendingTx -----------------------------
(***************************************************************************)
(* CPendingTxMap (src/src/light/light_pendingtx.{h,cpp}): the table in     *)
(* which a transaction and the merkle proof that covers it wait for each   *)
(* other.  The two halves arrive in any order, on any connection.          *)
(*                                                                         *)
(* m_map is the function map (NoEntry where the key is absent), m_fifo the *)
(* sequence fifo.  Clock values are kept as ages: an entry's age is        *)
(* now_ms - first_seen_ms, saturated at PairTimeout, the only value the    *)
(* code compares it with.                                                  *)
(***************************************************************************)
EXTENDS Integers, FiniteSets, SequencesExt

CONSTANTS
  Txid,         \* transaction ids
  Block,        \* (height, block_hash) pairs a merkle block can carry
  NoBlock,      \* height = -1 and a null hash: no merkle block seen yet
  NoEntry,      \* the key is not in m_map
  MaxPending,   \* MAX_PENDING, 4096 in the code
  PairTimeout,  \* kPairTimeoutMs, counted in clock steps
  MaxRetry      \* kMaxRetry, 3 in the code

ASSUME PendingTxAssumption ==
  /\ IsFiniteSet(Txid)
  /\ NoBlock \notin Block
  /\ MaxPending \in Nat \ {0}
  /\ PairTimeout \in Nat
  /\ MaxRetry \in Nat \ {0}

VARIABLES
  map,     \* m_map
  fifo,    \* m_fifo, oldest first
  broken,  \* pop_front() ran on an empty m_fifo: undefined behaviour
  due,     \* Expire: the txids its second loop has still to visit
  asked    \* history: getdata requests Expire ordered in the entry's present life

pendingVars == <<map, fifo, broken, due, asked>>

Entry == [tx : BOOLEAN, merkle : BOOLEAN, block : Block \cup {NoBlock},
          age : 0..PairTimeout, retry : Nat]

ASSUME NoEntryAssumption == NoEntry \notin Entry

PendingInit ==
  /\ map = [t \in Txid |-> NoEntry]
  /\ fifo = <<>>
  /\ broken = FALSE
  /\ due = {}
  /\ asked = [t \in Txid |-> 0]

----------------------------------------------------------------------------
(* The private helpers, on a table [map, fifo, broken].                    *)

Table == [map |-> map, fifo |-> fifo, broken |-> broken]

Keys(m) == {t \in Txid : m[t] # NoEntry}

Paired(e) == e.tx /\ e.merkle

\* Mutant: the queue slot stays behind.
EraseKeepsSlot(p, t) == [p EXCEPT !.map = [@ EXCEPT ![t] = NoEntry]]

Erase(p, t) ==
  [p EXCEPT !.map = [@ EXCEPT ![t] = NoEntry],
            !.fifo = RemoveFirst(@, t)]

\* Mutant: the limit is off by one.
EnforceFifoLate(p) ==
  IF Cardinality(Keys(p.map)) <= MaxPending + 1 THEN p
  ELSE LET e == Erase(p, Head(p.fifo))
       IN  [e EXCEPT !.broken = e.fifo = <<>>, !.fifo = IF @ = <<>> THEN @ ELSE Tail(@)]

(* The loop body runs once at most: a call adds one entry to a table       *)
(* within the limit, and the front of m_fifo is a key of m_map, so erasing *)
(* it ends the loop (MapBounded and FifoTracksLive).  Erase has already    *)
(* taken the front, so pop_front() takes the next one as well, or runs on  *)
(* an empty queue.                                                         *)
EnforceFifo(p) ==
  IF Cardinality(Keys(p.map)) <= MaxPending
  THEN p
  ELSE LET e == Erase(p, Head(p.fifo))
       IN  IF e.fifo = <<>> THEN [e EXCEPT !.broken = TRUE]
                            ELSE [e EXCEPT !.fifo = Tail(@)]

Insert(p, t, e) ==
  EnforceFifo([p EXCEPT !.map = [@ EXCEPT ![t] = e],
                        !.fifo = Append(@, t)])

Becomes(p) ==
  /\ map' = p.map
  /\ fifo' = p.fifo
  /\ broken' = p.broken

(* A public call starts while no other is inside the table and nothing     *)
(* undefined has happened.                                                 *)
Callable == due = {} /\ ~broken

----------------------------------------------------------------------------
(* The public operations.                                                  *)

\* Mutant: an entry is born a step in the past.
FreshEarly(isTx, b) ==
  [tx |-> isTx, merkle |-> ~isTx, block |-> b, age |-> -1, retry |-> 0]

Fresh(isTx, b) ==
  [tx |-> isTx, merkle |-> ~isTx, block |-> b, age |-> 0, retry |-> 0]

AddTx(t) ==
  /\ Callable
  /\ IF map[t] # NoEntry
       THEN /\ map' = [map EXCEPT ![t].tx = TRUE]
            /\ UNCHANGED <<fifo, broken, asked>>
       ELSE /\ Becomes(Insert(Table, t, Fresh(TRUE, NoBlock)))
            /\ asked' = [asked EXCEPT ![t] = 0]
  /\ UNCHANGED due

AddMerkle(t, b) ==
  /\ Callable
  /\ IF map[t] # NoEntry
       THEN /\ map' = [map EXCEPT ![t].merkle = TRUE, ![t].block = b]
            /\ UNCHANGED <<fifo, broken, asked>>
       ELSE /\ Becomes(Insert(Table, t, Fresh(FALSE, b)))
            /\ asked' = [asked EXCEPT ![t] = 0]
  /\ UNCHANGED due

\* Mutant: the merkle half alone is taken for a pair.
CanPairMerkleOnly(t) == map[t] # NoEntry /\ map[t].merkle

CanPair(t) == map[t] # NoEntry /\ Paired(map[t])

TryPair(t) ==
  /\ Callable
  /\ IF CanPair(t) THEN Becomes(Erase(Table, t))
                   ELSE UNCHANGED <<map, fifo, broken>>
  /\ UNCHANGED <<due, asked>>

RemoveTx(t) ==
  /\ Callable
  /\ Becomes(Erase(Table, t))
  /\ UNCHANGED <<due, asked>>

Expired(t) ==
  /\ map[t] # NoEntry
  /\ ~Paired(map[t])
  /\ map[t].age >= PairTimeout

\* Expire, first loop: who is past the pairing timeout.
ExpireScan ==
  /\ Callable
  /\ due' = {t \in Txid : Expired(t)}
  /\ UNCHANGED <<map, fifo, broken, asked>>

\* Mutant: asks once more than allowed.
ExpireVisitLate(t) ==
  /\ ~broken
  /\ t \in due
  /\ due' = due \ {t}
  /\ IF map[t].retry >= MaxRetry
       THEN Becomes(Erase(Table, t)) /\ UNCHANGED asked
       ELSE /\ map' = [map EXCEPT ![t].retry = @ + 1]
            /\ asked' = [asked EXCEPT ![t] = @ + 1]
            /\ UNCHANGED <<fifo, broken>>

\* Mutant: gives up one request early.
ExpireVisitEarly(t) ==
  /\ ~broken
  /\ t \in due
  /\ due' = due \ {t}
  /\ IF map[t].retry + 2 >= MaxRetry
       THEN Becomes(Erase(Table, t)) /\ UNCHANGED asked
       ELSE /\ map' = [map EXCEPT ![t].retry = @ + 1]
            /\ asked' = [asked EXCEPT ![t] = @ + 1]
            /\ UNCHANGED <<fifo, broken>>

\* Expire, second loop, one txid (the order is m_map's, that is any): ask for
\* the transaction again or give it up.  first_seen_ms stays, so the entry is
\* past the timeout at every later call.
ExpireVisit(t) ==
  /\ ~broken
  /\ t \in due
  /\ due' = due \ {t}
  /\ IF map[t].retry + 1 >= MaxRetry
       THEN /\ Becomes(Erase(Table, t))
            /\ UNCHANGED asked
       ELSE /\ map' = [map EXCEPT ![t].retry = @ + 1]
            /\ asked' = [asked EXCEPT ![t] = @ + 1]
            /\ UNCHANGED <<fifo, broken>>

\* The callers' clock moves on between two calls.
Tick ==
  /\ Callable
  /\ map' = [t \in Txid |-> IF map[t] = NoEntry \/ map[t].age = PairTimeout
                              THEN map[t]
                              ELSE [map[t] EXCEPT !.age = @ + 1]]
  /\ UNCHANGED <<fifo, broken, due, asked>>

PendingNext ==
  \/ \E t \in Txid : AddTx(t) \/ TryPair(t) \/ RemoveTx(t) \/ ExpireVisit(t)
  \/ \E t \in Txid, b \in Block : AddMerkle(t, b)
  \/ ExpireScan
  \/ Tick

PendingSpec == PendingInit /\ [][PendingNext]_pendingVars

----------------------------------------------------------------------------
(* Properties.                                                             *)

PendingTypeOK ==
  /\ map \in [Txid -> Entry \cup {NoEntry}]
  /\ fifo \in Seq(Txid)
  /\ broken \in BOOLEAN
  /\ due \in SUBSET Txid
  /\ asked \in [Txid -> Nat]

Live == Keys(map)

\* The table never holds more than MaxPending entries when a call returns,
\* whatever the mix of halves that arrive first, pairings, removals and
\* expiries, although the eviction loop takes two queue slots for one entry.
MapBounded == Cardinality(Live) <= MaxPending

\* A queue slot always stands for an entry of the table and no entry has two:
\* a txid that was paired, removed or given up and then comes back is not
\* evicted on account of the slot of its former life.
FifoTracksLive ==
  /\ ToSet(fifo) \subseteq Live
  /\ IsInjective(fifo)

\* The second loop of Expire only meets entries that are still there and still
\* have one half: nothing it visits was paired or evicted since the scan.
DueIsLive == \A t \in due : Expired(t)

\* One pending life of a txid costs the peer at most MaxRetry - 1 getdata
\* requests, and the count kept in the entry is the number really sent.
RetryBudget ==
  \A t \in Live : map[t].retry = asked[t] /\ asked[t] < MaxRetry

\* Expire gives an entry up only after every retransmission it is allowed was
\* ordered, and never one that already has both halves.
GiveUpAfterRetries ==
  [][\A t \in Txid :
       (t \in due /\ t \notin due' /\ t \in Live /\ t \notin Live')
         => asked[t] = MaxRetry - 1 /\ ~Paired(map[t])]_pendingVars

\* "FIFO": what the limit pushes out of the table is an oldest entry
\* (light_pendingtx.h:6, doc/light-node-design.md:225).
EvictsOldest ==
  [][\A t \in Txid :
       (Callable /\ t \in Live /\ t \notin Live' /\ Cardinality(Live) = MaxPending
          /\ Live' \ Live # {})
         => \A u \in Live : map[u].age <= map[t].age]_pendingVars

=============================================================================
