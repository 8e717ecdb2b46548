----------------------------- MODULE WatchStore -----------------------------
(***************************************************************************)
(* CLightWatchStore (src/src/light/light_watchstore.{h,cpp}): the matched  *)
(* transactions, in memory and in LevelDB.                                 *)
(*                                                                         *)
(* A database is [rec, link]: the records under prefix 0x01 and the        *)
(* address index under prefix 0x02.  LevelDB is external: db is what its   *)
(* reads return, disk what has reached stable storage.  CommitTx writes    *)
(* without WriteOptions::sync, so disk lags behind db until LevelDB or the *)
(* system flushes the log, and a power failure falls back to it.           *)
(***************************************************************************)
EXTENDS Integers

CONSTANTS
  Addr,      \* watch addresses
  StoreTxid,      \* transaction ids
  Record,    \* what TxRecord holds beside the txid: height and block hash
  NoRecord   \* the txid has no record

ASSUME NoRecordAssumption == NoRecord \notin Record

VARIABLES
  open,      \* m_db # nullptr
  diskFull,  \* m_disk_full
  txs,       \* m_tx_store
  index,     \* m_addr_tx_index
  db,        \* the LevelDB database
  disk       \* the part of it a power failure leaves

storeVars == <<open, diskFull, txs, index, db, disk>>

Records == [StoreTxid -> Record \cup {NoRecord}]
Links == Addr \X StoreTxid
Database == [rec : Records, link : SUBSET Links]

EmptyRecords == [t \in StoreTxid |-> NoRecord]
EmptyDb == [rec |-> EmptyRecords, link |-> {}]

StoreInit ==
  /\ open = FALSE
  /\ diskFull = FALSE
  /\ txs = EmptyRecords
  /\ index = {}
  /\ db = EmptyDb
  /\ disk = EmptyDb

----------------------------------------------------------------------------
(* Queries.                                                                *)

HasTx(t) == txs[t] # NoRecord

GetTxidsByAddr(a) == {t \in StoreTxid : <<a, t>> \in index}

\* What watch_get and RefreshTxList show for an address: its txids that have
\* a record (GetTx), each with the record.
Listed(a) == {<<t, txs[t]>> : t \in {u \in GetTxidsByAddr(a) : HasTx(u)}}

----------------------------------------------------------------------------
(* The two halves of CommitTx.                                             *)

\* Mutant: operator[] assignment, the later record wins.
EmplaceLast(recs, t, r) == [recs EXCEPT ![t] = r]

\* std::unordered_map::emplace keeps an entry that is there.
Emplace(recs, t, r) == IF recs[t] = NoRecord THEN [recs EXCEPT ![t] = r] ELSE recs

\* Mutant: the parts of the index key are swapped.
BatchSwapsKey(d, known, a, t, r) ==
  [rec  |-> IF known THEN d.rec ELSE [d.rec EXCEPT ![t] = r],
   link |-> d.link \cup {<<t, a>>}]

\* Mutant: the record is always put.
BatchAlwaysPuts(d, known, a, t, r) ==
  [rec  |-> [d.rec EXCEPT ![t] = r], link |-> d.link \cup {<<a, t>>}]

\* Mutant: the condition is the wrong way round.
BatchPutsKnown(d, known, a, t, r) ==
  [rec  |-> IF known THEN [d.rec EXCEPT ![t] = r] ELSE d.rec,
   link |-> d.link \cup {<<a, t>>}]

\* The WriteBatch: the record unless known was true when CommitTx looked in
\* memory, and the link.  Put overwrites.
Batch(d, known, a, t, r) ==
  [rec  |-> IF known THEN d.rec ELSE [d.rec EXCEPT ![t] = r],
   link |-> d.link \cup {<<a, t>>}]

\* Mutant: the index is forgotten.
ClearedRecords == txs' = EmptyRecords /\ UNCHANGED index

ClearedMemory == txs' = EmptyRecords /\ index' = {}

----------------------------------------------------------------------------
(* Operations.                                                             *)

\* Mutant: what memory had stays beside what the database has.
OpenMerges ==
  /\ open' = TRUE
  /\ txs' = [t \in StoreTxid |-> IF HasTx(t) THEN txs[t] ELSE db.rec[t]]
  /\ index' = index \cup db.link
  /\ UNCHANGED <<diskFull, db, disk>>

\* Open closes first, then loads both maps from the database.
Open ==
  /\ open' = TRUE
  /\ txs' = db.rec
  /\ index' = db.link
  /\ UNCHANGED <<diskFull, db, disk>>

\* DB::Open fails: the store stays closed and empty.
OpenFails ==
  /\ open' = FALSE
  /\ ClearedMemory
  /\ UNCHANGED <<diskFull, db, disk>>

Close ==
  /\ open' = FALSE
  /\ ClearedMemory
  /\ UNCHANGED <<diskFull, db, disk>>

\* force_reset_chain: memory only.
ClearMemory ==
  /\ ClearedMemory
  /\ UNCHANGED <<open, diskFull, db, disk>>

\* A store without a database keeps the transaction in memory alone.
CommitTx(a, t, r) ==
  /\ ~diskFull
  /\ db' = IF open THEN Batch(db, HasTx(t), a, t, r) ELSE db
  /\ txs' = Emplace(txs, t, r)
  /\ index' = index \cup {<<a, t>>}
  /\ UNCHANGED <<open, diskFull, disk>>

\* CommitTx returns false, on a full disk or a failed Write, and has changed
\* nothing; SetDiskFullForTest is the only switch of m_disk_full.
SetDiskFull(full) ==
  /\ diskFull' = full
  /\ UNCHANGED <<open, txs, index, db, disk>>

----------------------------------------------------------------------------
(* LevelDB and the machine, external.                                      *)

Flush ==
  /\ open
  /\ disk' = db
  /\ UNCHANGED <<open, diskFull, txs, index, db>>

\* The process dies; what it wrote is with the operating system.
ProcessCrash ==
  /\ open' = FALSE
  /\ diskFull' = FALSE
  /\ ClearedMemory
  /\ UNCHANGED <<db, disk>>

PowerFailure ==
  /\ open' = FALSE
  /\ diskFull' = FALSE
  /\ ClearedMemory
  /\ db' = disk
  /\ UNCHANGED disk

StoreNext ==
  \/ Open \/ OpenFails \/ Close \/ ClearMemory
  \/ \E a \in Addr, t \in StoreTxid, r \in Record : CommitTx(a, t, r)
  \/ \E full \in BOOLEAN : SetDiskFull(full)
  \/ Flush \/ ProcessCrash \/ PowerFailure

StoreSpec == StoreInit /\ [][StoreNext]_storeVars

----------------------------------------------------------------------------
(* Properties.                                                             *)

StoreTypeOK ==
  /\ open \in BOOLEAN
  /\ diskFull \in BOOLEAN
  /\ txs \in Records
  /\ index \in SUBSET Links
  /\ db \in Database
  /\ disk \in Database

NoDangling(recs, links) == \A l \in links : recs[l[2]] # NoRecord

\* A link never points at a transaction without a record: not in memory, not
\* in the database, and not in what a power failure leaves of it, although a
\* commit writes the record only when memory does not have it.
IndexRefersToTx ==
  /\ NoDangling(txs, index)
  /\ NoDangling(db.rec, db.link)
  /\ NoDangling(disk.rec, disk.link)

\* With a database open, memory shows nothing the database would not give back
\* after a restart: the same record, or none, and no link of its own.
MemoryIsDurable ==
  open => /\ \A t \in StoreTxid : HasTx(t) => db.rec[t] = txs[t]
          /\ index \subseteq db.link

\* An open store never turns the record it shows for a txid into another one:
\* not when a later delivery names another block, and not when Open is called
\* again and reads everything back from the database.
ShownRecordKept ==
  [][\A t \in StoreTxid : open /\ HasTx(t) => txs'[t] \in {txs[t], NoRecord}]_storeVars

\* "INSERT OR IGNORE tx_store" (light_watchstore.h:47): a commit never replaces
\* the record the database has for a txid.  Does not hold: force_reset_chain
\* empties the memory under an open database (light_api.cpp:255), and the next
\* commit of the txid finds no record in memory and puts its own.
FirstRecordWins ==
  [][\A t \in StoreTxid :
       db.rec[t] # NoRecord => db'.rec[t] \in {db.rec[t], NoRecord}]_storeVars

\* The store implements the archive: readers see memory, a restart the
\* database.
Archive == INSTANCE TxArchive WITH view <- [rec |-> txs, link |-> index], kept <- db

ArchiveSpec == Archive!ArchiveSpec

=============================================================================
