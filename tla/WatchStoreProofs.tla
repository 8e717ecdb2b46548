-------------------------- MODULE WatchStoreProofs --------------------------
(***************************************************************************)
(* Proofs about CLightWatchStore for any addresses, transactions and       *)
(* records: links never dangle, memory is covered by the database, and the *)
(* store implements the archive of module TxArchive.                       *)
(***************************************************************************)
EXTENDS WatchStore, TLAPS

\* Stable storage holds no link the database does not have.
DiskLags == disk.link \subseteq db.link

\* The inductive invariant.  A commit whose txid memory knows writes a link
\* without a record: MemoryIsDurable says the database has the record.
IInv ==
  /\ StoreTypeOK
  /\ IndexRefersToTx
  /\ MemoryIsDurable
  /\ DiskLags

\* What one commit does to the maps in memory and to the database.
LEMMA CommitEffect ==
  ASSUME IInv, NEW a \in Addr, NEW t \in StoreTxid, NEW r \in Record, CommitTx(a, t, r)
  PROVE  /\ txs' = [txs EXCEPT ![t] = IF HasTx(t) THEN @ ELSE r]
         /\ index' = index \cup {<<a, t>>}
         /\ open =>
              db' = [rec |-> [db.rec EXCEPT ![t] = txs'[t]], link |-> db.link \cup {<<a, t>>}]
         /\ ~open => db' = db
         /\ UNCHANGED <<open, diskFull, disk>>
<1> USE DEF IInv
<1>1. txs' = [txs EXCEPT ![t] = IF HasTx(t) THEN @ ELSE r]
  BY DEF CommitTx, Emplace, HasTx, StoreTypeOK, Records
<1>2. ASSUME open
      PROVE  db' = [rec |-> [db.rec EXCEPT ![t] = txs'[t]], link |-> db.link \cup {<<a, t>>}]
  <2>1. db.rec \in Records /\ txs \in Records
    BY DEF StoreTypeOK, Database
  <2>2. CASE HasTx(t)
    <3>1. txs'[t] = db.rec[t]
      BY <1>1, <1>2, <2>1, <2>2 DEF MemoryIsDurable, Records
    <3>2. [db.rec EXCEPT ![t] = txs'[t]] = db.rec
      BY <2>1, <3>1 DEF Records
    <3> QED
      BY <1>2, <2>2, <3>2 DEF CommitTx, Batch
  <2>3. CASE ~HasTx(t)
    <3>1. txs'[t] = r
      BY <1>1, <2>1, <2>3 DEF Records
    <3> QED
      BY <1>2, <2>3, <3>1 DEF CommitTx, Batch
  <2> QED
    BY <2>2, <2>3
<1> QED
  BY <1>1, <1>2 DEF CommitTx

\* The invariant holds of a store that was just constructed.
LEMMA InitIInv == StoreInit => IInv
<1> SUFFICES ASSUME StoreInit PROVE IInv
  OBVIOUS
<1>1. EmptyRecords \in Records /\ EmptyDb \in Database
  BY DEF EmptyRecords, EmptyDb, Records, Database
<1>2. StoreTypeOK
  BY <1>1 DEF StoreInit, StoreTypeOK
<1>3. IndexRefersToTx /\ MemoryIsDurable /\ DiskLags
  BY DEF StoreInit, IndexRefersToTx, NoDangling, MemoryIsDurable, DiskLags, EmptyDb
<1> QED
  BY <1>2, <1>3 DEF IInv

\* CommitTx keeps the invariant, with a database and without.
LEMMA CommitIInv ==
  ASSUME IInv, NEW a \in Addr, NEW t \in StoreTxid, NEW r \in Record, CommitTx(a, t, r)
  PROVE  IInv'
<1> USE DEF IInv
<1>1. /\ txs' = [txs EXCEPT ![t] = IF HasTx(t) THEN @ ELSE r]
      /\ index' = index \cup {<<a, t>>}
      /\ UNCHANGED <<open, diskFull, disk>>
  BY CommitEffect
<1>2. /\ txs \in Records /\ db.rec \in Records /\ index \in SUBSET Links
      /\ db.link \in SUBSET Links /\ db \in Database
  BY DEF StoreTypeOK, Database
<1>3. /\ txs' \in Records
      /\ txs'[t] # NoRecord
      /\ \A u \in StoreTxid : u # t => txs'[u] = txs[u]
      /\ \A u \in StoreTxid : HasTx(u) => txs'[u] = txs[u]
  BY <1>1, <1>2, NoRecordAssumption DEF HasTx, Records
<1>4. NoDangling(txs', index')
  BY <1>1, <1>2, <1>3 DEF IndexRefersToTx, NoDangling, Links
<1>5. CASE open
  <2>1. db' = [rec |-> [db.rec EXCEPT ![t] = txs'[t]], link |-> db.link \cup {<<a, t>>}]
    BY <1>5, CommitEffect
  <2>2. /\ db'.rec = [db.rec EXCEPT ![t] = txs'[t]]
        /\ db'.link = db.link \cup {<<a, t>>}
    BY <2>1
  <2>3. db'.rec \in Records /\ db' \in Database
    BY <2>1, <1>2, <1>3 DEF Records, Database, Links
  <2>4. \A u \in StoreTxid : db'.rec[u] = IF u = t THEN txs'[t] ELSE db.rec[u]
    BY <2>2, <1>2 DEF Records
  <2>5. NoDangling(db'.rec, db'.link)
    BY <2>2, <2>4, <1>2, <1>3 DEF IndexRefersToTx, NoDangling, Links
  <2>6. MemoryIsDurable'
    <3>1. \A u \in StoreTxid : HasTx(u)' => db'.rec[u] = txs'[u]
      BY <1>3, <1>5, <2>4 DEF MemoryIsDurable, HasTx
    <3>2. index' \subseteq db'.link
      BY <1>1, <1>5, <2>2 DEF MemoryIsDurable
    <3> QED
      BY <3>1, <3>2 DEF MemoryIsDurable
  <2> QED
    BY <1>1, <1>2, <1>3, <1>4, <2>2, <2>3, <2>5, <2>6
       DEF StoreTypeOK, IndexRefersToTx, DiskLags, Links
<1>6. CASE ~open
  <2>1. db' = db
    BY <1>6, CommitEffect
  <2> QED
    BY <1>1, <1>2, <1>3, <1>4, <1>6, <2>1
       DEF StoreTypeOK, IndexRefersToTx, DiskLags, MemoryIsDurable, Links
<1> QED
  BY <1>2, <1>5, <1>6 DEF StoreTypeOK

\* Every step keeps the invariant.
LEMMA NextIInv == IInv /\ [StoreNext]_storeVars => IInv'
<1> SUFFICES ASSUME IInv, [StoreNext]_storeVars PROVE IInv'
  OBVIOUS
<1> USE DEF IInv, StoreTypeOK, IndexRefersToTx, NoDangling, MemoryIsDurable, DiskLags
<1>0. EmptyRecords \in Records
  BY DEF EmptyRecords, Records
<1>1. CASE Open
  BY <1>1 DEF Open, HasTx, Database, Links
<1>2. CASE OpenFails
  BY <1>0, <1>2 DEF OpenFails, ClearedMemory
<1>3. CASE Close
  BY <1>0, <1>3 DEF Close, ClearedMemory
<1>4. CASE ClearMemory
  BY <1>0, <1>4 DEF ClearMemory, ClearedMemory, HasTx, EmptyRecords
<1>5. ASSUME NEW a \in Addr, NEW t \in StoreTxid, NEW r \in Record, CommitTx(a, t, r)
      PROVE  IInv'
  BY <1>5, CommitIInv
<1>6. ASSUME NEW full \in BOOLEAN, SetDiskFull(full) PROVE IInv'
  BY <1>6 DEF SetDiskFull, HasTx
<1>7. CASE Flush
  BY <1>7 DEF Flush, HasTx
<1>8. CASE ProcessCrash
  BY <1>0, <1>8 DEF ProcessCrash, ClearedMemory
<1>9. CASE PowerFailure
  BY <1>0, <1>9 DEF PowerFailure, ClearedMemory
<1>10. CASE UNCHANGED storeVars
  BY <1>10 DEF storeVars, HasTx
<1> QED
  BY <1>1, <1>2, <1>3, <1>4, <1>5, <1>6, <1>7, <1>8, <1>9, <1>10 DEF StoreNext

\* The invariant holds in every reachable state.
THEOREM Invariant == StoreSpec => []IInv
BY InitIInv, NextIInv, PTL DEF StoreSpec

----------------------------------------------------------------------------
(* The results.                                                            *)

\* Every variable of CLightWatchStore keeps its type.
THEOREM TypeCorrect == StoreSpec => []StoreTypeOK
<1>1. IInv => StoreTypeOK
  BY DEF IInv
<1> QED
  BY <1>1, Invariant, PTL

\* No reader ever follows a link to a transaction that has no record, in
\* memory, in the database or in what a power failure leaves.
THEOREM LinksNeverDangle == StoreSpec => []IndexRefersToTx
<1>1. IInv => IndexRefersToTx
  BY DEF IInv
<1> QED
  BY <1>1, Invariant, PTL

\* What an open store shows is what the database would load after a restart.
THEOREM MemoryIsCovered == StoreSpec => []MemoryIsDurable
<1>1. IInv => MemoryIsDurable
  BY DEF IInv
<1> QED
  BY <1>1, Invariant, PTL

\* An open store never replaces the record it shows for a txid, whatever
\* CommitTx is called with and however often Open reads the database again.
THEOREM ShownRecordStays == StoreSpec => ShownRecordKept
<1> DEFINE Kept == \A t \in StoreTxid : open /\ HasTx(t) => txs'[t] \in {txs[t], NoRecord}
<1>1. IInv /\ [StoreNext]_storeVars => [Kept]_storeVars
  <2> SUFFICES ASSUME IInv, StoreNext, NEW t \in StoreTxid, open, HasTx(t)
               PROVE  txs'[t] \in {txs[t], NoRecord}
    OBVIOUS
  <2>1. CASE Open
    BY <2>1 DEF Open, IInv, MemoryIsDurable
  <2>2. CASE OpenFails \/ Close \/ ClearMemory \/ ProcessCrash \/ PowerFailure
    BY <2>2 DEF OpenFails, Close, ClearMemory, ProcessCrash, PowerFailure,
                ClearedMemory, EmptyRecords
  <2>3. ASSUME NEW a \in Addr, NEW u \in StoreTxid, NEW r \in Record, CommitTx(a, u, r)
        PROVE  txs'[t] = txs[t]
    <3>1. txs' = [txs EXCEPT ![u] = IF HasTx(u) THEN @ ELSE r]
      BY <2>3, CommitEffect
    <3> QED
      BY <3>1 DEF IInv, StoreTypeOK, Records
  <2>4. CASE Flush \/ \E full \in BOOLEAN : SetDiskFull(full)
    BY <2>4 DEF Flush, SetDiskFull
  <2> QED
    BY <2>1, <2>2, <2>3, <2>4 DEF StoreNext
<1> QED
  BY <1>1, Invariant, PTL DEF StoreSpec, ShownRecordKept

\* A new store is a new archive.
LEMMA InitArchive == StoreInit => Archive!ArchiveInit
BY DEF StoreInit, Archive!ArchiveInit, Archive!Nothing, Archive!Content, Archive!Sound,
       EmptyRecords, EmptyDb

\* Every step of the store is a step of the archive, or one it does not see.
LEMMA StepArchive ==
  IInv /\ [StoreNext]_storeVars => [Archive!ArchiveNext]_(Archive!archiveVars)
<1> SUFFICES ASSUME IInv, [StoreNext]_storeVars
             PROVE  Archive!ArchiveNext \/ UNCHANGED Archive!archiveVars
  OBVIOUS
<1> USE DEF Archive!ArchiveNext, Archive!archiveVars
<1>0. [rec |-> EmptyRecords, link |-> {}] = Archive!Nothing
  BY DEF Archive!Nothing, EmptyRecords
<1>1. CASE Open
  <2>1. db = [rec |-> db.rec, link |-> db.link]
    BY DEF IInv, StoreTypeOK, Database
  <2>2. Archive!Reload
    BY <1>1, <2>1 DEF Open, Archive!Reload
  <2> QED
    BY <2>2
<1>2. CASE OpenFails \/ Close \/ ClearMemory \/ ProcessCrash
  <2>1. Archive!Forget
    BY <1>0, <1>2 DEF OpenFails, Close, ClearMemory, ProcessCrash, ClearedMemory,
                      Archive!Forget
  <2> QED
    BY <2>1
<1>3. ASSUME NEW a \in Addr, NEW t \in StoreTxid, NEW r \in Record, CommitTx(a, t, r)
      PROVE  Archive!ArchiveNext
  <2>1. /\ txs' = [txs EXCEPT ![t] = IF HasTx(t) THEN @ ELSE r]
        /\ index' = index \cup {<<a, t>>}
        /\ open =>
             db' = [rec |-> [db.rec EXCEPT ![t] = txs'[t]],
                    link |-> db.link \cup {<<a, t>>}]
        /\ ~open => db' = db
    BY <1>3, CommitEffect
  <2>2. txs' = IF txs[t] = NoRecord THEN [txs EXCEPT ![t] = r] ELSE txs
    BY <2>1 DEF HasTx, IInv, StoreTypeOK, Records
  <2>3. Archive!Archive(a, t, r)
    BY <2>1, <2>2 DEF Archive!Archive, Archive!Shown, IInv, StoreTypeOK
  <2> QED
    BY <2>3
<1>4. CASE Flush \/ \E full \in BOOLEAN : SetDiskFull(full)
  BY <1>4 DEF Flush, SetDiskFull
<1>5. CASE PowerFailure
  <2>1. disk \in Archive!Content /\ Archive!Sound(disk) /\ disk.link \subseteq db.link
    BY DEF IInv, StoreTypeOK, Database, Records, Links, DiskLags, IndexRefersToTx,
           NoDangling, Archive!Content, Archive!Sound
  <2>2. Archive!Lose
    BY <1>0, <1>5, <2>1 DEF PowerFailure, ClearedMemory, Archive!Lose
  <2> QED
    BY <2>2
<1>6. CASE UNCHANGED storeVars
  BY <1>6 DEF storeVars
<1> QED
  BY <1>1, <1>2, <1>3, <1>4, <1>5, <1>6 DEF StoreNext

\* CLightWatchStore implements the archive: readers see first records only,
\* and what a restart gives back is what was archived.
THEOREM StoreImplementsArchive == StoreSpec => ArchiveSpec
BY InitArchive, StepArchive, Invariant, InitIInv, PTL
   DEF StoreSpec, ArchiveSpec, Archive!ArchiveSpec

=============================================================================
