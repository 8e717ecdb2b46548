CONSTANTS
  Txid = {t1, t2, t3, t4, t5}
  Block = {b1}
  NoBlock = NoBlock
  NoEntry = NoEntry
  MaxPending = 2
  PairTimeout = 1
  MaxRetry = 3
  Addr = {a1, a2}
  StoreTxid = {t4, t5}
  Record = {r1, r2}
  NoRecord = NoRecord
  SdkTxid = {t1, t2, t3}
  Node = {n1, n2}
  SdkAddr = {w1}
  None = None
  MaxPool = 2
  MaxFilter = 1
SPECIFICATION TablesSpec
CONSTRAINT FewStored
SYMMETRY TablesSymmetry
INVARIANTS
  PendingTypeOK
  MapBounded
  FifoTracksLive
  RetryBudget
  StoreTypeOK
  IndexRefersToTx
  MemoryIsDurable
  PoolIsSound
  ConnectedAsTold
  OpenSendIsWatched
PROPERTIES
  
  ShownRecordKept
  ArchiveSpec
  SentOncePerStay
CHECK_DEADLOCK FALSE
