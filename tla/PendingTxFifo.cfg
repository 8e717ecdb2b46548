CONSTANTS
  Txid = {t1, t2, t3, t4, t5}
  Block = {b1}
  NoBlock = NoBlock
  NoEntry = NoEntry
  MaxPending = 2
  PairTimeout = 1
  MaxRetry = 3
SPECIFICATION PendingSpec
PROPERTIES
  EvictsOldest
CHECK_DEADLOCK FALSE
