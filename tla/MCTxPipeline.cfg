CONSTANTS
  Conn = {worker, standby}
  Backfill = {backfill}
  Addr = {a1}
  t1 = t1
  Txid = {t1}
  its = its
  other = other
  Block = {its, other}
  Matches <- MCMatches
  Offers <- MCOffers
  Wanted = {other}
  NoBlock = NoBlock
  NoEntry = NoEntry
  MaxPending = 2
SPECIFICATION Spec
INVARIANTS
  NoStrandedPair
  StoredWasDelivered
  IndexRefersToTx
  ListIsFresh
PROPERTIES
  PairIsStored
