CONSTANTS
  a1 = a1
  a2 = a2
  Addr = {a1, a2}
  Peers = 3
  ReloadAfter = 1
  NoPeer = NoPeer
  NoFilter = NoFilter
SPECIFICATION Spec
INVARIANTS
  TypeOK
  PumpIsOwned
  TwoNodes
PROPERTIES
  StopEndsWorker
  FailoverProceeds
