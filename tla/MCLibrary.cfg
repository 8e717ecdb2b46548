CONSTANTS
  Nonce = {n1, n2}
  NoNonce = NoNonce
  PongTimeout = 1
  MaxInbox = 2
  ByteBits = 1
  Limbs = 3
  Start = {5, 273, 3003}
  Shifts = {1, 3, 4, 6, 9, 12}
  Factors = {3, 15}
  Operands = {1, 6, 15}
  Compacts <- MCCompacts
  RadixBits = 2
  Factor <- MCFactor
  Spacing = 2
  HalfLife = 3
  AnchorHeight = 3
  AnchorTime = 5
  AnchorBits <- MCAnchorBits
  PowLimit <- MCPowLimit
  Heights = {3, 5, 9}
  Times = {0, 7, 11, 15, 22, 26, 31}
  Addr = {1, 2, 3, 4, 5}
  MaxTx = 5
  PaidTo <- MCPaidTo
  BitsOf <- MCBitsOf
  MaxElements = 4
  Byte = 8
  CountBase = 16
  Counts = {0, 1, 2, 3, 4, 5, 6, 7, 8, 15}
  Header = {0, 1, 2, 3, 4, 5, 6, 7, 8, 9, 10, 11, 12, 13, 14, 15}
  NoHeader = NoHeader
  Prev <- MCPrev
  Time <- MCTime
  Work <- MCWork
  Good = {0, 1, 2, 3, 4, 5, 6, 7, 8, 10, 11, 12, 13, 14, 15}
  Expected = {0, 1, 2, 3, 4, 5, 6, 7, 8, 9, 10, 11, 12, 13, 15}
  CpHeight = 2
  CpHash = 3
  CpWork = 14
  Window = 3
  BatchMax = 2
  Branches <- MCBranches
  MaxBatches = 3
  MaxAttempts = 2
  MaxReorg = 2
  Host = {h1, h2, h3}
  MaxConns = {1, 2}
  MaxSlots = 3
  Thread = {w1, w2}
  NoThread = NoThread
  MaxBlocks = 2
  MaxReads = 2
SPECIFICATION LibrarySpec
INVARIANTS
  PeerTypeOK
  ReadyAfterHandshake
  AwaitsOwnPong
  TwoMissesClose
  ArithAgrees
  MatchesAreOfBlock
  HonestByteAccepted
  StoreIsOneLine
  ChainIsSound
  HeightsAgree
  NewSegmentChecked
PROPERTIES
  HandshakeSettles
  OpenIsKept
  ButtonComesBack
  HeaderPhaseEnds
