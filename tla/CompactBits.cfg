CONSTANTS
  ByteBits = 2
  Limbs = 2
  Start = {}
  Shifts = {}
  Factors = {}
  Operands = {}
  Compacts <- MCCompacts
  RadixBits = 2
  Factor <- MCFactor
  Spacing = 2
  HalfLife = 3
  PowLimit <- MCPowLimit
  AnchorBits <- MCAnchorBits
  AnchorHeight = 3
  AnchorTime = 5
  Heights = {3}
  Times = {7}
SPECIFICATION ArithSpec
INVARIANTS
  CompactAgrees
