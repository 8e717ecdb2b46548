CONSTANTS
  FalsePositives = TRUE
  Addr = {1, 2, 3, 4, 5}
  PaidTo <- MCPaidTo
  MaxTx = 5
  BitsOf <- MCBitsOf
  MaxElements = 4
  Byte = 8
  CountBase = 16
  Counts = {1, 2, 3}
SPECIFICATION FilteredSpec
INVARIANTS
  HonestProofAccepted
