CONSTANTS
  FalsePositives = FALSE
  Addr = {1, 2}
  PaidTo <- MCPaidTo
  MaxTx = 2
  BitsOf <- MCBitsOf
  MaxElements = 4
  Byte = 8
  CountBase = 16
  Counts = {1, 2, 3}
SPECIFICATION FilteredSpec
INVARIANTS
  PaymentIsMatched
