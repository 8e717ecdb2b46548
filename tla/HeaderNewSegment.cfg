CONSTANTS
  Header = {0, 1, 2, 3, 4, 5, 6, 7, 8, 9, 10, 11, 12, 13, 14, 15}
  NoHeader = NoHeader
  Prev <- MCPrev
  Time <- MCTime
  Work <- MCWork
  Good = {0, 1, 2, 3, 4, 5, 6, 7, 8, 10, 11, 12, 13, 14, 15}
  Expected = {0, 1, 2, 3, 4, 5, 6, 7, 8, 9, 10, 11, 12, 13, 15}
  CpHeight = 2
  CpHash = 3
  CpWork = 14
  Window = 3
  BatchMax = 2
  Branches <- MCBranches
  MaxBatches = 3
  MaxAttempts = 2
  MaxReorg = 2
SPECIFICATION Spec
INVARIANTS
  NewSegmentFullyChecked
