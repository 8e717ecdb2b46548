CONSTANTS
  Host = {h1, h2}
  MaxConns = {1, 2}
  MaxSlots = 2
SPECIFICATION ConnsSpec
PROPERTIES
  CountedAreOpen
