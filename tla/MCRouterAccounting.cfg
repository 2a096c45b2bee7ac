SPECIFICATION Spec
CONSTANTS
  Servers = {s1, s2}
  Sessions = {x1, x2}
  Calls = {c1, c2, c3}
  NoServer = NoServer
  Foreign = Foreign
  Blocks <- MCBlocks
  Prompts <- MCPrompts
  BlockSize = 2
  Capacity = 6
  MinFree = 4
  Tolerance = 5
  Shortcut = FALSE
  MaxEvents = 1
SYMMETRY MCSymmetry
INVARIANTS
  LoadExact
  PinBookExact
PROPERTIES
  GateSeesHolders
