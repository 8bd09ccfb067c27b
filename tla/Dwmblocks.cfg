SPECIFICATION Spec
CONSTANTS
  NBlocks = 2
  BlockInterval <- MCInterval
  BlockSignal <- MCSignal
  WordSize = 2
  MaxSlots = 3
  Values = {v1, v2}
  Empty = Empty
  Scraps = {Empty}
  ClickSignals = {1}
  MaxQueued = 1
  MaxChildren = 1
SYMMETRY ValueSymmetry
INVARIANTS
  TypeOK
  FlaggedIsFound
  NoLostUpdate
  SleepsPublished
PROPERTIES
  ImplementsBoard
