SPECIFICATION FairSpec
CONSTANTS
  NBlocks = 2
  BlockInterval <- MCLiveInterval
  BlockSignal <- MCLiveSignal
  WordSize = 4
  MaxSlots = 2
  Values = {v1, v2}
  Empty = Empty
  Scraps = {Empty}
  ClickSignals = {5}
  MaxQueued = 1
  MaxChildren = 1
PROPERTIES
  EventuallyShown
  TicksKeepComing
