CONSTANTS
  w1 = w1  w2 = w2  w3 = w3  w4 = w4  w5 = w5
  Window = {w1, w2, w3, w4, w5}
  NoWindow = NoWindow
  Hints <- Kinds
  MonPos <- Position
  MonSize <- Size
  BarHeight = 4
  Border = 1
  Snap = 8
  DefaultGaps <- SmallGaps
  Starts <- Beginnings
  Sizes <- Asked
  Places <- Points
  Borders = {0, 3}
  MaxOps = 3
SPECIFICATION Spec
INVARIANTS TypeOK TiledFit
PROPERTIES TiledSettled FullscreenReturns
CHECK_DEADLOCK FALSE
