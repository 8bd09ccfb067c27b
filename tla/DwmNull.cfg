CONSTANTS
  w1 = w1  w2 = w2  w3 = w3
  Client = {w1, w2}
  NoClient = NoClient
  NTags = 1
  NScratch = 0
  MaxMons = 2
  Hints <- PlainHints
  Keys = {"monitor", "sticky"}
SPECIFICATION Spec
INVARIANTS StickiesAreChecked
CHECK_DEADLOCK FALSE
