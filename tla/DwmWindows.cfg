CONSTANTS
  w1 = w1  w2 = w2  w3 = w3
  Client = {w1, w2, w3}
  NoClient = NoClient
  NTags = 2
  NScratch = 0
  MaxMons = 1
  Hints <- PlainHints
  Keys = {"view", "tag", "sticky", "stack", "zoom"}
SPECIFICATION Spec
INVARIANTS WalkVisitsAll PushReturns
PROPERTIES StickyYieldsOnView FailsOnlyUnseen
CHECK_DEADLOCK FALSE
