CONSTANTS
  w1 = w1  w2 = w2  w3 = w3
  Client = {w1, w2}
  NoClient = NoClient
  NTags = 2
  NScratch = 1
  MaxMons = 1
  Hints <- ScratchHints
  Keys = {"view", "toggleview", "tag", "toggletag", "scratch", "shift", "urgent", "pointer", "stack", "zoom"}
SPECIFICATION Spec
INVARIANTS TypeOK SelectedIsShown FocusNotLost TagsRemembered
CHECK_DEADLOCK FALSE
