CONSTANTS
  w1 = w1  w2 = w2  w3 = w3
  Client = {w1, w2}
  NoClient = NoClient
  NTags = 2
  NScratch = 0
  MaxMons = 2
  Hints <- DialogHints
  Keys = {"fullscreen", "float", "urgent", "hints", "tag", "restart", "monitor", "drag", "hotplug", "layout", "pointer"}
SPECIFICATION Spec
INVARIANTS ListsAgree
PROPERTIES TagsFollowTheUser OldStateKept
