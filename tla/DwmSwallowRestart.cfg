CONSTANTS
  t1 = t1  t2 = t2  p1 = p1  p2 = p2  p3 = p3
  Terminals = {t1}
  Programs = {p1}
  StartedFrom <- FromFirst
  NeverSwallowed = {}
  None = None
  MaxMaps = 2
SPECIFICATION FairSpec
PROPERTIES TakesPlaceTemporarily
