CONSTANTS
  HISTSIZE = 4
  TabSpaces = 1
  WideChars = {"w"}
  Sessions <- ScreenAndPast
SPECIFICATION Spec
INVARIANTS TypeOK OriginHoldsCursor
PROPERTIES EveryChangeIsDrawn EpisodeRestoresScreen SelectedTextKept LookingMovesSelection
  ImplementsScrollback ResizeKeepsCursorLine
CHECK_DEADLOCK FALSE
