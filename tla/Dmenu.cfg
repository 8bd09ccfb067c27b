CONSTANTS
  Char <- Letters
  Space = " "
  Fold <- IgnoreCase
  Menus <- Inputs
  Typed <- KeyTexts
  Pasted <- Selections
  TextMax = 4
  LineCounts = {0, 2}
  PromptW = 1
  InputW = 2
  ArrowW = 2
  MenuW = 13
  RowH = 2
SPECIFICATION Spec
INVARIANTS TypeOK SelOnPage MatchesAreCurrent RejectKeepsMatch ClickFindsDrawn
CHECK_DEADLOCK FALSE
