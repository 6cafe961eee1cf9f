CONSTANTS
  Name = {1, 2}
  Path <- Paths
  Depths <- SomeDepths
  AttrName = {"recurse", "emailto"}
  Prop = {"p", "i"}
  Predefined = "H"
  Relative = Relative
  Undefined = Undefined
  Themes = {"directives"}
  Statements <- TheStatements
  MaxText <- TextLengths
  Handles = {h1, h2, h3}
  Texts <- TwoTexts
  Parts <- TwoParts
  Slash = "/"
  LowerChar <- ToLower
  DoubleSlash = FALSE
  MaxLen = 1
  NoName = NoName
  HeapOrders <- TwoHeaps
  UseOf = {"text"}
SPECIFICATION LanguageSpec
INVARIANT SkippedIsSkipped
CHECK_DEADLOCK FALSE
