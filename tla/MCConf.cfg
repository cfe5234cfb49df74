SPECIFICATION ConfSpec
CONSTANTS
  Type <- MCType
  Menus = {}
  Strings = {"d1", "d2"}
  Number <- MCNumber
  Others = {}
  Expressions = {}
  Subjects = {}
  Texts <- MCTexts
  Asked <- Walks
  Saved <- MCSaved
  Modes = {"all", "new", "silent", "default", "set"}
PROPERTIES
  DependsCombined
  Reachable
  AnswersKept
  ConfEnds
CHECK_DEADLOCK FALSE
