SPECIFICATION Spec
CONSTANTS
  Type <- MCType
  Menus <- MCMenus
  Strings = {"d1", "d2"}
  Number <- MCNumber
  Others <- MCOthers
  Expressions <- MCExpressions
  Subjects <- MCSubjects
INVARIANT ValuesLegal
PROPERTIES
  CacheIsFresh
  ChangesAreMarked
  SimplifiedAgrees
CHECK_DEADLOCK FALSE
