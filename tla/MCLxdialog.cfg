SPECIFICATION Spec
CONSTANTS
  Letters = {"a", "b", "n", "s", "x"}
  NULL = NULL
  ListHeight = 3
  MaxLen = 1
  BoxWidth = 3
  InputLen = 4
  Chars = {"a"}
  single_menu_mode = FALSE
  MenuPrompts <- MCMenuPrompts
  Menus <- MCMenus
  ChoiceLists <- MCChoices
  Texts <- MCTexts
  Notes <- MCNotes
  Strings <- MCStrings
  Prompts <- MCPrompts
  Sizes <- MCSizes
INVARIANT
  BoxShowsState
PROPERTIES
  MovesAsAsked
  PlaceIsKept
  Responds
CHECK_DEADLOCK FALSE
