SPECIFICATION Spec
CONSTANTS
  Width = 2
  IdCode <- MCIdCode
  Setups <- MCSetups
INVARIANTS IdleIsRunTestIdle ShiftingInShiftState
PROPERTIES AccessSpec
CHECK_DEADLOCK TRUE
