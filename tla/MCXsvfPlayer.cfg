SPECIFICATION Spec
CONSTANTS
  Bits = 2
  Bytes = 3
  UChar = 4
  Repeats = {0, 1, 3}
  RunTimes = {0, 4}
  Lengths = {0, 1, 2}
  Masks <- MCMasks
  Data <- MCData
  Times = {0, 2}
  Comments = {0, 1}
  States <- MCStates
  WaitStates <- MCWaitStates
INVARIANTS
  InStep
  RetriesAsAsked
PROPERTIES
  IncrementIsExact
  CommandEnds
CHECK_DEADLOCK FALSE
