SPECIFICATION FairSpec
CONSTANTS
  Sessions <- MCSessions
  Rounds = 2
INVARIANTS
  FoundIsPresent
  AreaFits
  Undisturbed
PROPERTIES
  GivesUp
CHECK_DEADLOCK FALSE
