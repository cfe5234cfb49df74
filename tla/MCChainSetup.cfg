SPECIFICATION Spec
CONSTANTS
  Width = 6
  Chips <- MCChips
  Listed <- MCListed
  Chains <- MCChains
  Options <- MCOptions
INVARIANTS AcceptedWorks KnownChainAccepted
