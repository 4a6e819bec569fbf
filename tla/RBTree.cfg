SPECIFICATION Spec
CONSTANTS
  Keys <- TenKeys
INVARIANTS
  HoldsItsKeys
  RedBlack
  WalksAreRight
PROPERTIES
  PassesClimb
