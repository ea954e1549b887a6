CONSTANTS
  Functions <- MCFunctions
  MaxInt <- MCMaxInt
SPECIFICATION Spec
CHECK_DEADLOCK FALSE
INVARIANTS
  TypeOK
  SlotsDisjoint
  SlotsInFrame
  CallsHaveRoom
  Aligned
