SPECIFICATION Spec
CONSTANTS
  CommandLines <- MCCommandLines
  Modules <- MCModules
  Rewritten <- MCRewritten
INVARIANTS
  VerifiedIsEmitted
  SuccessIsWholeOutput
CHECK_DEADLOCK FALSE
