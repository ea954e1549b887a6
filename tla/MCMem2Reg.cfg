CONSTANTS
  Block <- MCBlock
  Entry = 1
  NoBlock = NoBlock
  Var <- MCVar
  Constant <- MCConstant
  Functions <- MCFunctions
  Null = Null
SPECIFICATION FairSpec
INVARIANTS
  TypeOK
  PhiIsIteratedFrontier
  EdgeArgsMatchParams
  SSAForm
  OnlyPromotedVanish
PROPERTIES
  Terminates
