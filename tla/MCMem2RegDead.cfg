CONSTANTS
  Block <- MCBlock
  Entry = 1
  NoBlock = NoBlock
  Var <- MCVar
  Constant <- MCConstant
  Functions <- DeadFunctions
  Null = Null
SPECIFICATION Spec
INVARIANTS
  EdgeArgsMatchParams
