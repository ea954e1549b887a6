CONSTANTS
  Block <- MCBlock
  Entry = 1
  NoBlock = NoBlock
  Var <- MCVar
  Constant <- MCConstant
  Functions <- ExecFunctions
  Null = Null
  Outcome <- MCOutcome
  Undefined = Undefined
SPECIFICATION ExecSpec
INVARIANTS
  SameObservations
  SameMemory
  NoUndefinedRead
