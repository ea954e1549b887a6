CONSTANTS
  Node <- MCNode
  Programs <- MCPrograms
  Outcome <- MCOutcome
SPECIFICATION ExecSpec
INVARIANTS
  TypeOK
  OneTerminator
  NoBlockForgotten
  NeverWithoutBlock
  StacksMatchNesting
  SameEvents
PROPERTIES
  EveryBlockReachable
