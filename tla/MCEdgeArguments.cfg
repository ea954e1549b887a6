CONSTANTS
  Block <- MCBlock
  NoBlock = NoBlock
  NoEdge = NoEdge
  Params <- MCParams
  IRValue <- MCIRValue
  Content <- MCContent
  Terminators <- InOrder
SPECIFICATION MachineSpec
CHECK_DEADLOCK FALSE
INVARIANTS
  CopiedSoFar
PROPERTIES
  ParallelCopy
