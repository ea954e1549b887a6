CONSTANTS
  Block <- MCBlock
  NoBlock = NoBlock
  NoEdge = NoEdge
  Params <- MCParams
  IRValue <- MCIRValue
  Content <- MCContent
  Terminators <- SwapInLoop
SPECIFICATION FairMachineSpec
CHECK_DEADLOCK FALSE
PROPERTIES
  ParallelCopy
