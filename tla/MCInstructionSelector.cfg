CONSTANTS
  Programs <- MCPrograms
  WordBits = 8
  OffsetLimit = 16
  StackTop = 208
  ReturnAddress = 77
  Results <- MCResults
  MaxInt = 255
SPECIFICATION Spec
INVARIANTS
  MachineRepresentsIR
  CalleeSeesArguments
  CallerGetsBack
