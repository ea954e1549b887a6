SPECIFICATION Spec
CONSTANTS
  FunctionNames <- MCFunctionNames
  MaxConstructs = 2
INVARIANTS
  LabelsUnique
CHECK_DEADLOCK FALSE
