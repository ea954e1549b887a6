CONSTANTS
  Programs <- MCPrograms
  MaxInt = 15
SPECIFICATION Spec
INVARIANTS
  UsesResolveLexically
  ConstantsAsAtRunTime
  ArraysInitialized
  AcceptsTheRight
CHECK_DEADLOCK FALSE
