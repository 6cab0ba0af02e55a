CONSTANTS
  NumCores = 2
  FifoDepth = 2
  MaxOut = 2
  Activable <- MCFirst
  MaxCommands = 3
SPECIFICATION Spec
INVARIANTS TypeOK ShownInOrder NoneLeftHeld
PROPERTIES ReportsThisRun OthersUndisturbed RunReturns
CHECK_DEADLOCK FALSE
