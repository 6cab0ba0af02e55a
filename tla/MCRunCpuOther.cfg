CONSTANTS
  NumCores = 2
  FifoDepth = 2
  MaxOut = 2
  Activable <- MCBoth
  MaxCommands = 2
SPECIFICATION Spec
PROPERTY RunReturns
CHECK_DEADLOCK FALSE
