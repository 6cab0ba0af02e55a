CONSTANTS
  Cores = {core1, core2}
  ControlFlags = {"BE", "BW"}
  MaxFaults = 1
  MaxCalls = 3
SPECIFICATION Spec
INVARIANT TypeOK
PROPERTIES ImplementsFlags HeldStaysHeld
CHECK_DEADLOCK FALSE
