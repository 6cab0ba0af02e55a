SPECIFICATION Spec
CONSTANTS
  Commands <- MCCommands
  MaxFaults = 2
  MaxCuts = 1
  MaxLines = 3
INVARIANTS TypeOK JtagOnlyWhenReady LeavesChipReset
PROPERTIES HandleUsedOpen SetUpEnds LeftWhenAsked
CHECK_DEADLOCK FALSE
