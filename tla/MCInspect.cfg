SPECIFICATION Spec
CONSTANTS
  NWINDOWS = 8
  Lines = 8
  Names <- MCNames
  Values <- MCValues
  Counts <- MCCounts
  Sizes <- MCSizes
  Pointers <- MCPointers
  Actives = {0, 1}
  Late <- MCLate
  MaxFaults = 1
  MaxPages = 1
  MaxMoves = 1
  MaxCommands = 2
INVARIANTS TypeOK RegShowsItsRegister ListingIsTail ListingInOrder
PROPERTIES OnlyItsRegister CommandReturns
CHECK_DEADLOCK FALSE
