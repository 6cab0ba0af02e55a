CONSTANTS
  NumWords = 2
  Zero = zero
  Words = {zero, one}
  Junk = junk
  SeqNext <- MCSeqNext
  Transfers <- MCTransfers
  MaxFaults = 1
  CODE_ADDR_COMM = 2
  CODE_DATA = 3
  RW_DWORD = 2
SPECIFICATION Spec
INVARIANT ParkingPlaces
PROPERTY ImplementsDebugLink
CHECK_DEADLOCK FALSE
