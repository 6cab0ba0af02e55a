CONSTANTS
  NumWords = 2
  Zero = zero
  Words = {zero, one}
  Junk = junk
  SeqNext <- MCSeqNext
  Transfers <- MCTransfers
  MaxFaults = 2
  CODE_ADDR_COMM = 2
  CODE_DATA = 3
  RW_DWORD = 2
SPECIFICATION LostSpec
PROPERTY OnlyAskedWrites
CHECK_DEADLOCK FALSE
