CONSTANTS
  NumWords = 2
  Words = {zero, one}
  Junk = junk
  SeqNext <- MCSeqNext
  MaxFailed = 1
  MaxLate = 1
  CODE_ADDR_COMM = 2
  CODE_DATA = 3
  RW_DWORD = 2
SPECIFICATION ScanSpec
INVARIANTS TypeOK LengthsRight
PROPERTIES ScanOnlyHandsOver ScanReturns
CHECK_DEADLOCK FALSE
