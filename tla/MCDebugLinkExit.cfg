CONSTANTS
  NumWords = 2
  Zero = zero
  Words = {zero, one}
  Junk = junk
  SeqNext <- MCSeqNext
  Transfers <- MCTransfers
  MaxFaults = 0
SPECIFICATION Spec
INVARIANT WrittenAtExit
CHECK_DEADLOCK FALSE
