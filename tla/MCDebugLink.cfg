CONSTANTS
  NumWords = 2
  Zero = zero
  Words = {zero, one}
  Junk = junk
  SeqNext <- MCSeqNext
  Transfers <- MCTransfers
  MaxFaults = 2
SPECIFICATION FairSpec
INVARIANTS TypeOK ParkedWhereExpected LateByFailures OnCourse
PROPERTIES ActsAsMemory AccessReturns
CHECK_DEADLOCK FALSE
