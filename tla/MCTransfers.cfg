CONSTANTS
  MemWords = 6
  ChunkWords = 2
  BufWords = 4
  Cutoff = 4
  WordMod = 8
  Words <- MCWords
  Spoilt <- MCSpoilt
  Late <- MCLate
  Files <- MCFiles
  Addresses <- MCAddresses
  Lengths <- MCLengths
  MaxFaults = 1
  MaxCommands = 2
SPECIFICATION Spec
INVARIANTS TypeOK WritesWhatWasAsked NothingElse ReadsWhatIsThere VerifyTruthful
PROPERTY CommandReturns
CHECK_DEADLOCK FALSE
