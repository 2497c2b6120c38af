SPECIFICATION FairSpec
CONSTANTS
  Radix = 3
  Byte = 4
  Nibble = 2
  CheckSize = 2
  Checksum <- MCChecksum
  RunOn = 2
  Sources <- MCSources
  MaxSlips <- MCMaxSlips
  Alphabet <- MCAlphabet
  ChangeChars = 2
INVARIANTS
  KeepsWhatWasWritten
  SlipsRefused
  FixIsNearest
  FixChangesFew
  PositionsInText
PROPERTY
  SearchEnds
