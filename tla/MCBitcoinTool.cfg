SPECIFICATION FairSpec
CONSTANTS
  CommandLines <- MCCommandLines
  Texts <- MCTexts
  MaxLines = 2
INVARIANTS
  TypeOK
  WrittenIsDerived
  AllIsWritten
  ReadsBack
  SuccessMeansAllRead
PROPERTY
  ProgramEnds
