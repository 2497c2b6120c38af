SPECIFICATION FairSpec
CONSTANTS
  Size = 50
  First = 2
  Step = 15
  MaxBlock = 4
  RowCounts = {1, 2, 3, 5, 8, 13}
INVARIANTS TypeOK RangeExact
PROPERTIES NewestFound
CHECK_DEADLOCK FALSE
