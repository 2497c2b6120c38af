SPECIFICATION FairSpec
CONSTANTS
  Limit = 3
  Lag = 2
  Hour = 2
  Halted = {8}
  MaxTime = 9
  MaxKills = 1
INVARIANTS TicksClosed HoursWhole
PROPERTIES OldBlocksPriced SyncReturns
