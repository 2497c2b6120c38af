SPECIFICATION FairSpec
CONSTANTS
  N = 3
  Ts <- StrictSeconds
  Coins <- OneTwoOne
  ZeroBlocks <- NoBlocks
  Base = 1
  Timely = TRUE
  SaveWhenIdle = TRUE
  AllowStop = TRUE
  MaxCrashes = 0
  MaxSaves = 3
  MaxFaults = 0
PROPERTIES BlocksGetMerged SavesEnd StopEndsListener
