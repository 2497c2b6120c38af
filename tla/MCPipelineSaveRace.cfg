SPECIFICATION Spec
CONSTANTS
  N = 3
  Ts <- StrictSeconds
  Coins <- OneTwoOne
  ZeroBlocks <- NoBlocks
  Base = 1
  Timely = TRUE
  SaveWhenIdle = FALSE
  AllowStop = FALSE
  MaxCrashes = 0
  MaxSaves = 1
  MaxFaults = 0
INVARIANTS SnapshotOfOneBlock
CHECK_DEADLOCK FALSE
