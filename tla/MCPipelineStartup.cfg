SPECIFICATION Spec
CONSTANTS
  N = 3
  Ts <- StrictSeconds
  Coins <- OneTwoOne
  ZeroBlocks <- NoBlocks
  Base = 1
  Timely = TRUE
  SaveWhenIdle = TRUE
  AllowStop = FALSE
  MaxCrashes = 1
  MaxSaves = 0
  MaxFaults = 0
INVARIANTS StartupAssert
CHECK_DEADLOCK FALSE
