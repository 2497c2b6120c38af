SPECIFICATION Spec
CONSTANTS
  N = 3
  Ts <- TiedSeconds
  Coins <- OneTwoOne
  ZeroBlocks <- NoBlocks
  Base = 1
  Timely = FALSE
  SaveWhenIdle = TRUE
  AllowStop = FALSE
  MaxCrashes = 0
  MaxSaves = 0
  MaxFaults = 0
INVARIANTS NoBlockPassedOver
CHECK_DEADLOCK FALSE
