SPECIFICATION Spec
CONSTANTS
  N = 3
  Ts <- TiedSeconds
  Coins <- OneTwoOne
  ZeroBlocks <- BlockTwo
  Base = 1
  Timely = TRUE
  SaveWhenIdle = TRUE
  AllowStop = TRUE
  MaxCrashes = 0
  MaxSaves = 2
  MaxFaults = 1
INVARIANTS MutualExclusion CursorMeans SnapshotUsable
PROPERTIES OnlyNextBlockMoves
CHECK_DEADLOCK FALSE
