SPECIFICATION Spec
CONSTANTS
  N = 3
  Ts <- TiedSeconds
  Coins <- OneTwoOne
  ZeroBlocks <- NoBlocks
  Base = 1
  Timely = TRUE
  SaveWhenIdle = TRUE
  AllowStop = FALSE
  MaxCrashes = 2
  MaxSaves = 1
  MaxFaults = 1
INVARIANTS TypeOK MergedInOrder MergedOnce MemoryAgrees ResultFirst
PROPERTIES LedgerSpec WedgedStays
CHECK_DEADLOCK FALSE
