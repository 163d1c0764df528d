SPECIFICATION Safe
CONSTANTS
  Lot = 4
  MaxLevel = 2
  DisableStopLoss = FALSE
  MaxStops = 6
  MaxEntries = 1
  Budget <- CrashOnly
INVARIANTS
  PartialTpOnce
