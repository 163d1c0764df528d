SPECIFICATION Spec
CONSTANTS
  Lot = 4
  MaxLevel = 1
  DisableStopLoss = TRUE
  MaxStops = 1
  MaxEntries = 3
  Budget <- Unprotected
INVARIANTS
  BookedWithinClosed
PROPERTIES
  EntersOnlyWhenBooked
  FulfilsPromise
