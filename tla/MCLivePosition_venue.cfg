SPECIFICATION Spec
CONSTANTS
  Lot = 4
  MaxLevel = 1
  DisableStopLoss = FALSE
  MaxStops = 6
  MaxEntries = 1
  Budget <- UnrulyVenue
INVARIANTS
  TypeOK
  StopCoversPosition
PROPERTIES
  Converges
