SPECIFICATION Safe
CONSTANTS
  Lot = 2
  MaxLevel = 2
  DisableStopLoss = FALSE
  MaxStops = 6
  MaxEntries = 2
  Budget <- LostAnswers
INVARIANTS
  TrackedStopMatches
  StopCoversPosition
  BookedWithinClosed
PROPERTIES
  EntersOnlyWhenFlat
  StopNeverLoosens
  KeepsPromise
