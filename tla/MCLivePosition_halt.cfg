SPECIFICATION Spec
CONSTANTS
  Lot = 2
  MaxLevel = 2
  DisableStopLoss = FALSE
  MaxStops = 6
  MaxEntries = 1
  Budget <- OutsideOnly
PROPERTIES
  SafetyHaltStays
