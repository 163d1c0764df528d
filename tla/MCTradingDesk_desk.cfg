\* Two pairs, one position allowed; one order, two requests in flight.
SPECIFICATION Spec
CONSTANTS
  Symbols <- Two
  Pairs <- Two
  Order <- InOrder
  Regimes <- ThreeRegimes
  Strategies <- TwoStrategies
  Target <- Mapping
  Configured <- Trend
  Debounce = 2
  RecoveryCandles = 2
  ForceCloseCandles = 0
  InstantWhenFlat = FALSE
  Challenges <- OneOrder
  Clicks = {1, 2}
  Keys <- TwoKeys
  MaxClicks = 3
  Sides <- BtcShorts
  MaxOpen = 1
  Desks <- FourDesks
INVARIANTS
  TypeOK
  OneOrderPerConfirmation
PROPERTIES
  LimitHolds
  ForbiddenPairStaysOut
  OwnerManages
  ManualPositionWaits
