\* Two pairs on one file, three price levels, an order that may be torn.
SPECIFICATION Spec
CONSTANTS
  Symbols <- Two
  Sides <- BtcShorts
  Prices = {10, 20, 30}
  Sizes = {1, 2}
  Capital = 100
  FeeDivisor = 10
  Leverage = 2
  Exits <- ThreeExits
  Ages = {0, 1}
  MaxFunding = 2
  MaxOpens = 2
  MaxUpsets = 1
INVARIANTS
  TypeOK
  CashExplained
  LedgersFollowRows
CHECK_DEADLOCK FALSE
