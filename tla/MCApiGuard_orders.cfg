\* Is a call that changes an order ever refused by the guard?
SPECIFICATION Safe
CONSTANTS
  Threads <- MCThreads
  Uses <- MCUses
  AlwaysAllow <- DefaultAllow
  Threshold = 2
  HalfMax = 2
  Capacity = 6
  MaxFaults = 2
INVARIANT
  OrdersNeverHeld
