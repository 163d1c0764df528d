\* Three threads behind one guard; the venue fails three calls.
SPECIFICATION Spec
CONSTANTS
  Threads <- MCThreads
  Uses <- MCUses
  AlwaysAllow <- DefaultAllow
  Threshold = 2
  HalfMax = 2
  Capacity = 1
  MaxFaults = 3
INVARIANTS
  TypeOK
  TrippedAtThreshold
  ProbesAccounted
PROPERTIES
  ReadsResume
  CallsReturn
