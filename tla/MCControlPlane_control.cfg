\* Two pilots and one engine slot; a fault and a crash anywhere.
SPECIFICATION Spec
CONSTANTS
  alice = alice
  bob = bob
  Tenants <- TwoPilots
  MaxActive = 1
  MaxRequests = 3
  Traffic <- Rivals
  Overtaking = {"stop", "connect"}
  MaxFaults = 1
  MaxCrashes = 1
CHECK_DEADLOCK FALSE
INVARIANTS
  TypeOK
  SlotsBounded
  RunsCounted
  LiveFilesHaveTestedKeys
  RemovedIsDead
  OffMeansOff
  SessionNeedsWorkspace
PROPERTIES
  FailsSafe
  FailedActivationStopsTrading
