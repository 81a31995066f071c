CONSTANTS
  Call = {c1, c2, c3, c4}
  FailureThreshold = 3
  ResetTimeout = 4
  MaxRetries = 2
  OperationTimeout = 2
  TimerLag = 1
  MaxOutages = 2
SPECIFICATION FairSpec
INVARIANTS TypeOK ProbesBounded ProbesPending BreakerInv
PROPERTIES TripsOnConsecutiveFailures Recovers
