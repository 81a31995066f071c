CONSTANTS
  Ttl = 7
  ManualTtls = {}
  Drift = 1
  Threshold = 2
  InitialLeft <- Six
  RoundTrip = 1
  TimerLag = 2
  MayFail = FALSE
  MaxRequests = 3
SPECIFICATION FairSpec
PROPERTY RoutineIsTold
