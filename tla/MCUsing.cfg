CONSTANTS
  Ttl = 9
  ManualTtls = {9}
  Drift = 1
  Threshold = 6
  InitialLeft <- FourOrEight
  RoundTrip = 2
  TimerLag = 1
  MayFail = TRUE
  MaxRequests = 3
SPECIFICATION FairSpec
INVARIANTS TypeOK ExpirationBacked NothingAfterStop ToldInTime
PROPERTY UsingSettles
