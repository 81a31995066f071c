SPECIFICATION FairSpec
CONSTANTS
  n1 = n1  n2 = n2  n3 = n3
  c1 = c1  c2 = c2
  k1 = k1  k2 = k2
  Node = {n1, n2}
  Client = {c1}
  Key = {k1}
  NoClient = NoClient
  Resources <- AloneKey
  Ttl = 3
  ExtendTtls = {3}
  DriftNum = 0
  DriftDen = 1
  ClockSkew = 1
  MaxAttempts <- AloneTwice
  MaxExtends <- AloneOnce
  MaxReleases <- AloneOnce
  MaxTime = 1
  FaultKinds = {"timeout", "open"}
  MaxFaults = 10
CHECK_DEADLOCK FALSE
PROPERTIES AcquireSettles ExtendSettles ReleaseSettles
