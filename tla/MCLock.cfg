SPECIFICATION Spec
CONSTANTS
  n1 = n1  n2 = n2  n3 = n3
  c1 = c1  c2 = c2
  k1 = k1  k2 = k2
  Node = {n1, n2, n3}
  Client = {c1, c2}
  Key = {k1}
  NoClient = NoClient
  Resources <- SameKey
  Ttl = 3
  ExtendTtls = {}
  DriftNum = 0
  DriftDen = 1
  ClockSkew = 1
  MaxAttempts <- Once
  MaxExtends <- None
  MaxReleases <- Once
  MaxTime = 3
  FaultKinds = {"timeout", "noscript", "disconnect", "open"}
  MaxFaults = 1
SYMMETRY NodesAndClients
CHECK_DEADLOCK FALSE
INVARIANTS TypeOK IInv MutualExclusion TheftAlarmIsReal
PROPERTY LeaseSpec
