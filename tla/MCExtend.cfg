SPECIFICATION Spec
CONSTANTS
  n1 = n1  n2 = n2  n3 = n3
  c1 = c1  c2 = c2
  k1 = k1  k2 = k2
  Node = {n1, n2, n3}
  Client = {c1, c2}
  Key = {k1}
  NoClient = NoClient
  Resources <- SameKey
  Ttl = 3
  ExtendTtls = {4}
  DriftNum = 0
  DriftDen = 1
  ClockSkew = 1
  MaxAttempts <- Once
  MaxExtends <- FirstOnce
  MaxReleases <- FirstOnce
  MaxTime = 3
  FaultKinds = {}
  MaxFaults = 0
SYMMETRY Nodes
CHECK_DEADLOCK FALSE
INVARIANTS IInv
PROPERTY LeaseSpec
