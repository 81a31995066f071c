SPECIFICATION Spec
CONSTANTS
  n1 = n1  n2 = n2  n3 = n3
  c1 = c1  c2 = c2
  k1 = k1  k2 = k2
  Node = {n1, n2, n3}
  Client = {c1, c2}
  Key = {k1, k2}
  NoClient = NoClient
  Resources <- Overlapping
  Ttl = 3
  ExtendTtls = {}
  DriftNum = 0
  DriftDen = 1
  ClockSkew = 1
  MaxAttempts <- FirstTwice
  MaxExtends <- None
  MaxReleases <- Once
  MaxTime = 1
  FaultKinds = {"timeout"}
  MaxFaults = 2
SYMMETRY Nodes
CHECK_DEADLOCK FALSE
INVARIANTS MutualExclusion FinishedCallLeavesNoKey
