SPECIFICATION Spec
CONSTANTS
  n1 = n1  n2 = n2  n3 = n3
  c1 = c1  c2 = c2  c3 = c3
  Node = {n1, n2, n3}
  Client = {c1, c2, c3}
  MaxPermits = 2
  Ttl <- UnitTtl
  Drift = 0
  ReadNode = n1
  Refusals <- NoneOpen
  Unloaded <- NoScripts
  MaxAttempts <- Once
  MaxExtends <- None
  MaxReleases <- None
  MaxTime = 0
  MaxFaults <- None
SYMMETRY NodesAndCalls
CHECK_DEADLOCK FALSE
INVARIANTS AtMostMaxPermits
