SPECIFICATION Spec
CONSTANTS
  n1 = n1  n2 = n2  n3 = n3
  c1 = c1  c2 = c2  c3 = c3
  Node = {n1, n2, n3}
  Client = {c1, c2}
  MaxPermits = 1
  Ttl <- UnitTtl
  Drift = 0
  ReadNode = n1
  Refusals <- NoneOpen
  Unloaded <- NoScripts
  MaxAttempts <- Once
  MaxExtends <- None
  MaxReleases <- None
  MaxTime = 1
  MaxFaults <- None
SYMMETRY OtherNodes
CHECK_DEADLOCK FALSE
INVARIANTS AtMostMaxPermits
