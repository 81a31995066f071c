SPECIFICATION Spec
CONSTANTS
  n1 = n1  n2 = n2  n3 = n3
  c1 = c1  c2 = c2
  Node = {n1, n2, n3}
  Call = {c1, c2}
  NoOne = NoOne  Empty = Empty
  Cast <- Hybrids
  Version = {0, 1}
  Ttl = 2
  Drift = 0
  MaxAttempts = 1
  MaxUpdates = 1
SYMMETRY Nodes
CHECK_DEADLOCK FALSE
INVARIANTS HybridExclusive
