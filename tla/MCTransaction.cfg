SPECIFICATION Spec
CONSTANTS
  n1 = n1  n2 = n2  n3 = n3
  c1 = c1  c2 = c2
  Node = {n1, n2, n3}
  Client = {c1, c2}
  NoClient = NoClient
  Casts <- Mixed
  Ttl = 2
  Drift = 0
  MaxTries = 1
  MaxExtends = 1
  MaxOps = 2
  MaxConflicts = 2
  MaxTime = 2
  MaxFaults = 2
SYMMETRY NodesAndClients
CHECK_DEADLOCK FALSE
INVARIANTS TypeOK MutualExclusion NoLostUpdate TransactionsKeepCommits
