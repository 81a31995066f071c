SPECIFICATION FairSpec
CONSTANTS
  n1 = n1  n2 = n2
  k1 = k1  c1 = c1  c2 = c2  p = p  q = q  e = e  f = f
  w1 = w1  w2 = w2
  Node = {n1, n2}
  Creator = {k1}
  Worker = {c1, c2}
  Waiter = {w1, w2}
  Process = {p, q}
  Proc <- TwoProcesses
  Count <- Two
  Setup <- Setups
  ReadNode = n1
CHECK_DEADLOCK FALSE
INVARIANTS TypeOK OpensOnTarget CountedOnQuorum NodesAgree ListenersSubscribed
PROPERTY AwaitSettles
