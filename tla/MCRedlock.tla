----------------------------- MODULE MCRedlock -----------------------------
(***************************************************************************)
(* Small instances of Redlock for TLC: three nodes (a quorum is two, and   *)
(* one node may lag behind or fail) and two calls that want a common key.  *)
(***************************************************************************)
EXTENDS Redlock, TLC

CONSTANTS n1, n2, n3, c1, c2, k1, k2

\* Resources of the two calls.
SameKey == c1 :> {k1} @@ c2 :> {k1}
Overlapping == c1 :> {k1, k2} @@ c2 :> {k2}

\* How often the two calls attempt, extend or release.
None == c1 :> 0 @@ c2 :> 0
Once == c1 :> 1 @@ c2 :> 1
FirstOnce == c1 :> 1 @@ c2 :> 0
FirstTwice == c1 :> 2 @@ c2 :> 1

\* A single call, for the liveness run.
AloneKey == c1 :> {k1}
AloneOnce == c1 :> 1
AloneTwice == c1 :> 2

\* All nodes are alike; so are the calls, where their constants are.
Nodes == Permutations({n1, n2, n3})
NodesAndClients == Nodes \union Permutations({c1, c2})
=============================================================================
