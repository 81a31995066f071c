----------------------- MODULE MCOptimisticRedlock -----------------------
(* Small instances of OptimisticRedlock. *)
EXTENDS OptimisticRedlock, TLC

CONSTANTS n1, n2, n3, c1, c2

Nodes == Permutations({n1, n2, n3})
NodesAndClients == Permutations({n1, n2, n3}) \union Permutations({c1, c2})

Pair(r, d) == {c1 :> r @@ c2 :> d, c1 :> d @@ c2 :> r}
Cast(roles, methods, maxCalls, maxFaults, maxTime) ==
  {[role |-> f, methods |-> methods, calls |-> maxCalls, faults |-> maxFaults, time |-> maxTime] :
     f \in roles}

\* Transactions that update twice; that use every method; beside calls of other kinds.
Mixed ==
  Cast(Pair("transaction", "transaction"), {"writing"}, 2, 2, 0)
    \union Cast(Pair("transaction", "transaction"), Method, 1, 1, 0)
    \union Cast(Pair("transaction", "transaction"), Method, 1, 0, 2)
    \union Cast(Pair("transaction", "optimistic"), Method, 1, 1, 2)
    \union Cast(Pair("transaction", "locker"), {"writing"}, 1, 0, 2)
Optimists == Cast(Pair("optimistic", "optimistic"), Method, 2, 0, 0)
=============================================================================
