---------------------------- MODULE MCHybridLock ----------------------------
(* Small instances of HybridLock. *)
EXTENDS HybridLock, TLC

CONSTANTS n1, n2, n3, c1, c2

Nodes == Permutations({n1, n2, n3})

P == <<"pessimistic">>
O == <<"optimistic">>
PO == <<"pessimistic", "optimistic">>
OP == <<"optimistic", "pessimistic">>

Two(p, e, q, f, maxFaults, maxTime) ==
  [plan |-> c1 :> p @@ c2 :> q, expected |-> c1 :> e @@ c2 :> f,
   faults |-> maxFaults, time |-> maxTime]

\* Hybrid calls beside every other kind, and versioned calls beside each other.
Mixed == {Two(OP, 0, P, 0, 1, 1), Two(OP, 0, P, 0, 0, 2),
          Two(PO, 1, O, 1, 1, 1), Two(PO, 1, O, 1, 0, 2),
          Two(OP, 0, O, 0, 1, 1), Two(OP, 1, O, 1, 0, 2), Two(O, 0, O, 1, 0, 2)}
Hybrids == {Two(PO, 0, PO, 0, 0, 0)}
=============================================================================
