------------------------------ MODULE MCLatch ------------------------------
(* Small instances of Latch. *)
EXTENDS Latch, TLC

CONSTANTS n1, n2, k1, c1, c2, w1, w2, p, q, e, f

\* One worker shares the creator's connections, the other comes from elsewhere.
TwoProcesses == k1 :> p @@ c1 :> p @@ c2 :> q
Two == k1 :> 2
\* The second worker reports the first one's event once more, or one of its own.
OneEvent == c1 :> e @@ c2 :> e
TwoEvents == c1 :> e @@ c2 :> f
Setups == {[event |-> OneEvent, pubSub |-> TRUE, faults |-> 1],
           [event |-> TwoEvents, pubSub |-> TRUE, faults |-> 0],
           [event |-> TwoEvents, pubSub |-> FALSE, faults |-> 1]}
=============================================================================
