----------------------------- MODULE Consensus -----------------------------
(***************************************************************************)
(* ConsensusManager: a round runs one command on every Redis node and      *)
(* counts the answers.  These are the parts the strategies share: votes,   *)
(* quorums, and the connections the commands travel on, which deliver them *)
(* in the order they were sent.  operationTimeout only stops WAITING for a *)
(* command: the command stays in the connection and runs later.            *)
(***************************************************************************)
EXTENDS Integers, FiniteSets, Sequences

CONSTANT Node   \* the Redis nodes ("clients" in the code's own vocabulary)

ASSUME NodeAssumption == Node # {} /\ IsFiniteSet(Node)

\* Mutation: off by one.
HalfOfNodes == Cardinality(Node) \div 2

QuorumSize == Cardinality(Node) \div 2 + 1

Vote == {"none", "pending", "for", "against", "error", "open"}
NoVotes == [n \in Node |-> "none"]

With(v, x) == {n \in Node : v[n] = x}
Quorum(v) == Cardinality(With(v, "for")) >= QuorumSize
NoQuorum(v) == With(v, "pending") = {} /\ ~Quorum(v)

\* The breaker of a node in refused rejects the operation before it is sent.
Opening(refused) == [n \in Node |-> IF n \in refused THEN "open" ELSE "pending"]

\* The connections of a caller after its round sends cmd to every node not refused.
Send(q, cmd, refused) ==
  [n \in Node |-> IF n \in refused THEN q[n] ELSE Append(q[n], cmd)]

\* The end of a round abandons the commands it still waits for (after a failed
\* round there are none): they run on their node, and nobody hears the answer.
Abandon(q, ops) ==
  [i \in 1..Len(q) |-> IF q[i].op \in ops THEN [q[i] EXCEPT !.live = FALSE] ELSE q[i]]
AbandonAll(qs, ops) == [n \in Node |-> Abandon(qs[n], ops)]
=============================================================================
