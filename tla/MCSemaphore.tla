---------------------------- MODULE MCSemaphore ----------------------------
(***************************************************************************)
(* Small instances of Semaphore for TLC.                                   *)
(***************************************************************************)
EXTENDS Semaphore, TLC

CONSTANTS n1, n2, n3, c1, c2, c3

\* The unit of time is the ttl: a round may end in the instant its permits lapse.
UnitTtl == [c \in Client |-> 1]

None == [c \in Client |-> 0]
Once == [c \in Client |-> 1]
FirstOnce == [c \in Client |-> IF c = c1 THEN 1 ELSE 0]

\* The first node may have lost the acquire script from its cache.
NoScripts == [n \in Node |-> {}]
AcquireAtFirst == [n \in Node |-> IF n = n1 THEN {"acquire"} ELSE {}]

NoneOpen == {{}}
AllOpen == {{}, Node}

\* The first node is also the one whose status is read.
OtherNodes == Permutations({n2, n3})
NodesAndCalls == OtherNodes \union Permutations({c1, c2, c3})
=============================================================================
