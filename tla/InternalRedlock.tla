-------------------------- MODULE InternalRedlock --------------------------
(***************************************************************************)
(* algorithms/redlock.ts: the library's second lock.  Unlike Redlock it    *)
(* has no operationTimeout and no early exit: a round is a Promise.all,    *)
(* which waits for the answer of every node, and an error counts against.  *)
(* So nothing a round sent is still under way when it ends.                *)
(*                                                                         *)
(* A client is a call of acquire() and the lock object it holds since; all *)
(* want the same resource.                                                 *)
(***************************************************************************)
EXTENDS Consensus

CONSTANTS
  Client,
  NoClient,    \* what GET returns for a key that does not exist
  Ttl,         \* of acquire() and extend()
  Drift        \* Math.round(driftFactor * ttl) + 2

CONSTANTS      \* bounds of the model, not of the code
  MaxTries,    \* retryCount + 1
  MaxExtends,  \* calls of extend() on one lock
  MaxTime,
  MaxFaults    \* commands that fail, executed or not

ASSUME LockAssumption ==
  /\ NoClient \notin Client
  /\ {Ttl, Drift, MaxTries, MaxExtends, MaxTime, MaxFaults} \subseteq Nat

VARIABLES
  now,       \* Date.now()
  lock,      \* lock[n]: the owner of the key on node n, and when the key expires
  pc,        \* pc[c]: where the call, or the lock it returned, stands
  vote,      \* vote[c][n]: what node n answered in the round in progress
  start,     \* start[c]: startTime of the attemptLock() or extend() in progress
  validity,  \* validity[c]: validity of the newest lock object of c
  tries,     \* tries[c]: attempts of acquire() and calls of extend() so far
  faults     \* commands that failed so far

lockVars == <<now, lock, pc, vote, start, validity, tries, faults>>

Free == [owner |-> NoClient, expiry |-> 0]

\* "undoing" and "dropping" are the release rounds of a failed attempt and of a failed
\* extension, "releasing" that of release().
PC == {"idle", "locking", "undoing", "waiting", "held", "extending", "dropping",
       "releasing", "released", "failed"}

\* lock.isValid, before its release
Valid(c) == pc[c] \in {"held", "extending"} /\ now < validity[c]

AllAnswered(v) == With(v, "pending") = {}
Polling == [n \in Node |-> "pending"]

\* The answer of a node reaches the round, or gets lost on the way.
Reply(c, n, granted) ==
  \/ /\ vote' = [vote EXCEPT ![c][n] = IF granted THEN "for" ELSE "against"]
     /\ UNCHANGED faults
  \/ /\ faults < MaxFaults /\ faults' = faults + 1
     /\ vote' = [vote EXCEPT ![c][n] = "error"]

\* The command itself gets lost.
CommandLost(c, n) ==
  /\ vote[c][n] = "pending"
  /\ faults < MaxFaults /\ faults' = faults + 1
  /\ vote' = [vote EXCEPT ![c][n] = "error"]
  /\ UNCHANGED <<now, lock, pc, start, validity, tries>>

(***************************************************************************)
(* The scripts, ACQUIRE_SCRIPT, EXTEND_SCRIPT and RELEASE_SCRIPT.          *)
(***************************************************************************)
Taken(c) == [owner |-> c, expiry |-> now + Ttl]
Granted(c, n) == lock[n].owner \in {NoClient, c}
Owned(c, n) == lock[n].owner = c

RunLock(c, n) ==
  /\ pc[c] = "locking" /\ vote[c][n] = "pending"
  /\ lock' = IF Granted(c, n) THEN [lock EXCEPT ![n] = Taken(c)] ELSE lock
  /\ Reply(c, n, Granted(c, n))
  /\ UNCHANGED <<now, pc, start, validity, tries>>

RunExtend(c, n) ==
  /\ pc[c] = "extending" /\ vote[c][n] = "pending"
  /\ lock' = IF Owned(c, n) THEN [lock EXCEPT ![n] = Taken(c)] ELSE lock
  /\ Reply(c, n, Owned(c, n))
  /\ UNCHANGED <<now, pc, start, validity, tries>>

RunUnlock(c, n) ==
  /\ pc[c] \in {"undoing", "dropping", "releasing"} /\ vote[c][n] = "pending"
  /\ lock' = IF Owned(c, n) THEN [lock EXCEPT ![n] = Free] ELSE lock
  /\ Reply(c, n, Owned(c, n))
  /\ UNCHANGED <<now, pc, start, validity, tries>>

(***************************************************************************)
(* acquire(): attemptLock() until it succeeds, at most retryCount + 1 times. *)
(***************************************************************************)
NewRound(c, stage) ==
  /\ pc' = [pc EXCEPT ![c] = stage]
  /\ vote' = [vote EXCEPT ![c] = Polling]

StartLock(c) ==
  /\ pc[c] \in {"idle", "waiting"}
  /\ NewRound(c, "locking")
  /\ start' = [start EXCEPT ![c] = now]
  /\ tries' = [tries EXCEPT ![c].lock = @ + 1]
  /\ UNCHANGED <<now, lock, validity, faults>>

\* Mutation: the elapsed time is ignored.
LeaseFromNow(c) == now + Ttl - Drift

\* startTime + (ttl - elapsed - drift), elapsed being now - startTime
Lease(c) == start[c] + (Ttl - (now - start[c]) - Drift)

\* quorum, and ttl - elapsed - drift > 0
Won(c) == AllAnswered(vote[c]) /\ Quorum(vote[c]) /\ Ttl - (now - start[c]) > Drift
Lost(c) == AllAnswered(vote[c]) /\ ~(Quorum(vote[c]) /\ Ttl - (now - start[c]) > Drift)

LockSucceeds(c) ==
  /\ pc[c] = "locking"
  /\ Won(c)
  /\ pc' = [pc EXCEPT ![c] = "held"]
  /\ vote' = [vote EXCEPT ![c] = NoVotes]
  /\ validity' = [validity EXCEPT ![c] = Lease(c)]
  /\ start' = [start EXCEPT ![c] = 0]
  /\ UNCHANGED <<now, lock, tries, faults>>

LockFails(c) ==
  /\ pc[c] = "locking"
  /\ Lost(c)
  /\ NewRound(c, "undoing")
  /\ start' = [start EXCEPT ![c] = 0]
  /\ UNCHANGED <<now, lock, validity, tries, faults>>

\* Whatever the nodes answered, the round is over.
UnlockDone(c) ==
  /\ pc[c] \in {"undoing", "dropping", "releasing"}
  /\ AllAnswered(vote[c])
  /\ pc' = [pc EXCEPT ![c] = CASE pc[c] = "releasing" -> "released"
                               [] pc[c] = "undoing" /\ tries[c].lock < MaxTries -> "waiting"
                               [] OTHER -> "failed"]
  /\ vote' = [vote EXCEPT ![c] = NoVotes]
  /\ UNCHANGED <<now, lock, start, validity, tries, faults>>

(***************************************************************************)
(* extend() and release() of the lock.                                     *)
(***************************************************************************)
StartExtend(c) ==
  /\ Valid(c) /\ pc[c] = "held"
  /\ tries[c].extend < MaxExtends
  /\ NewRound(c, "extending")
  /\ start' = [start EXCEPT ![c] = now]
  /\ tries' = [tries EXCEPT ![c].extend = @ + 1]
  /\ UNCHANGED <<now, lock, validity, faults>>

\* The caller goes on with the new lock object.
ExtendSucceeds(c) ==
  /\ pc[c] = "extending"
  /\ Won(c)
  /\ pc' = [pc EXCEPT ![c] = "held"]
  /\ vote' = [vote EXCEPT ![c] = NoVotes]
  /\ validity' = [validity EXCEPT ![c] = Lease(c)]
  /\ start' = [start EXCEPT ![c] = 0]
  /\ UNCHANGED <<now, lock, tries, faults>>

\* The lock is released on all nodes, and extend() throws.
ExtendFails(c) ==
  /\ pc[c] = "extending"
  /\ Lost(c)
  /\ NewRound(c, "dropping")
  /\ start' = [start EXCEPT ![c] = 0]
  /\ UNCHANGED <<now, lock, validity, tries, faults>>

StartRelease(c) ==
  /\ pc[c] = "held"
  /\ NewRound(c, "releasing")
  /\ UNCHANGED <<now, lock, start, validity, tries, faults>>

Tick ==
  /\ now < MaxTime
  /\ now' = now + 1
  /\ lock' = [n \in Node |-> IF lock[n].expiry <= now + 1 THEN Free ELSE lock[n]]
  /\ UNCHANGED <<pc, vote, start, validity, tries, faults>>

LockInit ==
  /\ now = 0
  /\ lock = [n \in Node |-> Free]
  /\ pc = [c \in Client |-> "idle"]
  /\ vote = [c \in Client |-> NoVotes]
  /\ start = [c \in Client |-> 0]
  /\ validity = [c \in Client |-> 0]
  /\ tries = [c \in Client |-> [lock |-> 0, extend |-> 0]]
  /\ faults = 0

\* What goes on by itself once a caller has begun.
LockStep(c) ==
  \/ LockSucceeds(c) \/ LockFails(c) \/ UnlockDone(c) \/ ExtendSucceeds(c) \/ ExtendFails(c)
  \/ pc[c] = "waiting" /\ StartLock(c)
  \/ \E n \in Node : RunLock(c, n) \/ RunExtend(c, n) \/ RunUnlock(c, n) \/ CommandLost(c, n)

LockTypeOK ==
  /\ now \in Nat
  /\ lock \in [Node -> [owner : Client \union {NoClient}, expiry : Nat]]
  /\ pc \in [Client -> PC]
  /\ vote \in [Client -> [Node -> Vote]]
  /\ start \in [Client -> Nat]
  /\ validity \in [Client -> Int]
  /\ tries \in [Client -> [lock : Nat, extend : Nat]]
  /\ faults \in Nat

\* No two lock objects on one resource are valid at the same time: attemptLock and
\* extend count their lease from before they sent the first command.
MutualExclusion == \A c, d \in Client : Valid(c) /\ Valid(d) => c = d
=============================================================================
