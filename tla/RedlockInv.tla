---------------------------- MODULE RedlockInv -----------------------------
(***************************************************************************)
(* The inductive invariant behind Redlock's mutual exclusion, and the      *)
(* refinement of LeaseLock.                                                *)
(***************************************************************************)
EXTENDS Redlock

\* The validity of a lease, of whatever ttl, ends ClockSkew before the keys that
\* any command of the same lock writes: the drift allowance covers the skew, and
\* no extend() asks for so short a ttl that it cuts into a lease already given.
\* The code does not check the second half: the run short_extend drops it.
ASSUME LeaseAssumption == \A t, u \in Ttls : u - Drift(u) + ClockSkew <= t

Writes == {"acquire", "extend"}
Deletes == {"cleanup", "release"}

NoDelete(c, n) == \A i \in 1..Len(conn[c][n]) : conn[c][n][i].op \notin Deletes

\* Until time e, node n keeps every key of c for c: they do not expire before,
\* and no command of c under way would delete them.
Backed(c, n, e) ==
  now < e => /\ NoDelete(c, n)
             /\ \A k \in Resources[c] :
                  Owns(c, n, k) /\ store[n][k].expiry >= e + ClockSkew

IsQuorum(Q) == Q \subseteq Node /\ 2 * Cardinality(Q) > Cardinality(Node)

Unowned == {"idle", "acquiring", "cleaning", "backoff", "late", "failed"}

\* What is under way: ttls are legal, a command is live only while its round
\* runs, release() has sent nothing before it is called, and the cleanup commands
\* are never sent again.
Legal(stage, extending, cmd) ==
  /\ cmd.op \in Writes => cmd.ttl \in Ttls
  /\ cmd.op = "acquire" /\ cmd.live => stage = "acquiring"
  /\ cmd.op = "extend" /\ cmd.live => extending
  /\ cmd.op = "release" => stage \notin Unowned \union {"held"}
  /\ cmd.op = "cleanup" => ~cmd.sha /\ (cmd.live => stage = "cleaning")

\* No delete follows a write that a round waits for.
Ordered(q) ==
  \A i, j \in 1..Len(q) :
    i < j /\ q[i].live /\ q[i].op \in Writes => q[j].op \notin Deletes

Commands(c) ==
  \A n \in Node :
    /\ \A i \in 1..Len(conn[c][n]) : Legal(pc[c], ext[c].on, conn[c][n][i])
    /\ pc[c] \in {"acquiring", "held"} => Ordered(conn[c][n])

\* No lock is extended before it exists, and no lease outlives the ttl it was
\* computed from.
Leases(c) ==
  /\ pc[c] = "acquiring" => start[c] <= now
  /\ ext[c].on => /\ pc[c] \notin Unowned
                  /\ ext[c].start <= now
                  /\ ext[c].ttl \in Ttls
  /\ pc[c] = "held" => \E u \in Ttls : expiration[c] <= now + u - Drift(u)

\* The keys behind a vote that a running attempt or extension has already got.
VotesBacked(c) ==
  \A n \in Node :
    /\ pc[c] = "acquiring" /\ vote[c][n] = "for" => Backed(c, n, AcquireExpiry(c))
    /\ pc[c] = "held" /\ ext[c].on /\ ext[c].vote[n] = "for" => Backed(c, n, ExtendExpiry(c))

\* A quorum of nodes stands behind a lock until it expires.
LockBacked(c) ==
  pc[c] = "held" =>
    \E Q \in SUBSET Node : IsQuorum(Q) /\ \A n \in Q : Backed(c, n, expiration[c])

\* The inductive invariant behind MutualExclusion: MutualExclusion itself does not
\* survive a step from a state in which a valid lock's keys are already gone.
IInv ==
  /\ TypeOK
  /\ \A c \in Client : Commands(c) /\ Leases(c) /\ VotesBacked(c) /\ LockBacked(c)

(***************************************************************************)
(* The lease that a call holds, as LeaseLock sees it.                      *)
(***************************************************************************)
Stage ==
  [c \in Client |->
     CASE pc[c] \in {"idle", "acquiring", "cleaning", "backoff"} -> "waiting"
       [] pc[c] = "held" -> "owner"
       [] OTHER -> "done"]

Lease == INSTANCE LeaseLock WITH clock <- now, stage <- Stage, until <- expiration

\* Every behaviour of the lock is one of a lease: granted once, exclusively, with
\* time left on it, and never owned again after it was given up.
LeaseSpec == Lease!LSpec
=============================================================================
