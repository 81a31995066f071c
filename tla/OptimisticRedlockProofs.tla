---------------------- MODULE OptimisticRedlockProofs ----------------------
(***************************************************************************)
(* algorithms/redlock.ts, with the optimistic locks and the transactions   *)
(* of algorithms/optimistic-redlock.ts around it, for every number of      *)
(* nodes, clients, faults and rounds: type correctness, mutual exclusion,  *)
(* no lost updates, and what transactions commit stays.                    *)
(***************************************************************************)
EXTENDS OptimisticRedlock, FiniteSetTheorems, TLAPS

IsQuorum(Q) == Q \subseteq Node /\ 2 * Cardinality(Q) > Cardinality(Node)

(***************************************************************************)
(* The inductive invariant.                                                *)
(***************************************************************************)
\* Node n keeps the key for c until t.
Keeps(c, n, t) == now >= t \/ (lock[n].owner = c /\ lock[n].expiry >= t)

\* c is in a round whose votes will back its next lease.
Voting(c) == pc[c] \in {"locking", "extending"}

\* A round and a lease never count from later than now.
Timely(c) == (Voting(c) => start[c] <= now) /\ validity[c] <= now + Ttl

\* Behind a vote is a key that lasts until the round's own lease is over ...
VotesBacked(c) ==
  Voting(c) => \A n \in Node : vote[c][n] = "for" => Keeps(c, n, start[c] + Ttl)

\* ... and behind a lock is a quorum of keys that last until it runs out.
LockBacked(c) ==
  pc[c] \in {"held", "extending"} =>
    \E Q \in SUBSET Node : IsQuorum(Q) /\ \A n \in Q : Keeps(c, n, validity[c])

LockInv ==
  /\ LockTypeOK
  /\ \A c \in Client : Timely(c) /\ VotesBacked(c) /\ LockBacked(c)

(***************************************************************************)
(* Quorums.                                                                *)
(***************************************************************************)
\* The voters of a round that reached its quorum are more than half of the nodes.
LEMMA QuorumOfVotes ==
  ASSUME NEW v \in [Node -> Vote], Quorum(v)
  PROVE  IsQuorum(With(v, "for"))
  <1>1. With(v, "for") \subseteq Node /\ IsFiniteSet(With(v, "for"))
    BY NodeAssumption, FS_Subset DEF With
  <1>2. Cardinality(With(v, "for")) \in Nat /\ Cardinality(Node) \in Nat
    BY <1>1, NodeAssumption, FS_CardinalityType
  <1> QED
    BY <1>1, <1>2 DEF Quorum, QuorumSize, IsQuorum

\* Two quorums share a node.
LEMMA QuorumsMeet ==
  ASSUME NEW Q, NEW R, IsQuorum(Q), IsQuorum(R)
  PROVE  \E n \in Node : n \in Q /\ n \in R
  <1>1. /\ IsFiniteSet(Q) /\ IsFiniteSet(R)
        /\ Cardinality(Q) \in Nat /\ Cardinality(R) \in Nat /\ Cardinality(Node) \in Nat
    BY NodeAssumption, FS_Subset, FS_CardinalityType DEF IsQuorum
  <1>2. Cardinality(Q) + Cardinality(R) > Cardinality(Node)
    BY <1>1 DEF IsQuorum
  <1>3. Q \cap R # {}
    BY <1>1, <1>2, NodeAssumption, FS_MajoritiesIntersect DEF IsQuorum
  <1> QED
    BY <1>3 DEF IsQuorum

(***************************************************************************)
(* Steps of the lock.                                                      *)
(***************************************************************************)
LockMove(c) == StartLock(c) \/ LockStep(c) \/ StartExtend(c) \/ StartRelease(c)

\* What the rounds on the value, and a transaction that starts over, do to the lock.
BesideLock ==
  /\ UNCHANGED <<now, lock, vote, start, validity>>
  /\ faults' \in Nat
  /\ \/ UNCHANGED <<pc, tries>>
     \/ \E c \in Client :
          /\ pc[c] = "released"
          /\ pc' = [pc EXCEPT ![c] = "idle"]
          /\ tries' = [tries EXCEPT ![c].lock = 0]

AnyMove == (\E c \in Client : LockMove(c)) \/ Tick \/ BesideLock

\* A reply leaves the votes and the count of faults well typed.
LEMMA ReplyType ==
  ASSUME LockTypeOK, NEW c \in Client, NEW n \in Node, NEW granted \in BOOLEAN,
         Reply(c, n, granted)
  PROVE  vote' \in [Client -> [Node -> Vote]] /\ faults' \in Nat
  <1>1. PICK x \in Vote : vote' = [vote EXCEPT ![c][n] = x]
    BY DEF Reply, Vote
  <1>2. vote' \in [Client -> [Node -> Vote]]
    BY <1>1 DEF LockTypeOK
  <1>3. faults' \in Nat
    BY DEF Reply, LockTypeOK
  <1> QED
    BY <1>2, <1>3

\* Commands keep the types of the lock.
LEMMA LockTypesNode ==
  ASSUME LockTypeOK, NEW c \in Client, NEW n \in Node,
         RunLock(c, n) \/ RunExtend(c, n) \/ RunUnlock(c, n) \/ CommandLost(c, n)
  PROVE  LockTypeOK'
  <1>1. Taken(c) \in [owner : Client \union {NoClient}, expiry : Nat]
    BY LockAssumption DEF LockTypeOK, Taken
  <1>2. Free \in [owner : Client \union {NoClient}, expiry : Nat]
    BY DEF Free
  <1>3. Granted(c, n) \in BOOLEAN /\ Owned(c, n) \in BOOLEAN
    BY DEF Granted, Owned
  <1>4. CASE RunLock(c, n)
    BY <1>1, <1>3, <1>4, ReplyType DEF RunLock, LockTypeOK
  <1>5. CASE RunExtend(c, n)
    BY <1>1, <1>3, <1>5, ReplyType DEF RunExtend, LockTypeOK
  <1>6. CASE RunUnlock(c, n)
    BY <1>2, <1>3, <1>6, ReplyType DEF RunUnlock, LockTypeOK
  <1>7. CASE CommandLost(c, n)
    BY <1>7 DEF CommandLost, LockTypeOK, Vote
  <1> QED
    BY <1>4, <1>5, <1>6, <1>7

\* So does whatever else moves the lock.
LEMMA LockTypesMove ==
  ASSUME LockTypeOK, AnyMove
  PROVE  LockTypeOK'
  <1>1. Polling \in [Node -> Vote] /\ NoVotes \in [Node -> Vote]
    BY DEF Polling, NoVotes, Vote
  <1>2. CASE Tick
    BY <1>2 DEF Tick, LockTypeOK, Free
  <1>3. CASE BesideLock
    <2>1. CASE UNCHANGED <<pc, tries>>
      BY <1>3, <2>1 DEF BesideLock, LockTypeOK
    <2>2. ASSUME NEW c \in Client, pc' = [pc EXCEPT ![c] = "idle"],
                 tries' = [tries EXCEPT ![c].lock = 0]
          PROVE  LockTypeOK'
      <3>1. pc' \in [Client -> PC]
        BY <2>2 DEF LockTypeOK, PC
      <3>2. tries' \in [Client -> [lock : Nat, extend : Nat]]
        BY <2>2 DEF LockTypeOK
      <3> QED
        BY <1>3, <3>1, <3>2 DEF BesideLock, LockTypeOK
    <2> QED
      BY <1>3, <2>1, <2>2 DEF BesideLock
  <1>4. ASSUME NEW c \in Client, LockMove(c)
        PROVE  LockTypeOK'
    <2>1. Lease(c) \in Int
      BY LockAssumption DEF Lease, LockTypeOK
    <2>2. CASE StartLock(c)
      <3>1. pc' \in [Client -> PC] /\ start' \in [Client -> Nat]
        BY <2>2 DEF StartLock, NewRound, LockTypeOK, PC
      <3>2. vote' \in [Client -> [Node -> Vote]]
        BY <1>1, <2>2 DEF StartLock, NewRound, LockTypeOK
      <3>3. tries' \in [Client -> [lock : Nat, extend : Nat]]
        BY <2>2 DEF StartLock, LockTypeOK
      <3> QED
        BY <2>2, <3>1, <3>2, <3>3 DEF StartLock, LockTypeOK
    <2>3. CASE StartExtend(c)
      BY <1>1, <2>3 DEF StartExtend, NewRound, LockTypeOK, PC
    <2>4. CASE StartRelease(c)
      BY <1>1, <2>4 DEF StartRelease, NewRound, LockTypeOK, PC
    <2>5. CASE LockSucceeds(c)
      BY <1>1, <2>1, <2>5 DEF LockSucceeds, LockTypeOK, PC
    <2>6. CASE LockFails(c)
      BY <1>1, <2>6 DEF LockFails, NewRound, LockTypeOK, PC
    <2>7. CASE UnlockDone(c)
      BY <1>1, <2>7 DEF UnlockDone, LockTypeOK, PC
    <2>8. CASE ExtendSucceeds(c)
      BY <1>1, <2>1, <2>8 DEF ExtendSucceeds, LockTypeOK, PC
    <2>9. CASE ExtendFails(c)
      BY <1>1, <2>9 DEF ExtendFails, NewRound, LockTypeOK, PC
    <2> QED
      BY <1>4, <2>2, <2>3, <2>4, <2>5, <2>6, <2>7, <2>8, <2>9, LockTypesNode
         DEF LockMove, LockStep
  <1> QED
    BY <1>2, <1>3, <1>4 DEF AnyMove

(***************************************************************************)
(* A node keeps what it has promised.                                      *)
(***************************************************************************)
\* A command of d takes nothing from a client c that votes or holds: the scripts write
\* over a free key or one's own, and only delete one's own, which c does not do now.
LEMMA NodeKeeps ==
  ASSUME LockTypeOK, NEW c \in Client, NEW d \in Client, NEW n \in Node, NEW m \in Node,
         NEW t \in Int, t <= now + Ttl, Keeps(c, n, t),
         pc[c] \in {"locking", "held", "extending"},
         RunLock(d, m) \/ RunExtend(d, m) \/ RunUnlock(d, m)
  PROVE  Keeps(c, n, t)'
  <1>1. now' = now /\ lock' \in [Node -> [owner : Client \union {NoClient}, expiry : Nat]]
    BY LockTypesNode DEF RunLock, RunExtend, RunUnlock, LockTypeOK
  <1>2. CASE lock'[n] = lock[n]
    BY <1>1, <1>2 DEF Keeps
  <1>3. CASE lock'[n] # lock[n] /\ ~(now >= t)
    <2>1. lock[n].owner = c
      BY <1>3 DEF Keeps
    <2>2. n = m /\ (d = c => ~RunUnlock(d, m))
      BY <1>3 DEF RunLock, RunExtend, RunUnlock, LockTypeOK
    <2>3. d = c
      BY <1>3, <2>1, <2>2, LockAssumption
         DEF RunLock, RunExtend, RunUnlock, Granted, Owned, LockTypeOK
    <2>4. lock'[n] = Taken(c)
      BY <1>3, <2>2, <2>3 DEF RunLock, RunExtend, LockTypeOK
    <2> QED
      BY <1>1, <2>4, LockAssumption DEF Keeps, Taken, LockTypeOK
  <1> QED
    BY <1>1, <1>2, <1>3 DEF Keeps

\* No step breaks a promise to a client that votes or holds.
LEMMA MoveKeeps ==
  ASSUME LockTypeOK, AnyMove, NEW c \in Client, NEW n \in Node,
         NEW t \in Int, t <= now + Ttl, Keeps(c, n, t),
         pc[c] \in {"locking", "held", "extending"}
  PROVE  Keeps(c, n, t)'
  <1>1. CASE Tick
    BY <1>1 DEF Tick, Keeps, LockTypeOK, Free
  <1>2. CASE UNCHANGED <<now, lock>>
    BY <1>2 DEF Keeps
  <1>3. CASE \E d \in Client, m \in Node : RunLock(d, m) \/ RunExtend(d, m) \/ RunUnlock(d, m)
    BY <1>3, NodeKeeps
  <1>4. AnyMove => \/ Tick \/ UNCHANGED <<now, lock>>
                   \/ \E d \in Client, m \in Node : RunLock(d, m) \/ RunExtend(d, m) \/ RunUnlock(d, m)
    BY DEF AnyMove, BesideLock, LockMove, LockStep, StartLock, StartExtend, StartRelease,
           LockSucceeds, LockFails, UnlockDone, ExtendSucceeds, ExtendFails, CommandLost
  <1> QED
    BY <1>1, <1>2, <1>3, <1>4

(***************************************************************************)
(* The invariant of the lock.                                              *)
(***************************************************************************)
\* The lease of a round that succeeds is within what its votes back.
LEMMA LeaseInTime ==
  ASSUME LockTypeOK, NEW c \in Client, Timely(c), Voting(c)
  PROVE  /\ start[c] \in Int /\ start[c] + Ttl \in Int /\ start[c] + Ttl <= now + Ttl
         /\ Lease(c) \in Int /\ Lease(c) <= start[c] + Ttl
  BY LockAssumption DEF LockTypeOK, Timely, Lease

\* How far a round in progress has come: it has just begun, or goes on.
LEMMA RoundGoesOn ==
  ASSUME LockTypeOK, AnyMove, NEW c \in Client, Voting(c)'
  PROVE  \/ start'[c] = now /\ now' = now /\ vote'[c] = Polling
         \/ Voting(c) /\ start'[c] = start[c] /\ now' >= now
  <1>1. CASE Tick \/ BesideLock
    BY <1>1 DEF Tick, BesideLock, Voting, LockTypeOK
  <1>2. ASSUME NEW d \in Client, LockMove(d), d # c
        PROVE  Voting(c) /\ start'[c] = start[c] /\ now' = now
    BY <1>2 DEF LockMove, LockStep, StartLock, StartExtend, StartRelease, NewRound, LockSucceeds,
         LockFails, UnlockDone, ExtendSucceeds, ExtendFails, RunLock, RunExtend, RunUnlock,
         CommandLost, Voting, LockTypeOK
  <1>3. CASE StartLock(c) \/ StartExtend(c)
    BY <1>3 DEF StartLock, StartExtend, NewRound, LockTypeOK
  <1>4. CASE \E n \in Node : RunLock(c, n) \/ RunExtend(c, n) \/ RunUnlock(c, n) \/ CommandLost(c, n)
    BY <1>4 DEF RunLock, RunExtend, RunUnlock, CommandLost, Voting, LockTypeOK
  <1>5. CASE StartRelease(c) \/ LockSucceeds(c) \/ LockFails(c) \/ UnlockDone(c)
               \/ ExtendSucceeds(c) \/ ExtendFails(c)
    BY <1>5 DEF StartRelease, NewRound, LockSucceeds, LockFails, UnlockDone, ExtendSucceeds,
         ExtendFails, Voting, LockTypeOK
  <1> QED
    BY <1>1, <1>2, <1>3, <1>4, <1>5 DEF AnyMove, LockMove, LockStep, LockTypeOK

\* A vote was there before, or its node has just taken the key for c.
LEMMA FreshVote ==
  ASSUME LockTypeOK, AnyMove, NEW c \in Client, NEW n \in Node, Voting(c)', vote'[c][n] = "for"
  PROVE  vote[c][n] = "for" \/ lock'[n] = Taken(c)
  <1>1. CASE Tick \/ BesideLock
    BY <1>1 DEF Tick, BesideLock
  <1>2. ASSUME NEW d \in Client, LockMove(d), d # c
        PROVE  vote'[c] = vote[c]
    BY <1>2 DEF LockMove, LockStep, StartLock, StartExtend, StartRelease, NewRound, LockSucceeds,
         LockFails, UnlockDone, ExtendSucceeds, ExtendFails, RunLock, RunExtend, RunUnlock,
         CommandLost, Reply, LockTypeOK
  <1>3. CASE StartLock(c) \/ StartExtend(c)
    BY <1>3 DEF StartLock, StartExtend, NewRound, Polling, LockTypeOK
  <1>4. ASSUME NEW m \in Node, RunLock(c, m) \/ RunExtend(c, m)
        PROVE  vote[c][n] = "for" \/ lock'[n] = Taken(c)
    <2>1. CASE n # m
      BY <1>4, <2>1 DEF RunLock, RunExtend, Reply, LockTypeOK
    <2>2. CASE n = m /\ RunLock(c, m)
      BY <2>2 DEF RunLock, Reply, LockTypeOK
    <2>3. CASE n = m /\ RunExtend(c, m)
      BY <2>3 DEF RunExtend, Reply, LockTypeOK
    <2> QED
      BY <1>4, <2>1, <2>2, <2>3
  <1>5. ASSUME NEW m \in Node, RunUnlock(c, m)
        PROVE  FALSE
    BY <1>5 DEF RunUnlock, Voting
  <1>6. ASSUME NEW m \in Node, CommandLost(c, m)
        PROVE  vote[c][n] = "for"
    BY <1>6 DEF CommandLost, LockTypeOK
  <1>7. CASE StartRelease(c) \/ LockSucceeds(c) \/ LockFails(c) \/ UnlockDone(c)
               \/ ExtendSucceeds(c) \/ ExtendFails(c)
    BY <1>7 DEF StartRelease, NewRound, LockSucceeds, LockFails, UnlockDone, ExtendSucceeds,
         ExtendFails, Voting, LockTypeOK
  <1> QED
    BY <1>1, <1>2, <1>3, <1>4, <1>5, <1>6, <1>7 DEF AnyMove, LockMove, LockStep

\* A lock was there before, or a round has just granted it.
LEMMA FreshLock ==
  ASSUME LockTypeOK, AnyMove, NEW c \in Client, pc'[c] \in {"held", "extending"}
  PROVE  \/ pc[c] \in {"held", "extending"} /\ validity'[c] = validity[c]
         \/ /\ Voting(c) /\ Quorum(vote[c]) /\ Ttl - (now - start[c]) > Drift
            /\ validity'[c] = Lease(c) /\ UNCHANGED <<now, lock>>
  <1>1. CASE Tick \/ BesideLock
    BY <1>1 DEF Tick, BesideLock, LockTypeOK
  <1>2. ASSUME NEW d \in Client, LockMove(d), d # c
        PROVE  pc[c] \in {"held", "extending"} /\ validity'[c] = validity[c]
    BY <1>2 DEF LockMove, LockStep, StartLock, StartExtend, StartRelease, NewRound, LockSucceeds,
         LockFails, UnlockDone, ExtendSucceeds, ExtendFails, RunLock, RunExtend, RunUnlock,
         CommandLost, LockTypeOK
  <1>3. CASE StartLock(c) \/ StartExtend(c) \/ StartRelease(c) \/ LockFails(c) \/ UnlockDone(c)
               \/ ExtendFails(c)
    BY <1>3 DEF StartLock, StartExtend, StartRelease, LockFails, UnlockDone, ExtendFails, NewRound,
         LockTypeOK
  <1>4. CASE \E n \in Node : RunLock(c, n) \/ RunExtend(c, n) \/ RunUnlock(c, n) \/ CommandLost(c, n)
    BY <1>4 DEF RunLock, RunExtend, RunUnlock, CommandLost
  <1>5. CASE LockSucceeds(c) \/ ExtendSucceeds(c)
    BY <1>5 DEF LockSucceeds, ExtendSucceeds, Won, Voting, LockTypeOK
  <1> QED
    BY <1>1, <1>2, <1>3, <1>4, <1>5 DEF AnyMove, LockMove, LockStep

\* Every move preserves the invariant.
LEMMA LockInvMove ==
  ASSUME LockInv, AnyMove
  PROVE  LockInv'
  <1>1. LockTypeOK /\ LockTypeOK'
    BY LockTypesMove DEF LockInv
  <1> SUFFICES ASSUME NEW c \in Client
               PROVE  Timely(c)' /\ VotesBacked(c)' /\ LockBacked(c)'
    BY <1>1 DEF LockInv
  <1>2. Timely(c) /\ VotesBacked(c) /\ LockBacked(c)
    BY DEF LockInv
  <1>3. now \in Int /\ now' \in Int /\ now' >= now /\ Ttl \in Int /\ validity[c] \in Int
    BY <1>1, LockAssumption DEF AnyMove, LockMove, LockStep, StartLock, StartExtend, StartRelease,
         LockSucceeds, LockFails, UnlockDone, ExtendSucceeds, ExtendFails, RunLock, RunExtend,
         RunUnlock, CommandLost, Tick, BesideLock, LockTypeOK
  <1>4. Timely(c)'
    <2>1. Voting(c)' => start'[c] <= now'
      BY <1>1, <1>2, <1>3, RoundGoesOn DEF Timely, LockTypeOK
    <2>2. validity'[c] = validity[c] \/ (Voting(c) /\ validity'[c] = Lease(c))
      BY <1>1 DEF AnyMove, LockMove, LockStep, StartLock, StartExtend, StartRelease,
         LockSucceeds, LockFails, UnlockDone, ExtendSucceeds, ExtendFails, RunLock, RunExtend,
         RunUnlock, CommandLost, Tick, BesideLock, LockTypeOK, Voting
    <2>3. validity'[c] <= now' + Ttl
      BY <1>1, <1>2, <1>3, <2>2, LeaseInTime DEF Timely
    <2> QED
      BY <2>1, <2>3 DEF Timely
  <1>5. VotesBacked(c)'
    <2> SUFFICES ASSUME Voting(c)', NEW n \in Node, vote'[c][n] = "for"
                 PROVE  Keeps(c, n, start[c] + Ttl)'
      BY DEF VotesBacked
    <2>1. Voting(c) /\ start'[c] = start[c]
      <3>1. ~(vote'[c] = Polling)
        BY DEF Polling
      <3> QED
        BY <1>1, <3>1, RoundGoesOn
    <2>2. PICK t \in Int : t = start[c] + Ttl /\ t <= now + Ttl
      BY <1>1, <1>2, <2>1, LeaseInTime
    <2>3. Keeps(c, n, t)'
      <3>1. CASE vote[c][n] = "for"
        <4>1. Keeps(c, n, t)
          BY <1>2, <2>1, <2>2, <3>1 DEF VotesBacked
        <4>2. pc[c] \in {"locking", "held", "extending"}
          BY <2>1 DEF Voting
        <4> QED
          BY <1>1, <2>2, <4>1, <4>2, MoveKeeps
      <3>2. CASE lock'[n] = Taken(c)
        <4>1. lock'[n].owner = c /\ lock'[n].expiry = now + Ttl
          BY <3>2 DEF Taken
        <4> QED
          BY <1>3, <2>2, <4>1 DEF Keeps
      <3> QED
        BY <1>1, <3>1, <3>2, FreshVote
    <2>4. start'[c] + Ttl = t
      BY <2>1, <2>2
    <2> QED
      BY <2>3, <2>4 DEF Keeps
  <1>6. LockBacked(c)'
    <2> SUFFICES ASSUME pc'[c] \in {"held", "extending"}
                 PROVE  \E Q \in SUBSET Node :
                          IsQuorum(Q) /\ \A n \in Q : Keeps(c, n, validity[c])'
      BY DEF LockBacked, IsQuorum
    <2>1. CASE pc[c] \in {"held", "extending"} /\ validity'[c] = validity[c]
      <3>1. PICK Q \in SUBSET Node : IsQuorum(Q) /\ \A n \in Q : Keeps(c, n, validity[c])
        BY <1>2, <2>1 DEF LockBacked
      <3>2. PICK t \in Int : t = validity[c] /\ t <= now + Ttl
        BY <1>2, <1>3 DEF Timely
      <3>3. ASSUME NEW n \in Q
            PROVE  Keeps(c, n, validity[c])'
        <4>1. Keeps(c, n, t) /\ n \in Node
          BY <3>1, <3>2, <3>3
        <4>2. Keeps(c, n, t)'
          BY <1>1, <2>1, <3>2, <4>1, MoveKeeps
        <4> QED
          BY <2>1, <3>2, <4>2 DEF Keeps
      <3> QED
        BY <3>1, <3>3
    <2>2. CASE /\ Voting(c) /\ Quorum(vote[c]) /\ validity'[c] = Lease(c)
               /\ UNCHANGED <<now, lock>>
      <3>1. IsQuorum(With(vote[c], "for"))
        BY <1>1, <2>2, QuorumOfVotes DEF LockTypeOK
      <3>2. /\ start[c] + Ttl \in Int /\ Lease(c) \in Int /\ Lease(c) <= start[c] + Ttl
        BY <1>1, <1>2, <2>2, LeaseInTime
      <3>3. ASSUME NEW n \in With(vote[c], "for")
            PROVE  Keeps(c, n, validity[c])'
        <4>1. Keeps(c, n, start[c] + Ttl) /\ n \in Node
          BY <1>2, <2>2, <3>3 DEF VotesBacked, With
        <4>2. lock[n].expiry \in Int
          BY <1>1, <4>1 DEF LockTypeOK
        <4>3. now >= Lease(c) \/ (lock[n].owner = c /\ lock[n].expiry >= Lease(c))
          BY <1>3, <3>2, <4>1, <4>2 DEF Keeps
        <4> QED
          BY <2>2, <4>3 DEF Keeps
      <3> QED
        BY <3>1, <3>3 DEF IsQuorum
    <2> QED
      BY <1>1, <2>1, <2>2, FreshLock
  <1> QED
    BY <1>4, <1>5, <1>6

\* Two valid locks would need one key to have two owners.
LEMMA LockInvExcludes == LockInv => MutualExclusion
  <1> SUFFICES ASSUME LockInv, NEW c \in Client, NEW d \in Client, Valid(c), Valid(d)
               PROVE  c = d
    BY DEF MutualExclusion
  <1>1. PICK Q \in SUBSET Node : IsQuorum(Q) /\ \A n \in Q : Keeps(c, n, validity[c])
    BY DEF LockInv, LockBacked, Valid
  <1>2. PICK R \in SUBSET Node : IsQuorum(R) /\ \A n \in R : Keeps(d, n, validity[d])
    BY DEF LockInv, LockBacked, Valid
  <1>3. PICK n \in Node : n \in Q /\ n \in R
    BY <1>1, <1>2, QuorumsMeet
  <1>4. now \in Int /\ validity[c] \in Int /\ validity[d] \in Int
    BY DEF LockInv, LockTypeOK
  <1> QED
    BY <1>1, <1>2, <1>3, <1>4 DEF Keeps, Valid

(***************************************************************************)
(* Types of the value and of the rounds on it.                             *)
(***************************************************************************)
\* A value that exists has a version, and the other way round.
Proper(d) == d \in Datum /\ (d.value = NoClient <=> d.version = 0)

\* A node that voted for an update answered with the version it wrote.
GotVersions(c) ==
  work[c].step \in {"writing", "swapping"} =>
    \A n \in Node : work[c].vote[n] = "for" => work[c].got[n].version # 0

DataInv ==
  /\ cast \in Casts
  /\ data \in [Node -> Datum] /\ \A n \in Node : Proper(data[n])
  /\ work \in [Client -> Work] /\ \A c \in Client : GotVersions(c)
  /\ seen \in [Client -> Datum]
  /\ count \in [Client -> [ops : Nat, conflicts : Nat]]

HistoryTypeOK ==
  /\ last \in Datum
  /\ won \in [0..MaxVersion -> Nat]
  /\ {removed, strays, blind, late} \subseteq BOOLEAN

\* How rounds begin.
LEMMA RoundType ==
  \A step \in Step :
    /\ At(step) \in Work /\ Asking(step) \in Work
    /\ At(step).step = step /\ Asking(step).step = step
    /\ \A n \in Node : At(step).vote[n] # "for" /\ Asking(step).vote[n] # "for"
  <1>1. NoVotes \in [Node -> Vote] /\ Polling \in [Node -> Vote]
    BY DEF NoVotes, Polling, Vote
  <1>2. NoWork \in Work
    BY <1>1 DEF NoWork, Work, Step, Absent, Datum
  <1>3. ASSUME NEW step \in Step
        PROVE  /\ At(step) \in Work /\ At(step).step = step
               /\ \A n \in Node : At(step).vote[n] # "for"
    BY <1>2, <1>3 DEF At, Work, NoWork, NoVotes
  <1>4. ASSUME NEW step \in Step
        PROVE  /\ Asking(step) \in Work /\ Asking(step).step = step
               /\ \A n \in Node : Asking(step).vote[n] # "for"
    BY <1>1, <1>3, <1>4 DEF Asking, Work, At, NoWork, Polling
  <1> QED
    BY <1>3, <1>4

\* A round of c ends, or its next one begins.
LEMMA NextRound ==
  ASSUME DataInv, NEW c \in Client, NEW step \in Step,
         work' = [work EXCEPT ![c] = At(step)] \/ work' = [work EXCEPT ![c] = Asking(step)]
  PROVE  work' \in [Client -> Work] /\ \A d \in Client : GotVersions(d)'
  <1>1. work' \in [Client -> Work]
    BY RoundType DEF DataInv
  <1>2. ASSUME NEW d \in Client
        PROVE  GotVersions(d)'
    <2>1. CASE d = c
      BY <2>1, RoundType DEF GotVersions, DataInv
    <2>2. CASE d # c
      BY <2>2 DEF GotVersions, DataInv
    <2> QED
      BY <2>1, <2>2
  <1> QED
    BY <1>1, <1>2

\* An answer, with what the script wrote and what the answer says.
LEMMA AnswerType ==
  ASSUME DataInv, faults \in Nat, NEW c \in Client, NEW n \in Node, NEW granted \in BOOLEAN,
         NEW old, NEW new, Proper(old), Proper(new),
         granted /\ work[c].step \in {"writing", "swapping"} => new.version # 0,
         Answer(c, n, granted, old, new)
  PROVE  /\ data' \in [Node -> Datum] /\ \A m \in Node : Proper(data'[m])
         /\ work' \in [Client -> Work] /\ \A d \in Client : GotVersions(d)'
         /\ faults' \in Nat
  <1>1. /\ data' \in [Node -> Datum] /\ \A m \in Node : Proper(data'[m])
        /\ faults' \in Nat
    BY DEF Answer, DataInv, Proper
  <1>2. PICK v \in Vote, g \in Datum, w \in Nat :
          /\ work' = [work EXCEPT ![c] = [@ EXCEPT !.vote[n] = v, !.got[n] = g, !.wrote[n] = w]]
          /\ v = "for" /\ work[c].step \in {"writing", "swapping"} => g.version # 0
    <2>1. work[c] \in Work
      BY DEF DataInv
    <2> DEFINE wrote == IF granted /\ work[c].step \in {"writing", "swapping"} THEN new.version
                        ELSE work[c].wrote[n]
    <2>2. wrote \in Nat /\ work[c].wrote[n] \in Nat /\ work[c].got[n] \in Datum
      BY <2>1 DEF Work, Proper, Datum
    <2>3. CASE work' = [work EXCEPT ![c] = [@ EXCEPT !.vote[n] = IF granted THEN "for" ELSE "against",
                                                    !.got[n] = IF granted THEN new ELSE Absent,
                                                    !.wrote[n] = wrote]]
      <3> DEFINE v == IF granted THEN "for" ELSE "against"
                 g == IF granted THEN new ELSE Absent
      <3>1. v \in Vote /\ g \in Datum
        BY DEF Vote, Proper, Absent, Datum
      <3>2. work' = [work EXCEPT ![c] = [@ EXCEPT !.vote[n] = v, !.got[n] = g, !.wrote[n] = wrote]]
        BY <2>3
      <3>3. v = "for" /\ work[c].step \in {"writing", "swapping"} => g.version # 0
        OBVIOUS
      <3> QED
        BY <2>2, <3>1, <3>2, <3>3
    <2>4. CASE work' = [work EXCEPT ![c] = [@ EXCEPT !.vote[n] = "error", !.wrote[n] = wrote]]
      <3>1. [work[c] EXCEPT !.vote[n] = "error", !.wrote[n] = wrote]
            = [work[c] EXCEPT !.vote[n] = "error", !.got[n] = work[c].got[n], !.wrote[n] = wrote]
        BY <2>1 DEF Work
      <3>2. work' = [work EXCEPT ![c] = [@ EXCEPT !.vote[n] = "error", !.got[n] = work[c].got[n],
                                                 !.wrote[n] = wrote]]
        BY <2>4, <3>1
      <3> QED
        BY <2>2, <3>2 DEF Vote
    <2>5. CASE work' = [work EXCEPT ![c] = [@ EXCEPT !.vote[n] = "error"]]
      <3>1. [work[c] EXCEPT !.vote[n] = "error"]
            = [work[c] EXCEPT !.vote[n] = "error", !.got[n] = work[c].got[n],
                              !.wrote[n] = work[c].wrote[n]]
        BY <2>1 DEF Work
      <3>2. work' = [work EXCEPT ![c] = [@ EXCEPT !.vote[n] = "error", !.got[n] = work[c].got[n],
                                                 !.wrote[n] = work[c].wrote[n]]]
        BY <2>5, <3>1
      <3> QED
        BY <2>2, <3>2 DEF Vote
    <2> QED
      BY <2>3, <2>4, <2>5 DEF Answer
  <1>3. work' \in [Client -> Work]
    BY <1>2 DEF DataInv, Work
  <1>4. ASSUME NEW d \in Client
        PROVE  GotVersions(d)'
    <2>1. CASE d = c
      BY <1>2, <2>1 DEF GotVersions, DataInv, Work
    <2>2. CASE d # c
      BY <1>2, <2>2 DEF GotVersions, DataInv
    <2> QED
      BY <2>1, <2>2
  <1> QED
    BY <1>1, <1>3, <1>4

\* The commands keep the types of the value and its rounds.
LEMMA DataNode ==
  ASSUME DataInv, faults \in Nat, NEW c \in Client, NEW n \in Node,
         RunRead(c, n) \/ RunWrite(c, n) \/ RunDelete(c, n) \/ RunRollback(c, n)
  PROVE  DataInv' /\ faults' \in Nat
  <1>1. Proper(data[n]) /\ Proper(Absent) /\ data[n].version \in Nat
    BY DEF DataInv, Proper, Absent, Datum
  <1>2. UNCHANGED <<cast, seen, count>>
    BY DEF RunRead, RunWrite, RunDelete, RunRollback
  <1> SUFFICES /\ data' \in [Node -> Datum] /\ \A m \in Node : Proper(data'[m])
               /\ work' \in [Client -> Work] /\ \A d \in Client : GotVersions(d)'
               /\ faults' \in Nat
    BY <1>2 DEF DataInv, Proper
  <1>3. CASE RunRead(c, n)
    <2>1. Answer(c, n, data[n].version # 0, data[n], data[n])
          /\ work[c].step \notin {"writing", "swapping"}
      BY <1>3 DEF RunRead
    <2> QED
      BY <1>1, <2>1, AnswerType
  <1>4. CASE RunWrite(c, n)
    <2>1. Proper(Next1(c, n)) /\ Next1(c, n).version # 0
      BY <1>1, LockAssumption DEF Next1, Proper, Datum
    <2>2. PICK granted \in BOOLEAN : Answer(c, n, granted, data[n], Next1(c, n))
      BY <1>4 DEF RunWrite, WriteGranted, SwapGranted
    <2> QED
      BY <1>1, <2>1, <2>2, AnswerType
  <1>5. CASE RunDelete(c, n)
    <2>1. PICK granted \in BOOLEAN : Answer(c, n, granted, data[n], Absent)
      BY <1>5 DEF RunDelete, WriteGranted
    <2>2. work[c].step \notin {"writing", "swapping"}
      BY <1>5 DEF RunDelete
    <2> QED
      BY <1>1, <2>1, <2>2, AnswerType
  <1>6. CASE RunRollback(c, n)
    <2>1. Answer(c, n, UndoGranted(c, n), data[n], Undone(c, n))
          /\ work[c].step \notin {"writing", "swapping"}
      BY <1>6 DEF RunRollback
    <2>2. CASE UndoGranted(c, n)
      <3>1. work[c].undo \in Nat
        BY DEF DataInv, Work
      <3>2. Proper(Undone(c, n))
        BY <1>1, <2>2, <3>1 DEF UndoGranted, Undone, Proper, Absent, Datum
      <3> QED
        BY <1>1, <2>1, <2>2, <3>2, AnswerType
    <2>3. CASE ~UndoGranted(c, n)
      <3>1. Answer(c, n, FALSE, data[n], data[n])
        BY <2>1, <2>3 DEF Answer
      <3> QED
        BY <1>1, <2>1, <3>1, AnswerType
    <2> QED
      BY <2>2, <2>3
  <1> QED
    BY <1>3, <1>4, <1>5, <1>6

\* The beginnings and ends of rounds do so too.
LEMMA DataRounds ==
  ASSUME DataInv, NEW c \in Client,
         \/ StartRead(c) \/ ReadDone(c) \/ RefreshDone(c) \/ StartOp(c)
         \/ WriteSucceeds(c) \/ WriteFails(c) \/ StartRollback(c) \/ RollbackDone(c) \/ DeleteDone(c)
         \/ OperationEnds(c) \/ Conflict(c)
  PROVE  DataInv'
  <1> DEFINE Rounds == work' \in [Client -> Work] /\ \A d \in Client : GotVersions(d)'
  <1>1. work[c] \in Work
    BY DEF DataInv
  <1>2. \A n \in Node : work[c].got[n] \in Datum
    BY <1>1 DEF Work
  <1>3. /\ {"none", "reading", "inside", "undoing", "conflict", "done"} \subseteq Step
        /\ Method \subseteq Step
    BY DEF Step
  <1>4. Refused(c) => Rounds
    BY <1>3, NextRound DEF Refused
  <1>5. Absent \in Datum /\ \A d \in Agreed(c) : d \in Datum
    BY <1>2 DEF Absent, Datum, Agreed, Voters, With
  <1>6. CASE StartRead(c)
    <2>1. Rounds
      BY <1>3, <1>6, NextRound DEF StartRead
    <2> QED
      BY <1>6, <2>1 DEF StartRead, DataInv
  <1>7. CASE ReadDone(c)
    <2>1. Rounds
      BY <1>3, <1>7, NextRound DEF ReadDone
    <2>2. seen' \in [Client -> Datum]
      BY <1>5, <1>7 DEF ReadDone, DataInv
    <2> QED
      BY <1>7, <2>1, <2>2 DEF ReadDone, DataInv
  <1>8. CASE RefreshDone(c)
    <2>1. Rounds
      BY <1>3, <1>4, <1>8, NextRound DEF RefreshDone
    <2>2. seen' \in [Client -> Datum]
      <3>1. CASE UNCHANGED seen
        BY <3>1 DEF DataInv
      <3>2. ASSUME NEW d \in Agreed(c), seen' = [seen EXCEPT ![c].version = d.version]
            PROVE  seen' \in [Client -> Datum]
        <4>1. d.version \in Nat
          BY <1>5 DEF Datum
        <4> QED
          BY <3>2, <4>1 DEF DataInv, Datum
      <3> QED
        BY <1>8, <3>1, <3>2 DEF RefreshDone
    <2> QED
      BY <1>8, <2>1, <2>2 DEF RefreshDone, DataInv
  <1>9. CASE StartOp(c)
    <2>1. \E method \in Method : work' = [work EXCEPT ![c] = Asking(method)]
      BY <1>9, OptimisticAssumption DEF StartOp, DataInv
    <2>2. Rounds
      BY <1>3, <2>1, NextRound
    <2>3. count' \in [Client -> [ops : Nat, conflicts : Nat]]
      BY <1>9 DEF StartOp, DataInv
    <2> QED
      BY <1>9, <2>2, <2>3 DEF StartOp, DataInv
  <1>10. CASE WriteSucceeds(c)
    <2>1. Rounds
      BY <1>3, <1>10, NextRound DEF WriteSucceeds
    <2>2. seen' \in [Client -> Datum]
      <3>1. PICK n \in Node : seen' = [seen EXCEPT ![c].version = work[c].got[n].version]
        BY <1>10 DEF WriteSucceeds, Voters, With
      <3>2. work[c].got[n].version \in Nat
        BY <1>2 DEF Datum
      <3> QED
        BY <3>1, <3>2 DEF DataInv, Datum
    <2> QED
      BY <1>10, <2>1, <2>2 DEF WriteSucceeds, DataInv
  <1>11. CASE WriteFails(c) \/ RollbackDone(c)
    BY <1>4, <1>11 DEF WriteFails, RollbackDone, DataInv
  <1>12. CASE StartRollback(c)
    <2>1. PICK n \in Voters(c) :
            work' = [work EXCEPT ![c] =
                      [Asking("undoing") EXCEPT !.wrote = work[c].wrote, !.undo =
                        IF work[c].step = "writing" THEN seen[c].version
                        ELSE work[c].got[n].version - 1]]
      BY <1>12 DEF StartRollback
    <2>2. work[c].got[n].version \in Nat /\ work[c].got[n].version # 0 /\ seen[c].version \in Nat
      <3>1. n \in Node /\ work[c].vote[n] = "for"
        BY DEF Voters, With
      <3>2. work[c].got[n].version # 0
        BY <1>12, <3>1 DEF StartRollback, DataInv, GotVersions
      <3> QED
        BY <1>2, <3>1, <3>2 DEF DataInv, Datum
    <2> DEFINE undo == IF work[c].step = "writing" THEN seen[c].version
                       ELSE work[c].got[n].version - 1
               w == [Asking("undoing") EXCEPT !.wrote = work[c].wrote, !.undo = undo]
    <2>3. undo \in Nat
      BY <2>2
    <2>4. w \in Work /\ w.step = "undoing"
      <3>1. Asking("undoing") \in Work /\ Asking("undoing").step = "undoing"
        BY <1>3, RoundType
      <3> QED
        BY <1>1, <2>3, <3>1 DEF Work
    <2>5. work' = [work EXCEPT ![c] = w]
      BY <2>1
    <2>6. Rounds
      <3>1. work' \in [Client -> Work]
        BY <2>4, <2>5 DEF DataInv
      <3>2. ASSUME NEW d \in Client
            PROVE  GotVersions(d)'
        <4>1. CASE d = c
          BY <2>4, <2>5, <4>1 DEF GotVersions, DataInv
        <4>2. CASE d # c
          BY <2>5, <4>2 DEF GotVersions, DataInv
        <4> QED
          BY <4>1, <4>2
      <3> QED
        BY <3>1, <3>2
    <2> QED
      BY <1>12, <2>6 DEF StartRollback, DataInv
  <1>13. CASE DeleteDone(c)
    <2>1. Rounds
      BY <1>3, <1>4, <1>13, NextRound DEF DeleteDone
    <2> QED
      BY <1>13, <2>1 DEF DeleteDone, DataInv
  <1>14. CASE OperationEnds(c)
    <2>1. Rounds
      BY <1>3, <1>14, NextRound DEF OperationEnds
    <2> QED
      BY <1>14, <2>1 DEF OperationEnds, DataInv
  <1>15. CASE Conflict(c)
    <2>1. NoWork = At("none")
      BY DEF NoWork, At
    <2>2. Rounds
      BY <1>3, <1>15, <2>1, NextRound DEF Conflict
    <2>3. count' \in [Client -> [ops : Nat, conflicts : Nat]]
      BY <1>15 DEF Conflict, DataInv
    <2> QED
      BY <1>15, <2>2, <2>3 DEF Conflict, DataInv
  <1> QED
    BY <1>6, <1>7, <1>8, <1>9, <1>10, <1>11, <1>12, <1>13, <1>14, <1>15

\* The history variables stay well typed.
LEMMA HistoryStep ==
  ASSUME HistoryTypeOK, DataInv, Next
  PROVE  HistoryTypeOK'
  <1>1. CASE UNCHANGED history
    BY <1>1 DEF history, HistoryTypeOK
  <1>2. CASE Time
    BY <1>2 DEF Time, HistoryTypeOK
  <1>3. ASSUME NEW c \in Client, NEW n \in Node, RunDelete(c, n) \/ RunRollback(c, n)
        PROVE  HistoryTypeOK'
    BY <1>3 DEF RunDelete, RunRollback, HistoryTypeOK
  <1>4. ASSUME NEW c \in Client, ReadDone(c)
        PROVE  HistoryTypeOK'
    BY <1>4 DEF ReadDone, HistoryTypeOK
  <1>5. ASSUME NEW c \in Client, WriteSucceeds(c)
        PROVE  HistoryTypeOK'
    <2>1. \A n \in Node : work[c].got[n] \in Datum
      BY DEF DataInv, Work
    <2>2. last' \in Datum
      BY <1>5, <2>1 DEF WriteSucceeds, HistoryTypeOK, Voters, With
    <2>3. won' \in [0..MaxVersion -> Nat]
      <3>1. \/ won' = won
            \/ won' = [won EXCEPT ![seen[c].version] = @ + 1]
        BY <1>5 DEF WriteSucceeds
      <3> QED
        BY <3>1 DEF HistoryTypeOK
    <2> QED
      BY <1>5, <2>2, <2>3 DEF WriteSucceeds, HistoryTypeOK
  <1>6. DataAction =>
          \/ UNCHANGED history
          \/ \E c \in Client : ReadDone(c) \/ WriteSucceeds(c)
          \/ \E c \in Client, n \in Node : RunDelete(c, n) \/ RunRollback(c, n)
    BY DEF DataAction, StartRead, RefreshDone, StartOp, WriteFails, StartRollback, RollbackDone,
         DeleteDone, OperationEnds, Conflict, RunRead, RunWrite
  <1>7. UNCHANGED dataVars => UNCHANGED history
    BY DEF dataVars
  <1> QED
    BY <1>1, <1>2, <1>3, <1>4, <1>5, <1>6, <1>7 DEF Next

(***************************************************************************)
(* The specification.                                                      *)
(***************************************************************************)
\* What a step of the whole does to the lock.
LEMMA NextMoves ==
  ASSUME LockTypeOK, DataInv, [Next]_vars
  PROVE  AnyMove
  <1>1. CASE UNCHANGED vars
    BY <1>1 DEF vars, lockVars, AnyMove, BesideLock, LockTypeOK
  <1>2. CASE LockAction
    BY <1>2 DEF LockAction, AnyMove, LockMove
  <1>3. CASE Time
    BY <1>3 DEF Time, AnyMove
  <1>4. ASSUME NEW c \in Client, NEW n \in Node,
               RunRead(c, n) \/ RunWrite(c, n) \/ RunDelete(c, n) \/ RunRollback(c, n)
        PROVE  AnyMove
    <2>1. faults' \in Nat
      BY <1>4, DataNode DEF LockTypeOK
    <2> QED
      BY <1>4, <2>1 DEF RunRead, RunWrite, RunDelete, RunRollback, AnyMove, BesideLock
  <1>5. ASSUME NEW c \in Client, OperationEnds(c)
        PROVE  AnyMove
    BY <1>5 DEF OperationEnds, AnyMove, LockMove
  <1>6. ASSUME NEW c \in Client, Conflict(c)
        PROVE  AnyMove
    BY <1>6 DEF Conflict, AnyMove, BesideLock, LockTypeOK
  <1>7. ASSUME NEW c \in Client,
               \/ StartRead(c) \/ ReadDone(c) \/ RefreshDone(c) \/ StartOp(c)
               \/ WriteSucceeds(c) \/ WriteFails(c) \/ StartRollback(c) \/ RollbackDone(c)
               \/ DeleteDone(c)
        PROVE  AnyMove
    BY <1>7 DEF StartRead, ReadDone, RefreshDone, StartOp, WriteSucceeds, WriteFails,
         StartRollback, RollbackDone, DeleteDone, lockVars, AnyMove, BesideLock, LockTypeOK
  <1> QED
    BY <1>1, <1>2, <1>3, <1>4, <1>5, <1>6, <1>7 DEF Next, DataAction

Inv == LockInv /\ DataInv /\ HistoryTypeOK

\* It holds at first ...
LEMMA InvInit == Init => Inv
  <1> SUFFICES ASSUME Init
               PROVE  Inv
    OBVIOUS
  <1>1. NoVotes \in [Node -> Vote]
    BY DEF NoVotes, Vote
  <1>2. LockTypeOK
    BY <1>1 DEF Init, LockInit, LockTypeOK, Free, PC
  <1>3. LockInv
    BY <1>2, LockAssumption DEF LockInv, Init, LockInit, Timely, Voting, VotesBacked, LockBacked
  <1>4. NoWork \in Work /\ Absent \in Datum /\ Proper(Absent)
    BY <1>1 DEF NoWork, Work, Step, Absent, Datum, Proper
  <1>5. DataInv
    BY <1>4 DEF DataInv, Init, GotVersions, NoWork
  <1>6. HistoryTypeOK
    BY <1>4 DEF HistoryTypeOK, Init
  <1> QED
    BY <1>3, <1>5, <1>6 DEF Inv

\* ... and every step preserves it.
LEMMA InvStep == Inv /\ [Next]_vars => Inv'
  <1> SUFFICES ASSUME Inv, [Next]_vars
               PROVE  Inv'
    OBVIOUS
  <1>1. LockTypeOK /\ DataInv
    BY DEF Inv, LockInv
  <1>2. LockInv'
    BY <1>1, NextMoves, LockInvMove DEF Inv
  <1>3. DataInv'
    <2>1. CASE UNCHANGED dataVars
      BY <1>1, <2>1 DEF dataVars, DataInv, GotVersions, Proper
    <2>2. CASE DataAction
      BY <1>1, <2>2, DataNode, DataRounds DEF DataAction, LockTypeOK
    <2>3. CASE Time
      BY <1>1, <2>3 DEF Time, DataInv, GotVersions, Proper
    <2> QED
      BY <2>1, <2>2, <2>3 DEF Next, vars
  <1>4. HistoryTypeOK'
    <2>1. CASE UNCHANGED vars
      BY <2>1 DEF Inv, HistoryTypeOK, vars, dataVars, history
    <2> QED
      BY <1>1, <2>1, HistoryStep DEF Inv
  <1> QED
    BY <1>2, <1>3, <1>4 DEF Inv

\* The inductive invariant holds in every reachable state.
THEOREM LockInvariance == Spec => []Inv
  BY InvInit, InvStep, PTL DEF Spec

\* Every reachable state is well typed; a node has a value exactly when it has a version.
THEOREM TypeCorrect == Spec => []TypeOK
  <1>1. Inv => TypeOK
    BY DEF Inv, LockInv, DataInv, HistoryTypeOK, TypeOK, Proper
  <1> QED
    BY <1>1, LockInvariance, PTL

\* No two lock objects on one resource are ever valid at the same time, whatever happens to
\* the value the transactions keep under the lock.
THEOREM LockExclusion == Spec => []MutualExclusion
  <1>1. Inv => MutualExclusion
    BY LockInvExcludes DEF Inv
  <1> QED
    BY <1>1, LockInvariance, PTL

(***************************************************************************)
(* No lost updates.  The versions on a node are a stack: each level        *)
(* belongs to the round that wrote it, and only that round takes it back,  *)
(* unless a rollback strays or the value is deleted.  The levels of an     *)
(* update that succeeded belong to nobody, and are there for good.         *)
(***************************************************************************)
Updates == {"writing", "swapping"}

\* The round of c has written version v on node n, and may still take it back.
MayUndo(c, n, v) ==
  /\ work[c].step \in Updates \/ (work[c].step = "undoing" /\ work[c].vote[n] = "pending")
  /\ work[c].wrote[n] = v

\* A version that somebody may take back is there, and nobody else's.
Levels(n) ==
  \A c \in Client, v \in Nat \ {0} :
    MayUndo(c, n, v) => v <= data[n].version /\ \A d \in Client \ {c} : ~MayUndo(d, n, v)

Kept(n, v) == data[n].version >= v /\ \A c \in Client : ~MayUndo(c, n, v)

\* An update that succeeded is kept by a quorum of nodes.
WonOnce ==
  \A v \in DOMAIN won :
    /\ won[v] <= 1
    /\ won[v] # 0 => \E Q \in SUBSET Node : IsQuorum(Q) /\ \A n \in Q : Kept(n, v + 1)

\* A node that voted for an update wrote the version after the one it expected.
WroteNext(c) ==
  work[c].step = "writing" =>
    \A n \in Node : work[c].vote[n] = "for" => work[c].wrote[n] = seen[c].version + 1

UpdateInv ==
  /\ \A c \in Client : WroteNext(c)
  /\ ~strays /\ ~removed => WonOnce /\ \A n \in Node : Levels(n)

\* What an answer changes: something on one node, and in the round that asked.
LEMMA AnswerShape ==
  ASSUME DataInv, NEW c \in Client, NEW n \in Node, NEW granted \in BOOLEAN, NEW new,
         Proper(new), Answer(c, n, granted, data[n], new)
  PROVE  /\ work[c].vote[n] = "pending"
         /\ data' = data \/ (granted /\ data' = [data EXCEPT ![n] = new])
         /\ \A d \in Client \ {c} : work'[d] = work[d]
         /\ work'[c].step = work[c].step /\ work'[c].undo = work[c].undo
         /\ \A m \in Node \ {n} : /\ work'[c].vote[m] = work[c].vote[m]
                                 /\ work'[c].got[m] = work[c].got[m]
                                 /\ work'[c].wrote[m] = work[c].wrote[m]
         /\ work'[c].vote[n] # "pending"
         /\ work'[c].vote[n] = "for" =>
              /\ granted /\ data' = [data EXCEPT ![n] = new]
              /\ work'[c].got[n] = new
              /\ work[c].step \in Updates => work'[c].wrote[n] = new.version
         /\ \/ work'[c].wrote[n] = work[c].wrote[n] /\ (work[c].step \in Updates => data' = data)
            \/ /\ granted /\ work[c].step \in Updates
               /\ work'[c].wrote[n] = new.version /\ data' = [data EXCEPT ![n] = new]
  <1> DEFINE wrote == IF granted /\ work[c].step \in {"writing", "swapping"} THEN new.version
                      ELSE work[c].wrote[n]
  <1>1. work \in [Client -> Work] /\ work[c] \in Work /\ data \in [Node -> Datum]
    BY DEF DataInv
  <1>2. work[c].vote[n] = "pending"
    BY DEF Answer
  <1>3. wrote \in Nat /\ work[c].wrote[n] \in Nat
    BY <1>1 DEF Work, Proper, Datum
  <1>4. ~granted => [data EXCEPT ![n] = IF granted THEN new ELSE data[n]] = data
    BY <1>1
  <1>5. CASE /\ data' = [data EXCEPT ![n] = IF granted THEN new ELSE data[n]]
             /\ work' = [work EXCEPT ![c] = [@ EXCEPT !.vote[n] = IF granted THEN "for" ELSE "against",
                                                     !.got[n] = IF granted THEN new ELSE Absent,
                                                     !.wrote[n] = wrote]]
    <2>1. /\ \A d \in Client \ {c} : work'[d] = work[d]
          /\ work'[c].step = work[c].step /\ work'[c].undo = work[c].undo
          /\ \A m \in Node \ {n} : /\ work'[c].vote[m] = work[c].vote[m]
                                  /\ work'[c].got[m] = work[c].got[m]
                                  /\ work'[c].wrote[m] = work[c].wrote[m]
          /\ work'[c].vote[n] = (IF granted THEN "for" ELSE "against")
          /\ work'[c].got[n] = (IF granted THEN new ELSE Absent)
          /\ work'[c].wrote[n] = wrote
      BY <1>1, <1>5 DEF Work
    <2>2. CASE granted
      <3>1. data' = [data EXCEPT ![n] = new]
        BY <1>5, <2>2
      <3> QED
        BY <1>2, <2>1, <2>2, <3>1 DEF Updates
    <2>3. CASE ~granted
      <3>1. data' = data
        BY <1>4, <1>5, <2>3
      <3> QED
        BY <1>2, <2>1, <2>3, <3>1 DEF Updates
    <2> QED
      BY <2>2, <2>3
  <1>6. CASE /\ data' = [data EXCEPT ![n] = IF granted THEN new ELSE data[n]]
             /\ work' = [work EXCEPT ![c] = [@ EXCEPT !.vote[n] = "error", !.wrote[n] = wrote]]
    <2>1. /\ \A d \in Client \ {c} : work'[d] = work[d]
          /\ work'[c].step = work[c].step /\ work'[c].undo = work[c].undo
          /\ \A m \in Node \ {n} : /\ work'[c].vote[m] = work[c].vote[m]
                                  /\ work'[c].wrote[m] = work[c].wrote[m]
          /\ work'[c].got = work[c].got
          /\ work'[c].vote[n] = "error" /\ work'[c].wrote[n] = wrote
      BY <1>1, <1>6 DEF Work
    <2> QED
      BY <1>2, <1>4, <1>6, <2>1 DEF Updates
  <1>7. CASE /\ data' = data
             /\ work' = [work EXCEPT ![c] = [@ EXCEPT !.vote[n] = "error"]]
    <2>1. /\ \A d \in Client \ {c} : work'[d] = work[d]
          /\ work'[c].step = work[c].step /\ work'[c].undo = work[c].undo
          /\ \A m \in Node \ {n} : work'[c].vote[m] = work[c].vote[m]
          /\ work'[c].got = work[c].got /\ work'[c].wrote = work[c].wrote
          /\ work'[c].vote[n] = "error"
      BY <1>1, <1>7 DEF Work
    <2> QED
      BY <1>2, <1>7, <2>1
  <1> QED
    BY <1>5, <1>6, <1>7 DEF Answer

\* A round begins without answers.
LEMMA FreshRound ==
  \A step \in Step :
    /\ \A n \in Node : /\ At(step).wrote[n] = 0 /\ Asking(step).wrote[n] = 0
                       /\ At(step).vote[n] # "for" /\ Asking(step).vote[n] # "for"
    /\ At(step).step = step /\ Asking(step).step = step
  <1>1. NoWork \in Work
    BY DEF NoWork, Work, Step, Absent, Datum, NoVotes, Vote
  <1>2. ASSUME NEW step \in Step
        PROVE  /\ At(step) \in Work /\ At(step).step = step
               /\ \A n \in Node : At(step).wrote[n] = 0 /\ At(step).vote[n] # "for"
    BY <1>1 DEF At, Work, NoWork, NoVotes
  <1>3. ASSUME NEW step \in Step
        PROVE  /\ Asking(step).step = step
               /\ \A n \in Node : Asking(step).wrote[n] = 0 /\ Asking(step).vote[n] # "for"
    BY <1>2 DEF Asking, Work, Polling
  <1> QED
    BY <1>2, <1>3

\* What a client does between the answers.
RoundChange(c) ==
  \/ StartRead(c) \/ ReadDone(c) \/ RefreshDone(c) \/ StartOp(c)
  \/ WriteSucceeds(c) \/ WriteFails(c) \/ StartRollback(c) \/ RollbackDone(c) \/ DeleteDone(c)
  \/ OperationEnds(c) \/ Conflict(c)

\* A round changes one client's work only, and forgets what was written, except for the
\* rollback that takes it back.
LEMMA RoundShape ==
  ASSUME DataInv, NEW c \in Client, RoundChange(c)
  PROVE  /\ data' = data
         /\ \A d \in Client \ {c} : work'[d] = work[d]
         /\ \/ ~StartRollback(c) /\ \E step \in Step : /\ work'[c] = At(step) \/ work'[c] = Asking(step)
                                                      /\ work'[c].step = step
            \/ /\ StartRollback(c) /\ work[c].step \in Updates
               /\ work'[c].step = "undoing" /\ work'[c].wrote = work[c].wrote
               /\ work'[c].vote = Polling
               /\ \E n \in Voters(c) :
                    work'[c].undo = IF work[c].step = "writing" THEN seen[c].version
                                    ELSE work[c].got[n].version - 1
  <1>0. /\ work \in [Client -> Work] /\ work[c] \in Work
        /\ {"none", "reading", "inside", "undoing", "conflict", "done"} \subseteq Step
        /\ Method \subseteq Step
    BY DEF DataInv, Step
  <1>1. data' = data
    BY DEF RoundChange, StartRead, ReadDone, RefreshDone, StartOp, WriteSucceeds, WriteFails,
           StartRollback, RollbackDone, DeleteDone, OperationEnds, Conflict
  <1>2. CASE StartRollback(c)
    <2>1. PICK n \in Voters(c) :
            work' = [work EXCEPT ![c] =
                      [Asking("undoing") EXCEPT !.wrote = work[c].wrote, !.undo =
                        IF work[c].step = "writing" THEN seen[c].version
                        ELSE work[c].got[n].version - 1]]
      BY <1>2 DEF StartRollback
    <2>2. Asking("undoing") \in Work /\ Asking("undoing").step = "undoing"
          /\ Asking("undoing").vote = Polling
      <3>1. Asking("undoing") \in Work /\ Asking("undoing").step = "undoing"
        BY <1>0, RoundType
      <3>2. Asking("undoing").vote = Polling
        BY DEF Asking, At, NoWork
      <3> QED
        BY <3>1, <3>2
    <2>3. /\ work'[c].step = "undoing" /\ work'[c].wrote = work[c].wrote
          /\ work'[c].vote = Polling
          /\ work'[c].undo = IF work[c].step = "writing" THEN seen[c].version
                             ELSE work[c].got[n].version - 1
          /\ \A d \in Client \ {c} : work'[d] = work[d]
      BY <1>0, <2>1, <2>2 DEF Work
    <2> QED
      BY <1>1, <1>2, <2>3 DEF StartRollback, Updates
  <1>3. CASE ~StartRollback(c)
    <2>1. \E step \in Step : \/ work' = [work EXCEPT ![c] = At(step)]
                             \/ work' = [work EXCEPT ![c] = Asking(step)]
      <3>1. CASE StartRead(c) \/ ReadDone(c) \/ WriteSucceeds(c)
        BY <1>0, <3>1 DEF StartRead, ReadDone, WriteSucceeds
      <3>2. Refused(c) => \E step \in Step : work' = [work EXCEPT ![c] = At(step)]
        BY <1>0 DEF Refused
      <3>3. CASE RefreshDone(c) \/ WriteFails(c) \/ RollbackDone(c) \/ DeleteDone(c)
        BY <1>0, <3>2, <3>3 DEF RefreshDone, WriteFails, RollbackDone, DeleteDone
      <3>4. CASE StartOp(c)
        <4>1. \E method \in Method : work' = [work EXCEPT ![c] = Asking(method)]
          BY <3>4, OptimisticAssumption DEF StartOp, DataInv
        <4> QED
          BY <1>0, <4>1
      <3>5. CASE OperationEnds(c)
        BY <1>0, <3>5 DEF OperationEnds
      <3>6. CASE Conflict(c)
        <4>1. NoWork = At("none")
          BY DEF NoWork, At
        <4> QED
          BY <1>0, <3>6, <4>1 DEF Conflict
      <3> QED
        BY <1>3, <3>1, <3>3, <3>4, <3>5, <3>6 DEF RoundChange
    <2>2. PICK step \in Step : \/ work' = [work EXCEPT ![c] = At(step)]
                               \/ work' = [work EXCEPT ![c] = Asking(step)]
      BY <2>1
    <2>3. /\ \A d \in Client \ {c} : work'[d] = work[d]
          /\ work'[c] = At(step) \/ work'[c] = Asking(step)
      BY <1>0, <2>2
    <2>4. work'[c].step = step
      BY <2>3, FreshRound
    <2> QED
      BY <1>1, <1>3, <2>3, <2>4
  <1> QED
    BY <1>2, <1>3

\* How the levels of a node change: not at all, except that somebody may let go of one,
\* or by one that is written, or by one that is taken back.
LevelMove(n) ==
  \/ /\ data'[n].version = data[n].version
     /\ \A d \in Client, v \in Nat \ {0} : MayUndo(d, n, v)' => MayUndo(d, n, v)
  \/ \E c \in Client :
       /\ data'[n].version = data[n].version + 1
       /\ \A d \in Client, v \in Nat \ {0} :
            MayUndo(d, n, v)' => MayUndo(d, n, v) \/ (d = c /\ v = data[n].version + 1)
  \/ \E c \in Client :
       /\ data'[n].version + 1 = data[n].version
       /\ MayUndo(c, n, data[n].version)
       /\ \A d \in Client, v \in Nat \ {0} : MayUndo(d, n, v)' => MayUndo(d, n, v) /\ d # c

\* A rollback takes a node from the version after the one it goes back to, to that one.
LEMMA UndoneVersion ==
  ASSUME DataInv, NEW c \in Client, NEW m \in Node, UndoGranted(c, m)
  PROVE  /\ Proper(Undone(c, m))
         /\ Undone(c, m).version = work[c].undo /\ Undone(c, m).version + 1 = data[m].version
  <1>1. work[c].undo \in Nat /\ Proper(data[m]) /\ data[m] \in Datum
    BY DEF DataInv, Work, Proper
  <1>2. data[m].version = work[c].undo + 1
    BY DEF UndoGranted
  <1>3. CASE work[c].undo = 0
    BY <1>2, <1>3 DEF Undone, Absent, Proper, Datum
  <1>4. CASE work[c].undo # 0
    <2>1. Undone(c, m) = [data[m] EXCEPT !.version = @ - 1]
      BY <1>4 DEF Undone
    <2>2. Undone(c, m).version = work[c].undo /\ Undone(c, m).value = data[m].value
          /\ Undone(c, m) \in Datum
      BY <1>1, <1>2, <2>1 DEF Datum
    <2> QED
      BY <1>1, <1>2, <1>4, <2>2 DEF Proper
  <1> QED
    BY <1>3, <1>4

\* A command moves the levels of its node, and of no other.
LEMMA LevelNode ==
  ASSUME DataInv, NEW c \in Client, NEW m \in Node, NEW n \in Node,
         RunRead(c, m) \/ RunWrite(c, m) \/ RunDelete(c, m) \/ RunRollback(c, m),
         removed' = FALSE, strays' = FALSE
  PROVE  LevelMove(n)
  <1>0. /\ work \in [Client -> Work] /\ work[c] \in Work /\ data \in [Node -> Datum]
        /\ Proper(data[m]) /\ Proper(Absent) /\ data[n].version \in Nat /\ data[m].version \in Nat
    BY DEF DataInv, Proper, Absent, Datum
  <1>1. ASSUME NEW granted \in BOOLEAN, NEW new, Proper(new), Answer(c, m, granted, data[m], new),
               \/ work[c].step \notin Updates /\ data' = data
               \/ work[c].step \in Updates /\ new.version = data[m].version + 1
        PROVE  LevelMove(n)
    <2>1. /\ work[c].vote[m] = "pending"
          /\ data' = data \/ (granted /\ data' = [data EXCEPT ![m] = new])
          /\ \A d \in Client \ {c} : work'[d] = work[d]
          /\ work'[c].step = work[c].step
          /\ \A k \in Node \ {m} : /\ work'[c].vote[k] = work[c].vote[k]
                                  /\ work'[c].wrote[k] = work[c].wrote[k]
          /\ \/ work'[c].wrote[m] = work[c].wrote[m] /\ (work[c].step \in Updates => data' = data)
             \/ /\ granted /\ work[c].step \in Updates
                /\ work'[c].wrote[m] = new.version /\ data' = [data EXCEPT ![m] = new]
      BY <1>1, AnswerShape
    <2>2. CASE work'[c].wrote[m] = work[c].wrote[m] /\ data' = data
      <3>1. \A d \in Client, v \in Nat \ {0} : MayUndo(d, n, v)' => MayUndo(d, n, v)
        BY <2>1, <2>2 DEF MayUndo
      <3> QED
        BY <2>2, <3>1 DEF LevelMove
    <2>3. CASE /\ granted /\ work[c].step \in Updates
               /\ work'[c].wrote[m] = new.version /\ data' = [data EXCEPT ![m] = new]
      <3>1. new.version = data[m].version + 1
        BY <1>1, <2>3
      <3>2. CASE n = m
        <4>1. data'[n].version = data[n].version + 1
          BY <1>0, <2>3, <3>1, <3>2
        <4>2. \A d \in Client, v \in Nat \ {0} :
                MayUndo(d, n, v)' => MayUndo(d, n, v) \/ (d = c /\ v = data[n].version + 1)
          BY <2>1, <2>3, <3>1, <3>2 DEF MayUndo
        <4> QED
          BY <4>1, <4>2 DEF LevelMove
      <3>3. CASE n # m
        <4>1. data'[n].version = data[n].version
          BY <1>0, <2>3, <3>3
        <4>2. \A d \in Client, v \in Nat \ {0} : MayUndo(d, n, v)' => MayUndo(d, n, v)
          BY <2>1, <3>3 DEF MayUndo
        <4> QED
          BY <4>1, <4>2 DEF LevelMove
      <3> QED
        BY <3>2, <3>3
    <2> QED
      BY <1>1, <2>1, <2>2, <2>3
  <1>2. CASE RunRead(c, m)
    <2>1. PICK granted \in BOOLEAN : Answer(c, m, granted, data[m], data[m])
      BY <1>2 DEF RunRead
    <2>3. work[c].step \notin Updates
      BY <1>2 DEF RunRead, Updates
    <2>2. data' = data
      BY <1>0, <2>1, AnswerShape
    <2> QED
      BY <1>0, <1>1, <2>1, <2>2, <2>3
  <1>3. CASE RunWrite(c, m)
    <2>1. Proper(Next1(c, m)) /\ Next1(c, m).version = data[m].version + 1
      BY <1>0, LockAssumption DEF Next1, Proper, Datum
    <2>2. PICK granted \in BOOLEAN : Answer(c, m, granted, data[m], Next1(c, m))
      BY <1>3 DEF RunWrite, WriteGranted, SwapGranted
    <2>3. work[c].step \in Updates
      BY <1>3 DEF RunWrite, Updates
    <2> QED
      BY <1>1, <2>1, <2>2, <2>3
  <1>4. CASE RunDelete(c, m)
    <2>1. PICK granted \in BOOLEAN : Answer(c, m, granted, data[m], Absent)
      BY <1>4 DEF RunDelete, WriteGranted
    <2>2. work[c].step \notin Updates /\ data' = data
      BY <1>4 DEF RunDelete, Updates
    <2> QED
      BY <1>0, <1>1, <2>1, <2>2
  <1>5. CASE RunRollback(c, m)
    <2>1. /\ Answer(c, m, UndoGranted(c, m), data[m], Undone(c, m))
          /\ work[c].step = "undoing" /\ work[c].step \notin Updates
          /\ data' = data \/ data[m].version = work[c].wrote[m]
      BY <1>5 DEF RunRollback, Updates
    <2>2. UndoGranted(c, m) \in BOOLEAN
      BY DEF UndoGranted
    <2>5. UndoGranted(c, m) =>
            Proper(Undone(c, m)) /\ Undone(c, m).version + 1 = data[m].version
      BY UndoneVersion
    <2>3. CASE data' = data
      <3>1. CASE UndoGranted(c, m)
        <4>1. Proper(Undone(c, m))
          BY <2>5, <3>1
        <4> QED
          BY <1>1, <2>1, <2>2, <2>3, <4>1
      <3>2. CASE ~UndoGranted(c, m)
        <4>1. Answer(c, m, FALSE, data[m], data[m])
          BY <2>1, <3>2 DEF Answer
        <4> QED
          BY <1>0, <1>1, <2>1, <2>3, <4>1
      <3> QED
        BY <3>1, <3>2
    <2>4. CASE data' # data
      <3>1. UndoGranted(c, m)
        <4>1. ~UndoGranted(c, m) => Answer(c, m, FALSE, data[m], data[m])
          BY <2>1 DEF Answer
        <4> QED
          BY <1>0, <2>4, <4>1, AnswerShape
      <3>2. /\ Proper(Undone(c, m)) /\ Undone(c, m).version + 1 = data[m].version
        BY <2>5, <3>1
      <3>3. /\ work[c].vote[m] = "pending" /\ data' = [data EXCEPT ![m] = Undone(c, m)]
            /\ \A d \in Client \ {c} : work'[d] = work[d]
            /\ work'[c].step = work[c].step /\ work'[c].vote[m] # "pending"
            /\ \A k \in Node \ {m} : /\ work'[c].vote[k] = work[c].vote[k]
                                    /\ work'[c].wrote[k] = work[c].wrote[k]
        BY <2>1, <2>2, <2>4, <3>2, AnswerShape
      <3>4. CASE n = m
        <4>1. data'[n].version + 1 = data[n].version
          BY <1>0, <3>2, <3>3, <3>4
        <4>2. MayUndo(c, n, data[n].version)
          BY <2>1, <2>4, <3>3, <3>4 DEF MayUndo
        <4>3. \A d \in Client, v \in Nat \ {0} : MayUndo(d, n, v)' => MayUndo(d, n, v) /\ d # c
          BY <2>1, <3>3, <3>4 DEF MayUndo
        <4> QED
          BY <4>1, <4>2, <4>3 DEF LevelMove
      <3>5. CASE n # m
        <4>1. data'[n].version = data[n].version
          BY <1>0, <3>3, <3>5
        <4>2. \A d \in Client, v \in Nat \ {0} : MayUndo(d, n, v)' => MayUndo(d, n, v)
          BY <3>3, <3>5 DEF MayUndo
        <4> QED
          BY <4>1, <4>2 DEF LevelMove
      <3> QED
        BY <3>4, <3>5
    <2> QED
      BY <2>3, <2>4
  <1> QED
    BY <1>2, <1>3, <1>4, <1>5

\* Every step moves the levels of a node in one of these ways.
LEMMA LevelStep ==
  ASSUME DataInv, [Next]_vars, removed' = FALSE, strays' = FALSE, NEW n \in Node
  PROVE  LevelMove(n)
  <1>1. CASE UNCHANGED <<data, work>>
    BY <1>1 DEF LevelMove, MayUndo
  <1>2. ASSUME NEW c \in Client, NEW m \in Node,
               RunRead(c, m) \/ RunWrite(c, m) \/ RunDelete(c, m) \/ RunRollback(c, m)
        PROVE  LevelMove(n)
    BY <1>2, LevelNode
  <1>3. ASSUME NEW c \in Client, RoundChange(c)
        PROVE  LevelMove(n)
    <2>1. data' = data /\ \A d \in Client \ {c} : work'[d] = work[d]
      BY <1>3, RoundShape
    <2>2. \A v \in Nat \ {0} : MayUndo(c, n, v)' => MayUndo(c, n, v)
      <3>1. CASE \E step \in Step : work'[c] = At(step) \/ work'[c] = Asking(step)
        <4>1. work'[c].wrote[n] = 0
          BY <3>1, FreshRound
        <4> QED
          BY <4>1 DEF MayUndo
      <3>2. CASE work[c].step \in Updates /\ work'[c].wrote = work[c].wrote
        BY <3>2 DEF MayUndo
      <3> QED
        BY <1>3, <3>1, <3>2, RoundShape
    <2>3. \A d \in Client, v \in Nat \ {0} : MayUndo(d, n, v)' => MayUndo(d, n, v)
      BY <2>1, <2>2 DEF MayUndo
    <2> QED
      BY <2>1, <2>3 DEF LevelMove
  <1>4. UNCHANGED vars \/ UNCHANGED dataVars \/ Time => UNCHANGED <<data, work>>
    BY DEF vars, dataVars, Time
  <1>5. DataAction => \/ \E c \in Client : RoundChange(c)
                      \/ \E c \in Client, m \in Node :
                           RunRead(c, m) \/ RunWrite(c, m) \/ RunDelete(c, m) \/ RunRollback(c, m)
    BY DEF DataAction, RoundChange
  <1> QED
    BY <1>1, <1>2, <1>3, <1>4, <1>5 DEF Next

\* So the levels stay somebody's own, and nobody's levels stay.
LEMMA LevelsKept ==
  ASSUME NEW n \in Node, Levels(n), LevelMove(n), data[n].version \in Nat, data'[n].version \in Nat
  PROVE  Levels(n)' /\ \A v \in Nat \ {0} : Kept(n, v) => Kept(n, v)'
  <1>1. CASE /\ data'[n].version = data[n].version
             /\ \A d \in Client, v \in Nat \ {0} : MayUndo(d, n, v)' => MayUndo(d, n, v)
    BY <1>1 DEF Levels, Kept
  <1>2. ASSUME NEW c \in Client, data'[n].version = data[n].version + 1,
               \A d \in Client, v \in Nat \ {0} :
                 MayUndo(d, n, v)' => MayUndo(d, n, v) \/ (d = c /\ v = data[n].version + 1)
        PROVE  Levels(n)' /\ \A v \in Nat \ {0} : Kept(n, v) => Kept(n, v)'
    <2>1. \A d \in Client, v \in Nat \ {0} : MayUndo(d, n, v) => v <= data[n].version
      BY DEF Levels
    <2>2. ASSUME NEW d \in Client, NEW v \in Nat \ {0}, MayUndo(d, n, v)'
          PROVE  v <= data'[n].version /\ \A e \in Client \ {d} : ~MayUndo(e, n, v)'
      <3>1. CASE v = data[n].version + 1
        BY <1>2, <2>1, <2>2, <3>1
      <3>2. CASE v # data[n].version + 1
        <4>1. MayUndo(d, n, v)
          BY <1>2, <2>2, <3>2
        <4>2. v <= data[n].version /\ \A e \in Client \ {d} : ~MayUndo(e, n, v)
          BY <4>1 DEF Levels
        <4> QED
          BY <1>2, <3>2, <4>2
      <3> QED
        BY <3>1, <3>2
    <2>3. Levels(n)'
      BY <2>2 DEF Levels
    <2>4. \A v \in Nat \ {0} : Kept(n, v) => Kept(n, v)'
      BY <1>2 DEF Kept
    <2> QED
      BY <2>3, <2>4
  <1>3. ASSUME NEW c \in Client, data'[n].version + 1 = data[n].version,
               MayUndo(c, n, data[n].version),
               \A d \in Client, v \in Nat \ {0} : MayUndo(d, n, v)' => MayUndo(d, n, v) /\ d # c
        PROVE  Levels(n)' /\ \A v \in Nat \ {0} : Kept(n, v) => Kept(n, v)'
    <2>1. \A d \in Client \ {c} : ~MayUndo(d, n, data[n].version)
      BY <1>3 DEF Levels
    <2>2. ASSUME NEW d \in Client, NEW v \in Nat \ {0}, MayUndo(d, n, v)'
          PROVE  v <= data'[n].version /\ \A e \in Client \ {d} : ~MayUndo(e, n, v)'
      <3>1. MayUndo(d, n, v) /\ d # c
        BY <1>3, <2>2
      <3>2. v <= data[n].version /\ \A e \in Client \ {d} : ~MayUndo(e, n, v)
        BY <3>1 DEF Levels
      <3>3. v # data[n].version
        BY <2>1, <3>1
      <3>4. v <= data'[n].version
        BY <1>3, <3>2, <3>3
      <3> QED
        BY <1>3, <3>2, <3>4
    <2>3. Levels(n)'
      BY <2>2 DEF Levels
    <2>4. ASSUME NEW v \in Nat \ {0}, Kept(n, v)
          PROVE  Kept(n, v)'
      <3>1. v <= data[n].version /\ v # data[n].version /\ \A d \in Client : ~MayUndo(d, n, v)
        BY <1>3, <2>4 DEF Kept
      <3>2. \A d \in Client : ~MayUndo(d, n, v)'
        BY <1>3, <3>1
      <3> QED
        BY <1>3, <3>1, <3>2 DEF Kept
    <2> QED
      BY <2>3, <2>4
  <1> QED
    BY <1>1, <1>2, <1>3 DEF LevelMove

\* A command is no step of its round, nor of anybody else's.
LEMMA StepStays ==
  ASSUME DataInv, NEW c \in Client, NEW m \in Node,
         RunRead(c, m) \/ RunWrite(c, m) \/ RunDelete(c, m) \/ RunRollback(c, m)
  PROVE  /\ \A d \in Client : work'[d].step = work[d].step
         /\ \A d \in Client \ {c} : work'[d] = work[d]
  <1>0. work \in [Client -> Work]
    BY DEF DataInv
  <1>1. PICK granted \in BOOLEAN : \E new : Answer(c, m, granted, data[m], new)
    <2>1. CASE RunRead(c, m)
      BY <2>1 DEF RunRead
    <2>2. CASE RunWrite(c, m)
      BY <2>2 DEF RunWrite, WriteGranted, SwapGranted
    <2>3. CASE RunDelete(c, m)
      BY <2>3 DEF RunDelete, WriteGranted
    <2>4. CASE RunRollback(c, m)
      BY <2>4 DEF RunRollback, UndoGranted
    <2> QED
      BY <2>1, <2>2, <2>3, <2>4
  <1>2. PICK new : Answer(c, m, granted, data[m], new)
    BY <1>1
  <1>3. work[c] \in [step : Step, vote : [Node -> Vote], got : [Node -> Datum],
                    wrote : [Node -> Nat], undo : Nat]
    BY <1>0 DEF Work
  <1>4. ASSUME NEW v, NEW g, NEW w,
               \/ work' = [work EXCEPT ![c] = [@ EXCEPT !.vote[m] = v, !.got[m] = g, !.wrote[m] = w]]
               \/ work' = [work EXCEPT ![c] = [@ EXCEPT !.vote[m] = v, !.wrote[m] = w]]
               \/ work' = [work EXCEPT ![c] = [@ EXCEPT !.vote[m] = v]]
        PROVE  /\ work'[c].step = work[c].step
               /\ \A d \in Client \ {c} : work'[d] = work[d]
    BY <1>0, <1>3, <1>4
  <1> DEFINE wrote == IF granted /\ work[c].step \in {"writing", "swapping"} THEN new.version
                      ELSE work[c].wrote[m]
  <1>5. CASE work' = [work EXCEPT ![c] = [@ EXCEPT !.vote[m] = IF granted THEN "for" ELSE "against",
                                                   !.got[m] = IF granted THEN new ELSE Absent,
                                                   !.wrote[m] = wrote]]
    <2> HIDE DEF wrote
    <2> QED
      BY <1>4, <1>5
  <1>6. CASE work' = [work EXCEPT ![c] = [@ EXCEPT !.vote[m] = "error", !.wrote[m] = wrote]]
    <2> HIDE DEF wrote
    <2> QED
      BY <1>4, <1>6
  <1>7. CASE work' = [work EXCEPT ![c] = [@ EXCEPT !.vote[m] = "error"]]
    BY <1>4, <1>7
  <1> QED
    BY <1>2, <1>5, <1>6, <1>7 DEF Answer

\* What a voter wrote goes with what the round expects.
LEMMA WroteNextStep ==
  ASSUME DataInv, [Next]_vars, NEW c \in Client, WroteNext(c)
  PROVE  WroteNext(c)'
  <1>0. work \in [Client -> Work] /\ data \in [Node -> Datum] /\ seen \in [Client -> Datum]
    BY DEF DataInv
  <1>1. CASE UNCHANGED <<work, seen>>
    BY <1>1 DEF WroteNext
  <1>2. ASSUME NEW d \in Client, RoundChange(d)
        PROVE  WroteNext(c)'
    <2>1. CASE d = c
      <3>1. CASE \E step \in Step : work'[c] = At(step) \/ work'[c] = Asking(step)
        <4>1. \A n \in Node : work'[c].vote[n] # "for"
          BY <3>1, FreshRound
        <4> QED
          BY <4>1 DEF WroteNext
      <3>2. CASE work'[c].step = "undoing"
        BY <3>2 DEF WroteNext
      <3> QED
        BY <1>2, <2>1, <3>1, <3>2, RoundShape
    <2>2. CASE d # c
      <3>1. work'[c] = work[c]
        BY <1>2, <2>2, RoundShape
      <3>2. seen'[c] = seen[c]
        BY <1>0, <1>2, <2>2 DEF RoundChange, StartRead, ReadDone, RefreshDone, StartOp, WriteSucceeds,
             WriteFails, StartRollback, RollbackDone, DeleteDone, OperationEnds, Conflict
      <3> QED
        BY <3>1, <3>2 DEF WroteNext
    <2> QED
      BY <2>1, <2>2
  <1>3. ASSUME NEW d \in Client, NEW m \in Node,
               RunRead(d, m) \/ RunWrite(d, m) \/ RunDelete(d, m) \/ RunRollback(d, m)
        PROVE  WroteNext(c)'
    <2>0. seen' = seen
      BY <1>3 DEF RunRead, RunWrite, RunDelete, RunRollback
    <2>1. CASE d # c
      <3>1. work'[c] = work[c]
        BY <1>3, <2>1, StepStays
      <3> QED
        BY <2>0, <3>1 DEF WroteNext
    <2>2. CASE d = c /\ work[c].step # "writing"
      <3>1. work'[c].step = work[c].step
        BY <1>3, StepStays
      <3> QED
        BY <2>2, <3>1 DEF WroteNext
    <2>3. CASE d = c /\ work[c].step = "writing"
      <3>1. Answer(c, m, WriteGranted(c, m), data[m], Next1(c, m))
        BY <1>3, <2>3 DEF RunRead, RunWrite, RunDelete, RunRollback
      <3>2. PICK granted \in BOOLEAN : granted = WriteGranted(c, m)
        BY DEF WriteGranted
      <3>3. Answer(c, m, granted, data[m], Next1(c, m))
        BY <3>1, <3>2
      <3>4. data[m].version \in Nat
        BY <1>0 DEF Datum
      <3>5. Proper(Next1(c, m)) /\ Next1(c, m).version = data[m].version + 1
        BY <3>4, LockAssumption DEF Next1, Proper, Datum
      <3>6. granted => Next1(c, m).version = seen[c].version + 1
        BY <3>2, <3>5 DEF WriteGranted
      <3>7. /\ \A n \in Node \ {m} : /\ work'[c].vote[n] = work[c].vote[n]
                                    /\ work'[c].wrote[n] = work[c].wrote[n]
            /\ work'[c].vote[m] = "for" =>
                 granted /\ (work[c].step \in Updates => work'[c].wrote[m] = Next1(c, m).version)
        BY <3>3, <3>5, AnswerShape
      <3>8. work[c].step \in Updates
        BY <2>3 DEF Updates
      <3>9. ASSUME NEW n \in Node, work'[c].vote[n] = "for"
            PROVE  work'[c].wrote[n] = seen'[c].version + 1
        BY <2>0, <2>3, <3>6, <3>7, <3>8, <3>9 DEF WroteNext
      <3> QED
        BY <3>9 DEF WroteNext
    <2> QED
      BY <2>1, <2>2, <2>3
  <1>4. UNCHANGED vars \/ UNCHANGED dataVars \/ Time => UNCHANGED <<work, seen>>
    BY DEF vars, dataVars, Time
  <1>5. DataAction => \/ \E d \in Client : RoundChange(d)
                      \/ \E d \in Client, m \in Node :
                           RunRead(d, m) \/ RunWrite(d, m) \/ RunDelete(d, m) \/ RunRollback(d, m)
    BY DEF DataAction, RoundChange
  <1> QED
    BY <1>1, <1>2, <1>3, <1>4, <1>5 DEF Next

\* Once something was deleted, or a rollback has strayed, it stays so.
LEMMA StillSober ==
  ASSUME HistoryTypeOK, [Next]_vars, removed' = FALSE, strays' = FALSE
  PROVE  removed = FALSE /\ strays = FALSE
  <1>1. removed \in BOOLEAN /\ strays \in BOOLEAN
    BY DEF HistoryTypeOK
  <1>2. CASE UNCHANGED <<removed, strays>>
    BY <1>2
  <1>3. ASSUME NEW c \in Client, NEW n \in Node, RunDelete(c, n) \/ RunRollback(c, n)
        PROVE  removed = FALSE /\ strays = FALSE
    BY <1>1, <1>3 DEF RunDelete, RunRollback
  <1>4. ASSUME NEW c \in Client, RoundChange(c)
        PROVE  UNCHANGED <<removed, strays>>
    BY <1>4 DEF RoundChange, StartRead, ReadDone, RefreshDone, StartOp, WriteSucceeds, WriteFails,
         StartRollback, RollbackDone, DeleteDone, OperationEnds, Conflict, history
  <1>5. UNCHANGED vars \/ UNCHANGED dataVars \/ Time => UNCHANGED <<removed, strays>>
    BY DEF vars, dataVars, history, Time
  <1>6. DataAction => \/ UNCHANGED <<removed, strays>>
                      \/ \E c \in Client, n \in Node : RunDelete(c, n) \/ RunRollback(c, n)
    BY <1>4 DEF DataAction, RoundChange, RunRead, RunWrite, history
  <1> QED
    BY <1>2, <1>3, <1>5, <1>6 DEF Next

\* The successes are counted at the end of a round that wrote.
LEMMA WonMove ==
  ASSUME [Next]_vars
  PROVE  \/ won' = won
         \/ \E c \in Client : /\ WriteSucceeds(c) /\ work[c].step = "writing"
                             /\ won' = [won EXCEPT ![seen[c].version] = @ + 1]
  <1>1. ASSUME NEW c \in Client, RoundChange(c)
        PROVE  won' = won \/ (/\ WriteSucceeds(c) /\ work[c].step = "writing"
                              /\ won' = [won EXCEPT ![seen[c].version] = @ + 1])
    <2>1. CASE WriteSucceeds(c)
      BY <2>1 DEF WriteSucceeds
    <2>2. CASE ~WriteSucceeds(c)
      BY <1>1, <2>2 DEF RoundChange, StartRead, ReadDone, RefreshDone, StartOp, WriteFails,
           StartRollback, RollbackDone, DeleteDone, OperationEnds, Conflict, history
    <2> QED
      BY <2>1, <2>2
  <1>2. ASSUME NEW c \in Client, NEW n \in Node,
               RunRead(c, n) \/ RunWrite(c, n) \/ RunDelete(c, n) \/ RunRollback(c, n)
        PROVE  won' = won
    BY <1>2 DEF RunRead, RunWrite, RunDelete, RunRollback, history
  <1>3. UNCHANGED vars \/ UNCHANGED dataVars \/ Time => won' = won
    BY DEF vars, dataVars, history, Time
  <1>4. DataAction => \/ \E c \in Client : RoundChange(c)
                      \/ \E c \in Client, m \in Node :
                           RunRead(c, m) \/ RunWrite(c, m) \/ RunDelete(c, m) \/ RunRollback(c, m)
    BY DEF DataAction, RoundChange
  <1> QED
    BY <1>1, <1>2, <1>3, <1>4 DEF Next

\* A round that succeeds finds its level on a quorum, where nobody has won it before, and
\* leaves it there for good.
LEMMA WonStep ==
  ASSUME Inv, UpdateInv, [Next]_vars, removed' = FALSE, strays' = FALSE
  PROVE  WonOnce' /\ \A n \in Node : Levels(n)'
  <1>1. DataInv /\ HistoryTypeOK /\ DataInv'
    BY InvStep DEF Inv
  <1>2. WonOnce /\ \A n \in Node : Levels(n)
    BY <1>1, StillSober DEF UpdateInv
  <1>3. \A n \in Node : Levels(n)' /\ \A v \in Nat \ {0} : Kept(n, v) => Kept(n, v)'
    <2> SUFFICES ASSUME NEW n \in Node
                 PROVE  Levels(n)' /\ \A v \in Nat \ {0} : Kept(n, v) => Kept(n, v)'
      OBVIOUS
    <2>1. data[n].version \in Nat /\ data'[n].version \in Nat
      BY <1>1 DEF DataInv, Datum
    <2> QED
      BY <1>1, <1>2, <2>1, LevelStep, LevelsKept
  <1>4. won \in [0..MaxVersion -> Nat] /\ \A v \in 0..MaxVersion : v \in Nat /\ v + 1 \in Nat \ {0}
    BY <1>1 DEF HistoryTypeOK
  <1>5. CASE won' = won
    <2> SUFFICES ASSUME NEW v \in 0..MaxVersion
                 PROVE  /\ won[v] <= 1
                        /\ won[v] # 0 =>
                             \E Q \in SUBSET Node : IsQuorum(Q) /\ \A n \in Q : Kept(n, v + 1)'
      BY <1>3, <1>4, <1>5 DEF WonOnce, IsQuorum
    <2> QED
      BY <1>2, <1>3, <1>4 DEF WonOnce
  <1>6. ASSUME NEW c \in Client, WriteSucceeds(c), work[c].step = "writing",
               won' = [won EXCEPT ![seen[c].version] = @ + 1]
        PROVE  WonOnce'
    <2>1. IsQuorum(Voters(c)) /\ Voters(c) \subseteq Node
      <3>1. work[c].vote \in [Node -> Vote] /\ Quorum(work[c].vote)
        BY <1>1, <1>6 DEF DataInv, Work, WriteSucceeds
      <3> QED
        BY <3>1, QuorumOfVotes DEF Voters, With
    <2>2. PICK w \in Nat \ {0} : w = seen[c].version + 1
      BY <1>1 DEF DataInv, Datum
    <2>3. \A n \in Voters(c) : MayUndo(c, n, w)
      BY <1>6, <2>2 DEF UpdateInv, WroteNext, MayUndo, Updates, Voters, With
    <2>4. work' = [work EXCEPT ![c] = At("inside")]
      BY <1>6 DEF WriteSucceeds
    <2>5. \A n \in Voters(c) : Kept(n, w)'
      <3> SUFFICES ASSUME NEW n \in Voters(c)
                   PROVE  Kept(n, w)'
        OBVIOUS
      <3>1. w <= data[n].version /\ \A d \in Client \ {c} : ~MayUndo(d, n, w)
        BY <1>2, <2>1, <2>3 DEF Levels
      <3>2. data' = data
        BY <1>6 DEF WriteSucceeds
      <3>3. ~MayUndo(c, n, w)'
        <4>1. work'[c] = At("inside")
          BY <1>1, <2>4 DEF DataInv
        <4>2. "inside" \in Step
          BY DEF Step
        <4>3. work'[c].wrote[n] = 0
          BY <2>1, <4>1, <4>2, FreshRound
        <4> QED
          BY <4>3 DEF MayUndo
      <3>4. \A d \in Client \ {c} : ~MayUndo(d, n, w)'
        <4>1. \A d \in Client \ {c} : work'[d] = work[d]
          BY <1>1, <2>4 DEF DataInv
        <4> QED
          BY <3>1, <4>1 DEF MayUndo
      <3> QED
        BY <3>1, <3>2, <3>3, <3>4 DEF Kept
    <2>6. \A v \in 0..MaxVersion : v + 1 = w => won[v] = 0
      <3> SUFFICES ASSUME NEW v \in 0..MaxVersion, v + 1 = w, won[v] # 0
                   PROVE  FALSE
        OBVIOUS
      <3>1. PICK Q \in SUBSET Node : IsQuorum(Q) /\ \A n \in Q : Kept(n, w)
        BY <1>2, <1>4 DEF WonOnce
      <3>2. PICK n \in Node : n \in Q /\ n \in Voters(c)
        BY <2>1, <3>1, QuorumsMeet
      <3> QED
        BY <2>3, <3>1, <3>2 DEF Kept
    <2> SUFFICES ASSUME NEW v \in 0..MaxVersion
                 PROVE  /\ won'[v] <= 1
                        /\ won'[v] # 0 =>
                             \E Q \in SUBSET Node : IsQuorum(Q) /\ \A n \in Q : Kept(n, v + 1)'
      <3>1. DOMAIN won' = 0..MaxVersion
        BY <1>4, <1>6
      <3> QED
        BY <3>1 DEF WonOnce, IsQuorum
    <2>7. CASE v + 1 = w
      <3>1. won'[v] = 1
        <4>1. v = seen[c].version
          BY <1>1, <1>4, <2>2, <2>7 DEF DataInv, Datum
        <4> QED
          BY <1>4, <1>6, <2>6, <2>7, <4>1
      <3> QED
        BY <2>1, <2>5, <2>7, <3>1
    <2>8. CASE v + 1 # w
      <3>1. won'[v] = won[v]
        BY <1>4, <1>6, <2>2, <2>8
      <3> QED
        BY <1>2, <1>3, <1>4, <3>1 DEF WonOnce
    <2> QED
      BY <2>7, <2>8
  <1> QED
    BY <1>3, <1>5, <1>6, WonMove

\* Of all the callers that saw a version at most one succeeds in updating it, unless the
\* value was deleted or a rollback strayed.
THEOREM UpdatesAreNotLost == Spec => []NoLostUpdate
  <1>1. Inv /\ Init => UpdateInv
    <2> SUFFICES ASSUME Inv, Init
                 PROVE  UpdateInv
      OBVIOUS
    <2>1. \A c \in Client : work[c] = NoWork /\ work[c].step = "none"
      BY DEF Init, NoWork
    <2> QED
      BY <2>1 DEF Init, UpdateInv, WroteNext, WonOnce, Levels, MayUndo, Updates
  <1>2. Inv /\ UpdateInv /\ [Next]_vars => UpdateInv'
    <2> SUFFICES ASSUME Inv, UpdateInv, [Next]_vars
                 PROVE  UpdateInv'
      OBVIOUS
    <2>1. \A c \in Client : WroteNext(c)'
      BY WroteNextStep DEF Inv, UpdateInv
    <2>2. removed' \in BOOLEAN /\ strays' \in BOOLEAN
      BY InvStep DEF Inv, HistoryTypeOK
    <2> QED
      BY <2>1, <2>2, WonStep DEF UpdateInv
  <1>3. UpdateInv => NoLostUpdate
    BY DEF UpdateInv, WonOnce, NoLostUpdate
  <1> QED
    BY <1>1, <1>2, <1>3, LockInvariance, PTL DEF Spec

(***************************************************************************)
(* Committed versions stay.  A transaction within the validity of its lock *)
(* owns the key on a quorum of nodes, so that it is alone: whatever it has *)
(* read is at least the newest commit, and so is what it goes back to.     *)
(***************************************************************************)
\* c has begun to read, and its operation has not ended.
Active(c) == work[c].step \in {"reading", "inside", "undoing"} \union Method

\* A transaction works between taking its lock and releasing it.
RoleKept(c) ==
  /\ cast.role[c] = "locker" => work[c].step = "none"
  /\ cast.role[c] = "transaction" => /\ pc[c] \notin {"extending", "dropping"}
                                     /\ Active(c) => pc[c] = "held"
  /\ work[c].step = "swapping" => "swapping" \in cast.methods

\* c owns the key, which has not run out, on a quorum of nodes.
Covered(c) ==
  \E Q \in SUBSET Node : IsQuorum(Q) /\ \A n \in Q : lock[n].owner = c /\ lock[n].expiry > now

TransactionInv ==
  \A c \in Client :
    /\ RoleKept(c)
    /\ cast.role[c] = "transaction" /\ pc[c] = "held" /\ ~late => Covered(c)

\* The cast never changes.
LEMMA CastStays ==
  ASSUME [Next]_vars
  PROVE  cast' = cast
  <1>1. UNCHANGED vars \/ UNCHANGED dataVars \/ Time => cast' = cast
    BY DEF vars, dataVars, Time
  <1>2. DataAction => cast' = cast
    BY DEF DataAction, StartRead, ReadDone, RefreshDone, StartOp, WriteSucceeds, WriteFails,
         StartRollback, RollbackDone, DeleteDone, OperationEnds, Conflict, RunRead, RunWrite,
         RunDelete, RunRollback
  <1> QED
    BY <1>1, <1>2 DEF Next

\* Which step each round leads to.
LEMMA NextStep ==
  ASSUME DataInv, NEW c \in Client, RoundChange(c)
  PROVE  /\ StartRead(c) => work'[c].step = "reading"
         /\ ReadDone(c) \/ WriteSucceeds(c) => work'[c].step = "inside"
         /\ RefreshDone(c) \/ WriteFails(c) \/ RollbackDone(c) \/ DeleteDone(c)
              => work'[c].step \in {"inside", "conflict"}
         /\ StartOp(c) => work'[c].step \in cast.methods
         /\ StartRollback(c) => work'[c].step = "undoing"
         /\ OperationEnds(c) => work'[c].step \in {"done", "conflict"}
         /\ Conflict(c) => work'[c].step = "none"
  <1>0. /\ work \in [Client -> Work]
        /\ \A step \in Step : At(step).step = step /\ Asking(step).step = step
        /\ {"none", "reading", "inside", "undoing", "conflict", "done"} \subseteq Step
        /\ cast.methods \subseteq Step
    BY RoundType, OptimisticAssumption DEF DataInv, Step
  <1>1. StartRead(c) => work'[c].step = "reading"
    BY <1>0 DEF StartRead
  <1>2. ReadDone(c) \/ WriteSucceeds(c) => work'[c].step = "inside"
    BY <1>0 DEF ReadDone, WriteSucceeds
  <1>3. Refused(c) => work'[c].step \in {"inside", "conflict"}
    BY <1>0 DEF Refused
  <1>4. work' = [work EXCEPT ![c] = At("inside")] => work'[c].step = "inside"
    BY <1>0
  <1>5. RefreshDone(c) \/ WriteFails(c) \/ RollbackDone(c) \/ DeleteDone(c)
          => work'[c].step \in {"inside", "conflict"}
    BY <1>3, <1>4 DEF RefreshDone, WriteFails, RollbackDone, DeleteDone
  <1>6. StartOp(c) => work'[c].step \in cast.methods
    BY <1>0 DEF StartOp
  <1>7. StartRollback(c) => work'[c].step = "undoing"
    BY RoundShape
  <1>8. OperationEnds(c) => work'[c].step \in {"done", "conflict"}
    BY <1>0 DEF OperationEnds
  <1>9. Conflict(c) => work'[c].step = "none"
    BY <1>0 DEF Conflict, NoWork
  <1> QED
    BY <1>1, <1>2, <1>5, <1>6, <1>7, <1>8, <1>9

\* Everybody keeps to what he is there for.
LEMMA RoleStep ==
  ASSUME Inv, [Next]_vars, NEW c \in Client, RoleKept(c)
  PROVE  RoleKept(c)'
  <1>0. /\ DataInv /\ LockTypeOK /\ cast' = cast /\ pc \in [Client -> PC]
        /\ work \in [Client -> Work]
    BY CastStays DEF Inv, LockInv, LockTypeOK, DataInv
  <1>1. CASE UNCHANGED <<pc, work>>
    BY <1>0, <1>1 DEF RoleKept, Active
  <1>2. CASE LockAction /\ UNCHANGED dataVars
    <2>1. work' = work
      BY <1>2 DEF dataVars
    <2>2. PICK d \in Client :
            /\ cast.role[d] # "optimistic"
            /\ \/ StartLock(d) \/ LockStep(d)
               \/ cast.role[d] = "locker" /\ (StartExtend(d) \/ StartRelease(d))
      BY <1>2 DEF LockAction
    <2>3. CASE d # c
      <3>1. pc'[c] = pc[c]
        BY <1>0, <2>2, <2>3 DEF StartLock, LockStep, StartExtend, StartRelease, NewRound,
           LockSucceeds, LockFails, UnlockDone, ExtendSucceeds, ExtendFails, RunLock, RunExtend,
           RunUnlock, CommandLost
      <3> QED
        BY <1>0, <2>1, <3>1 DEF RoleKept, Active
    <2>4. CASE d = c /\ cast.role[c] = "transaction"
      <3>1. \/ pc'[c] = pc[c]
            \/ pc[c] # "held" /\ pc'[c] \notin {"extending", "dropping"}
        <4>1. pc[c] \notin {"extending", "dropping"}
          BY <2>4 DEF RoleKept
        <4>2. CASE StartLock(c)
          BY <1>0, <4>2 DEF StartLock, NewRound
        <4>3. CASE LockSucceeds(c) \/ LockFails(c) \/ UnlockDone(c) \/ ExtendSucceeds(c)
                   \/ ExtendFails(c)
          BY <1>0, <4>1, <4>3 DEF LockSucceeds, LockFails, UnlockDone, ExtendSucceeds, ExtendFails,
             NewRound
        <4>4. CASE \E n \in Node : RunLock(c, n) \/ RunExtend(c, n) \/ RunUnlock(c, n)
                                   \/ CommandLost(c, n)
          BY <4>4 DEF RunLock, RunExtend, RunUnlock, CommandLost
        <4> QED
          BY <2>2, <2>4, <4>2, <4>3, <4>4 DEF LockStep
      <3> QED
        BY <1>0, <2>1, <2>4, <3>1 DEF RoleKept, Active
    <2>5. CASE d = c /\ cast.role[c] # "transaction"
      BY <1>0, <2>1, <2>5 DEF RoleKept, Active
    <2> QED
      BY <2>3, <2>4, <2>5
  <1>3. ASSUME NEW d \in Client, NEW m \in Node,
               RunRead(d, m) \/ RunWrite(d, m) \/ RunDelete(d, m) \/ RunRollback(d, m)
        PROVE  RoleKept(c)'
    <2>1. work'[c].step = work[c].step /\ pc' = pc
      BY <1>0, <1>3, StepStays DEF RunRead, RunWrite, RunDelete, RunRollback
    <2> QED
      BY <1>0, <2>1 DEF RoleKept, Active
  <1>4. ASSUME NEW d \in Client, d # c, RoundChange(d)
        PROVE  RoleKept(c)'
    <2>1. work'[c] = work[c]
      BY <1>0, <1>4, RoundShape
    <2>2. pc'[c] = pc[c]
      BY <1>0, <1>4 DEF RoundChange, StartRead, ReadDone, RefreshDone, StartOp, WriteSucceeds,
         WriteFails, StartRollback, RollbackDone, DeleteDone, OperationEnds, Conflict,
         StartRelease, NewRound, lockVars
    <2> QED
      BY <1>0, <2>1, <2>2 DEF RoleKept, Active
  <1>5. CASE RoundChange(c)
    <2>1. cast.role[c] # "locker"
      BY <1>5 DEF RoleKept, RoundChange, StartRead, ReadDone, RefreshDone, StartOp, WriteSucceeds,
         WriteFails, StartRollback, RollbackDone, DeleteDone, OperationEnds, Conflict
    <2>2. CASE OperationEnds(c) \/ Conflict(c)
      <3>1. work'[c].step \in {"done", "conflict", "none"}
        BY <1>0, <1>5, <2>2, NextStep
      <3>2. pc'[c] \in {"releasing", "idle"}
        BY <1>0, <2>2 DEF OperationEnds, Conflict, StartRelease, NewRound
      <3> QED
        BY <1>0, <2>1, <3>1, <3>2 DEF RoleKept, Active, Method
    <2>3. CASE ~(OperationEnds(c) \/ Conflict(c))
      <3>1. pc' = pc
        BY <1>5, <2>3 DEF RoundChange, StartRead, ReadDone, RefreshDone, StartOp, WriteSucceeds,
           WriteFails, StartRollback, RollbackDone, DeleteDone, lockVars
      <3>2. Active(c) \/ (StartRead(c) /\ (cast.role[c] = "transaction" => pc[c] = "held"))
        BY <1>5, <2>3 DEF RoundChange, StartRead, ReadDone, RefreshDone, StartOp, WriteSucceeds,
           WriteFails, StartRollback, RollbackDone, DeleteDone, Active, Method
      <3>3. work'[c].step = "swapping" => "swapping" \in cast.methods
        BY <1>0, <1>5, <2>3, NextStep DEF RoundChange
      <3> QED
        BY <1>0, <2>1, <3>1, <3>2, <3>3 DEF RoleKept
    <2> QED
      BY <2>2, <2>3
  <1>6. UNCHANGED vars \/ Time => UNCHANGED <<pc, work>>
    BY DEF vars, lockVars, dataVars, Time, Tick
  <1>7. DataAction => \/ \E d \in Client : RoundChange(d)
                      \/ \E d \in Client, m \in Node :
                           RunRead(d, m) \/ RunWrite(d, m) \/ RunDelete(d, m) \/ RunRollback(d, m)
    BY DEF DataAction, RoundChange
  <1> QED
    BY <1>1, <1>2, <1>3, <1>4, <1>5, <1>6, <1>7 DEF Next

\* What has disturbed the transactions has done so for good.
LEMMA StillUndisturbed ==
  ASSUME HistoryTypeOK, [Next]_vars
  PROVE  (late' = FALSE => late = FALSE) /\ (Undisturbed' => Undisturbed)
  <1>0. {removed, blind, late} \subseteq BOOLEAN
    BY DEF HistoryTypeOK
  <1>1. UNCHANGED vars \/ UNCHANGED dataVars => UNCHANGED <<removed, blind, late>>
    BY DEF vars, dataVars, history
  <1>2. Time => UNCHANGED <<removed, blind>> /\ (late' = FALSE => late = FALSE)
    BY <1>0 DEF Time
  <1>3. ASSUME NEW c \in Client, RoundChange(c)
        PROVE  UNCHANGED <<removed, late>> /\ (blind' = FALSE => blind = FALSE)
    <2>1. CASE ReadDone(c)
      BY <1>0, <2>1 DEF ReadDone
    <2>2. CASE ~ReadDone(c)
      BY <1>3, <2>2 DEF RoundChange, StartRead, RefreshDone, StartOp, WriteSucceeds, WriteFails,
         StartRollback, RollbackDone, DeleteDone, OperationEnds, Conflict, history
    <2> QED
      BY <2>1, <2>2
  <1>4. ASSUME NEW c \in Client, NEW m \in Node,
               RunRead(c, m) \/ RunWrite(c, m) \/ RunDelete(c, m) \/ RunRollback(c, m)
        PROVE  UNCHANGED <<blind, late>> /\ (removed' = FALSE => removed = FALSE)
    BY <1>0, <1>4 DEF RunRead, RunWrite, RunDelete, RunRollback, history
  <1>5. DataAction => \/ \E c \in Client : RoundChange(c)
                      \/ \E c \in Client, m \in Node :
                           RunRead(c, m) \/ RunWrite(c, m) \/ RunDelete(c, m) \/ RunRollback(c, m)
    BY DEF DataAction, RoundChange
  <1>6. /\ removed' = FALSE => removed = FALSE
        /\ blind' = FALSE => blind = FALSE
        /\ late' = FALSE => late = FALSE
    BY <1>1, <1>2, <1>3, <1>4, <1>5 DEF Next
  <1>7. {removed, blind, late}' \subseteq BOOLEAN
    <2>1. CASE UNCHANGED <<removed, blind, late>>
      BY <1>0, <2>1
    <2>2. CASE Time
      BY <1>0, <2>2 DEF Time
    <2>3. ASSUME NEW c \in Client, RoundChange(c)
          PROVE  {removed, blind, late}' \subseteq BOOLEAN
      <3>1. blind' \in BOOLEAN
        BY <1>0, <2>3 DEF RoundChange, StartRead, ReadDone, RefreshDone, StartOp, WriteSucceeds,
           WriteFails, StartRollback, RollbackDone, DeleteDone, OperationEnds, Conflict, history
      <3> QED
        BY <1>0, <1>3, <2>3, <3>1
    <2>4. ASSUME NEW c \in Client, NEW m \in Node,
                 RunRead(c, m) \/ RunWrite(c, m) \/ RunDelete(c, m) \/ RunRollback(c, m)
          PROVE  {removed, blind, late}' \subseteq BOOLEAN
      <3>1. removed' \in BOOLEAN
        BY <1>0, <2>4 DEF RunRead, RunWrite, RunDelete, RunRollback, history
      <3> QED
        BY <1>0, <1>4, <2>4, <3>1
    <2> QED
      BY <1>1, <1>5, <2>1, <2>2, <2>3, <2>4 DEF Next
  <1> QED
    BY <1>6, <1>7, CastStays DEF Undisturbed

\* While no time passes, the keys of a client that holds stay as they are.
LEMMA HeldKey ==
  ASSUME LockTypeOK, AnyMove, now' = now, NEW c \in Client, pc[c] = "held",
         NEW n \in Node, lock[n].owner = c
  PROVE  lock'[n] = lock[n]
  <1>1. CASE Tick
    BY <1>1 DEF Tick, LockTypeOK
  <1>2. CASE lock' = lock
    BY <1>2
  <1>3. ASSUME NEW d \in Client, NEW m \in Node, RunLock(d, m) \/ RunExtend(d, m) \/ RunUnlock(d, m)
        PROVE  lock'[n] = lock[n]
    <2>1. d # c
      BY <1>3 DEF RunLock, RunExtend, RunUnlock
    <2>2. n = m => ~Granted(d, m) /\ ~Owned(d, m)
      BY <2>1, LockAssumption DEF Granted, Owned
    <2> QED
      BY <1>3, <2>2 DEF RunLock, RunExtend, RunUnlock, LockTypeOK
  <1>4. AnyMove => \/ Tick \/ lock' = lock
                   \/ \E d \in Client, m \in Node : RunLock(d, m) \/ RunExtend(d, m) \/ RunUnlock(d, m)
    BY DEF AnyMove, BesideLock, LockMove, LockStep, StartLock, StartExtend, StartRelease,
           LockSucceeds, LockFails, UnlockDone, ExtendSucceeds, ExtendFails, CommandLost
  <1> QED
    BY <1>1, <1>2, <1>3, <1>4

\* A transaction that holds its lock owns a quorum of keys, unless it is late.
LEMMA CoveredStep ==
  ASSUME Inv, TransactionInv, [Next]_vars, NEW c \in Client,
         cast.role[c] = "transaction", pc'[c] = "held", late' = FALSE
  PROVE  Covered(c)'
  <1>0. /\ LockTypeOK /\ DataInv /\ HistoryTypeOK /\ AnyMove
        /\ Timely(c) /\ VotesBacked(c) /\ LockBacked(c)' /\ LockTypeOK'
    BY InvStep, NextMoves DEF Inv, LockInv
  <1>1. /\ now \in Nat /\ now' \in Nat /\ validity'[c] \in Int /\ start[c] \in Nat
        /\ Ttl \in Nat /\ Drift \in Nat
        /\ \A n \in Node : lock[n].expiry \in Nat /\ lock'[n].expiry \in Nat
    BY <1>0, LockAssumption DEF LockTypeOK
  <1>2. pc[c] # "extending" /\ (pc[c] = "held" /\ late = FALSE => Covered(c))
    BY DEF TransactionInv, RoleKept
  <1>3. CASE pc[c] = "held" /\ now' = now
    <2>1. Covered(c)
      BY <1>0, <1>2, <1>3, StillUndisturbed
    <2>2. PICK Q \in SUBSET Node : IsQuorum(Q) /\ \A n \in Q : lock[n].owner = c /\ lock[n].expiry > now
      BY <2>1 DEF Covered
    <2>3. \A n \in Q : lock'[n] = lock[n]
      BY <1>0, <1>3, <2>2, HeldKey
    <2> QED
      BY <1>3, <2>2, <2>3 DEF Covered
  <1>4. CASE pc[c] = "held" /\ now' # now
    <2>1. Time
      <3>1. ASSUME NEW d \in Client, OperationEnds(d) \/ Conflict(d)
            PROVE  now' = now
        BY <3>1 DEF OperationEnds, Conflict, StartRelease
      <3>2. DataAction => now' = now
        BY <3>1 DEF DataAction, StartRead, ReadDone, RefreshDone, StartOp, WriteSucceeds, WriteFails,
           StartRollback, RollbackDone, DeleteDone, RunRead, RunWrite, RunDelete, RunRollback, lockVars
      <3>3. LockAction => now' = now
        BY DEF LockAction, LockStep, StartLock, StartExtend, StartRelease,
           LockSucceeds, LockFails, UnlockDone, ExtendSucceeds, ExtendFails, RunLock, RunExtend,
           RunUnlock, CommandLost
      <3> QED
        BY <1>4, <3>2, <3>3 DEF Next, vars, lockVars
    <2>2. validity'[c] = validity[c] /\ ~(now' >= validity[c])
      <3>1. validity' = validity
        BY <2>1 DEF Time, Tick
      <3>2. late' = (late \/ \E d \in Client : cast.role[d] = "transaction" /\ pc[d] = "held"
                                               /\ now' >= validity[d])
        BY <2>1 DEF Time
      <3> QED
        BY <1>4, <3>1, <3>2
    <2>3. PICK Q \in SUBSET Node : IsQuorum(Q) /\ \A n \in Q : Keeps(c, n, validity[c])'
      BY <1>0 DEF LockBacked, IsQuorum
    <2>4. \A n \in Q : lock'[n].owner = c /\ lock'[n].expiry > now'
      BY <1>1, <2>2, <2>3 DEF Keeps
    <2> QED
      BY <2>3, <2>4 DEF Covered, IsQuorum
  <1>5. CASE /\ Voting(c) /\ Quorum(vote[c]) /\ Ttl - (now - start[c]) > Drift
             /\ UNCHANGED <<now, lock>>
    <2>1. IsQuorum(With(vote[c], "for"))
      BY <1>0, <1>5, QuorumOfVotes DEF LockTypeOK
    <2>2. \A n \in With(vote[c], "for") : Keeps(c, n, start[c] + Ttl) /\ n \in Node
      BY <1>0, <1>5 DEF VotesBacked, With
    <2>3. now < start[c] + Ttl
      BY <1>1, <1>5
    <2>4. \A n \in With(vote[c], "for") : lock'[n].owner = c /\ lock'[n].expiry > now'
      BY <1>1, <1>5, <2>2, <2>3 DEF Keeps
    <2> QED
      BY <2>1, <2>4 DEF Covered, IsQuorum
  <1> QED
    BY <1>0, <1>2, <1>3, <1>4, <1>5, FreshLock

\* So only one transaction at a time works on the value, as long as nothing disturbs them.
LEMMA Alone ==
  ASSUME TransactionInv, DataInv, Undisturbed, late \in BOOLEAN,
         NEW c \in Client, NEW d \in Client, Active(c), Active(d)
  PROVE  c = d
  <1>1. \A e \in {c, d} : cast.role[e] = "transaction"
    <2>1. \A e \in Client : cast.role[e] \in Role
      BY OptimisticAssumption DEF DataInv
    <2> QED
      BY <2>1 DEF Undisturbed, TransactionInv, RoleKept, Active, Role, Method
  <1>2. Covered(c) /\ Covered(d)
    BY <1>1 DEF TransactionInv, RoleKept, Undisturbed
  <1>3. PICK Q \in SUBSET Node : IsQuorum(Q) /\ \A n \in Q : lock[n].owner = c
    BY <1>2 DEF Covered
  <1>4. PICK R \in SUBSET Node : IsQuorum(R) /\ \A n \in R : lock[n].owner = d
    BY <1>2 DEF Covered
  <1> QED
    BY <1>3, <1>4, QuorumsMeet

\* The newest commit is on a quorum.
CommitsKept ==
  \E Q \in SUBSET Node : IsQuorum(Q) /\ \A n \in Q : data[n].version >= last.version

\* What c has read is the newest commit, or a later version; what it is told while it reads
\* is there; its rollback goes back to nothing before the newest commit; and a node
\* that voted for its update has the version it wrote.
CommitInv(c) ==
  /\ Active(c) /\ work[c].step # "reading" => seen[c].version >= last.version
  /\ work[c].step \in {"reading", "refreshing"} =>
       \A n \in Node : work[c].vote[n] = "for" => work[c].got[n] = data[n]
  /\ work[c].step = "undoing" => work[c].undo >= last.version
  /\ work[c].step = "writing" =>
       \A n \in Node : work[c].vote[n] = "for" => /\ work[c].got[n].version = seen[c].version + 1
                                                 /\ data[n].version >= seen[c].version + 1

\* Nothing gets in the way of the transactions' commits.
Calm == Undisturbed /\ "swapping" \notin cast.methods

Committed == CommitsKept /\ \A c \in Client : CommitInv(c)

\* A command of a transaction leaves the newest commit where it is.
LEMMA CommitNode ==
  ASSUME Inv, TransactionInv, Calm, Calm', Committed, NEW c \in Client, NEW m \in Node,
         RunRead(c, m) \/ RunWrite(c, m) \/ RunDelete(c, m) \/ RunRollback(c, m)
  PROVE  Committed'
  <1>0. /\ DataInv /\ late \in BOOLEAN /\ data \in [Node -> Datum] /\ Undisturbed
        /\ last.version \in Nat /\ seen[c].version \in Nat
        /\ \A n \in Node : data[n].version \in Nat
    BY DEF Inv, DataInv, HistoryTypeOK, Datum, Calm
  <1>1. UNCHANGED <<last, seen>>
    BY DEF RunRead, RunWrite, RunDelete, RunRollback, history
  <1>2. /\ work'[c].step = work[c].step /\ \A d \in Client \ {c} : work'[d] = work[d]
    BY <1>0, StepStays
  <1>3. Active(c)
    BY DEF RunRead, RunWrite, RunDelete, RunRollback, Active, Method
  <1>4. \A d \in Client \ {c} : CommitInv(d)'
    <2>1. \A d \in Client \ {c} : ~Active(d)
      BY <1>0, <1>3, Alone
    <2> QED
      BY <1>2, <2>1 DEF CommitInv, Active, Method
  <1>5. ASSUME \A n \in Node : data'[n].version >= data[n].version \/ data'[n].version >= last.version,
               \A n \in Node : data'[n].version \in Nat
        PROVE  CommitsKept'
    <2>1. PICK Q \in SUBSET Node : IsQuorum(Q) /\ \A n \in Q : data[n].version >= last.version
      BY DEF Committed, CommitsKept
    <2>2. \A n \in Q : data'[n].version >= last.version
      BY <1>0, <1>5, <2>1
    <2> QED
      BY <1>1, <2>1, <2>2 DEF CommitsKept, IsQuorum
  <1>6. CommitInv(c)
    BY DEF Committed
  <1>7. Proper(data[m]) /\ Proper(Absent)
    BY <1>0 DEF DataInv, Proper, Absent, Datum
  <1>8. Active(c) /\ work[c].step # "reading" => seen[c].version >= last.version
    BY <1>6 DEF CommitInv
  <1>9. CASE RunRead(c, m)
    <2>1. PICK granted \in BOOLEAN : Answer(c, m, granted, data[m], data[m])
      BY <1>9 DEF RunRead
    <2>2. data' = data
      BY <1>0, <1>7, <2>1, AnswerShape
    <2>3. work[c].step \in {"reading", "refreshing"}
      BY <1>9 DEF RunRead
    <2>4. \A n \in Node : work'[c].vote[n] = "for" => work'[c].got[n] = data[n]
      BY <1>0, <1>6, <1>7, <2>1, <2>3, AnswerShape DEF CommitInv
    <2>5. CommitInv(c)'
      BY <1>1, <1>2, <1>8, <2>2, <2>3, <2>4 DEF CommitInv, Active
    <2> QED
      BY <1>0, <1>4, <1>5, <2>2, <2>5 DEF Committed
  <1>10. CASE RunWrite(c, m)
    <2>1. work[c].step = "writing" /\ Answer(c, m, WriteGranted(c, m), data[m], Next1(c, m))
      <3>1. work[c].step # "swapping"
        BY DEF TransactionInv, RoleKept, Calm
      <3> QED
        BY <1>10, <3>1 DEF RunWrite
    <2>2. PICK granted \in BOOLEAN : granted = WriteGranted(c, m)
      BY DEF WriteGranted
    <2>3. Answer(c, m, granted, data[m], Next1(c, m))
      BY <2>1, <2>2
    <2>4. Proper(Next1(c, m)) /\ Next1(c, m).version = data[m].version + 1
      BY <1>0, <1>7, LockAssumption DEF Next1, Proper, Datum
    <2>5. granted => data[m].version = seen[c].version
      BY <2>2 DEF WriteGranted
    <2>6. /\ data' = data \/ (granted /\ data' = [data EXCEPT ![m] = Next1(c, m)])
          /\ \A n \in Node \ {m} : /\ work'[c].vote[n] = work[c].vote[n]
                                  /\ work'[c].got[n] = work[c].got[n]
          /\ work'[c].vote[m] = "for" =>
               /\ granted /\ data' = [data EXCEPT ![m] = Next1(c, m)]
               /\ work'[c].got[m] = Next1(c, m)
      BY <1>0, <2>3, <2>4, AnswerShape
    <2>7. \A n \in Node : data'[n].version \in Nat /\ data'[n].version >= data[n].version
      BY <1>0, <2>4, <2>6
    <2>8. ASSUME NEW n \in Node, work'[c].vote[n] = "for"
          PROVE  work'[c].got[n].version = seen[c].version + 1 /\ data'[n].version >= seen[c].version + 1
      <3>1. CASE n = m
        BY <1>0, <2>4, <2>5, <2>6, <2>8, <3>1
      <3>2. CASE n # m
        <4>1. work[c].got[n].version = seen[c].version + 1 /\ data[n].version >= seen[c].version + 1
          BY <1>6, <2>1, <2>6, <2>8, <3>2 DEF CommitInv
        <4> QED
          BY <1>0, <2>6, <2>7, <3>2, <4>1
      <3> QED
        BY <3>1, <3>2
    <2>9. CommitInv(c)'
      BY <1>1, <1>2, <1>8, <2>1, <2>8 DEF CommitInv, Active
    <2> QED
      BY <1>4, <1>5, <2>7, <2>9 DEF Committed
  <1>11. CASE RunDelete(c, m)
    <2>1. data' = data /\ work[c].step = "deleting"
      BY <1>11 DEF RunDelete, Calm, Undisturbed
    <2>2. CommitInv(c)'
      BY <1>1, <1>2, <1>8, <2>1 DEF CommitInv, Active
    <2> QED
      BY <1>0, <1>4, <1>5, <2>1, <2>2 DEF Committed
  <1>12. CASE RunRollback(c, m)
    <2>1. work[c].step = "undoing" /\ Answer(c, m, UndoGranted(c, m), data[m], Undone(c, m))
      BY <1>12 DEF RunRollback
    <2>2. /\ work'[c].undo = work[c].undo
          /\ data' = data \/ (data' = [data EXCEPT ![m] = Undone(c, m)]
                              /\ Undone(c, m).version = work[c].undo)
      <3>1. CASE UndoGranted(c, m)
        <4>1. Proper(Undone(c, m)) /\ Undone(c, m).version = work[c].undo
          BY <1>0, <3>1, UndoneVersion
        <4>2. PICK granted \in BOOLEAN : granted = UndoGranted(c, m)
          BY DEF UndoGranted
        <4>3. Answer(c, m, granted, data[m], Undone(c, m))
          BY <2>1, <4>2
        <4> QED
          BY <1>0, <4>1, <4>3, AnswerShape
      <3>2. CASE ~UndoGranted(c, m)
        <4>1. Answer(c, m, FALSE, data[m], data[m])
          BY <2>1, <3>2 DEF Answer
        <4> QED
          BY <1>0, <1>7, <4>1, AnswerShape
      <3> QED
        BY <3>1, <3>2
    <2>3. work[c].undo \in Nat /\ work[c].undo >= last.version
      BY <1>0, <1>6, <2>1 DEF DataInv, Work, CommitInv
    <2>4. \A n \in Node : data'[n].version \in Nat
      BY <1>0, <2>2, <2>3
    <2>6. \A n \in Node : data'[n].version >= data[n].version \/ data'[n].version >= last.version
      BY <1>0, <2>2, <2>3
    <2>5. CommitInv(c)'
      BY <1>1, <1>2, <1>8, <2>1, <2>2, <2>3 DEF CommitInv, Active
    <2> QED
      BY <1>4, <1>5, <2>4, <2>5, <2>6 DEF Committed
  <1> QED
    BY <1>9, <1>10, <1>11, <1>12

\* What a quorum agrees on while c reads is the newest commit, or a later version.
LEMMA AgreedCommit ==
  ASSUME DataInv, CommitsKept, NEW c \in Client, CommitInv(c),
         work[c].step \in {"reading", "refreshing"}, NEW d \in Agreed(c)
  PROVE  d.version >= last.version
  <1> DEFINE S == {n \in Voters(c) : work[c].got[n] = d}
  <1>1. S \subseteq Node /\ IsFiniteSet(S)
    BY NodeAssumption, FS_Subset DEF Voters, With
  <1>2. Cardinality(S) \in Nat /\ Cardinality(Node) \in Nat
    BY <1>1, NodeAssumption, FS_CardinalityType
  <1>3. IsQuorum(S)
    <2>1. Cardinality(S) >= QuorumSize
      BY DEF Agreed
    <2> QED
      BY <1>1, <1>2, <2>1 DEF IsQuorum, QuorumSize
  <1>4. PICK Q \in SUBSET Node : IsQuorum(Q) /\ \A n \in Q : data[n].version >= last.version
    BY DEF CommitsKept
  <1>5. PICK n \in Node : n \in Q /\ n \in S
    BY <1>3, <1>4, QuorumsMeet
  <1>6. data[n] = d
    BY <1>5 DEF CommitInv, Voters, With
  <1> QED
    BY <1>4, <1>5, <1>6

\* The beginnings and ends of a transaction's rounds leave the newest commit there, too.
LEMMA CommitRound ==
  ASSUME Inv, TransactionInv, Calm, Calm', Committed, NEW c \in Client, RoundChange(c)
  PROVE  Committed'
  <1>0. /\ DataInv /\ late \in BOOLEAN /\ Undisturbed /\ CommitsKept
        /\ last \in Datum /\ seen \in [Client -> Datum] /\ last.version \in Nat
        /\ \A d \in Client : CommitInv(d) /\ seen[d].version \in Nat
    BY DEF Inv, DataInv, HistoryTypeOK, Datum, Calm, Committed
  <1>1. data' = data /\ \A d \in Client \ {c} : work'[d] = work[d]
    BY <1>0, RoundShape
  \* A round that begins has no answers yet.
  <1>2. ASSUME ~StartRollback(c),
               Active(c)' /\ work'[c].step # "reading" => seen'[c].version >= last'.version
        PROVE  CommitInv(c)'
    <2>1. \A n \in Node : work'[c].vote[n] # "for"
      BY <1>0, <1>2, RoundShape, FreshRound
    <2>2. work'[c].step # "undoing"
      <3>1. "undoing" \notin cast.methods
        BY <1>0, OptimisticAssumption DEF DataInv, Method
      <3> QED
        BY <1>0, <1>2, <3>1, NextStep DEF RoundChange
    <2> QED
      BY <1>2, <2>1, <2>2 DEF CommitInv
  <1>3. last' = last => CommitsKept'
    BY <1>0, <1>1 DEF CommitsKept, IsQuorum
  <1>4. ASSUME last' = last, \A d \in Client \ {c} : seen'[d] = seen[d]
        PROVE  \A d \in Client \ {c} : CommitInv(d)'
    BY <1>0, <1>1, <1>4 DEF CommitInv, Active
  <1>5. CASE ReadDone(c)
    <2>1. last' = last /\ \A d \in Client \ {c} : seen'[d] = seen[d]
      BY <1>0, <1>5 DEF ReadDone
    <2>2. seen'[c].version >= last.version
      <3>1. CASE Agreed(c) = {} /\ seen' = [seen EXCEPT ![c] = Absent]
        <4>1. last.version = 0
          BY <1>5, <3>1 DEF ReadDone, Calm, Undisturbed
        <4> QED
          BY <1>0, <3>1, <4>1 DEF Absent
      <3>2. ASSUME NEW d \in Agreed(c), seen' = [seen EXCEPT ![c] = d]
            PROVE  seen'[c].version >= last.version
        <4>1. d.version >= last.version
          BY <1>0, <1>5, AgreedCommit DEF ReadDone
        <4> QED
          BY <1>0, <3>2, <4>1
      <3> QED
        BY <1>5, <3>1, <3>2 DEF ReadDone
    <2>3. ~StartRollback(c)
      BY <1>5 DEF ReadDone, StartRollback
    <2> QED
      BY <1>2, <1>3, <1>4, <2>1, <2>2, <2>3 DEF Committed
  <1>6. CASE RefreshDone(c)
    <2>1. last' = last /\ \A d \in Client \ {c} : seen'[d] = seen[d]
      BY <1>0, <1>6 DEF RefreshDone, history
    <2>2. seen'[c].version >= last.version
      <3>1. CASE seen' = seen
        BY <1>0, <1>6, <3>1 DEF RefreshDone, CommitInv, Active, Method
      <3>2. ASSUME NEW d \in Agreed(c), seen' = [seen EXCEPT ![c].version = d.version]
            PROVE  seen'[c].version >= last.version
        <4>1. d.version >= last.version
          BY <1>0, <1>6, AgreedCommit DEF RefreshDone
        <4>2. seen'[c].version = d.version
          BY <1>0, <3>2 DEF Datum
        <4> QED
          BY <4>1, <4>2
      <3> QED
        BY <1>6, <3>1, <3>2 DEF RefreshDone
    <2>3. ~StartRollback(c)
      BY <1>6 DEF RefreshDone, StartRollback
    <2> QED
      BY <1>2, <1>3, <1>4, <2>1, <2>2, <2>3 DEF Committed
  <1>7. CASE WriteSucceeds(c)
    <2>1. work[c].step = "writing" /\ Active(c)
      BY <1>7 DEF WriteSucceeds, TransactionInv, RoleKept, Calm, Active, Method
    <2>2. seen[c].version >= last.version
      BY <1>0, <2>1 DEF CommitInv
    <2>3. \A n \in Voters(c) : /\ work[c].got[n].version = seen[c].version + 1
                              /\ data[n].version >= seen[c].version + 1
      BY <1>0, <2>1 DEF CommitInv, Voters, With
    <2>4. last'.version = seen[c].version + 1
      <3>1. PICK d \in {work[c].got[n] : n \in Voters(c)} :
              last' = IF d.version > last.version THEN d ELSE last
        BY <1>7 DEF WriteSucceeds
      <3>2. d.version = seen[c].version + 1
        BY <2>3
      <3>3. d.version > last.version
        BY <1>0, <2>2, <3>2
      <3> QED
        BY <3>1, <3>2, <3>3
    <2>5. seen'[c].version = seen[c].version + 1
      <3>1. PICK n \in Voters(c) : seen' = [seen EXCEPT ![c].version = work[c].got[n].version]
        BY <1>7 DEF WriteSucceeds
      <3>2. seen'[c].version = work[c].got[n].version
        BY <1>0, <3>1 DEF Datum
      <3> QED
        BY <2>3, <3>2
    <2>6. CommitsKept'
      <3>1. work[c].vote \in [Node -> Vote] /\ Quorum(work[c].vote)
        BY <1>0, <1>7 DEF DataInv, Work, WriteSucceeds
      <3>2. IsQuorum(Voters(c)) /\ Voters(c) \in SUBSET Node
        BY <3>1, QuorumOfVotes DEF Voters, With
      <3>3. \A n \in Voters(c) : data'[n].version >= last'.version
        BY <1>1, <2>3, <2>4
      <3> QED
        BY <3>2, <3>3 DEF CommitsKept, IsQuorum
    <2>7. CommitInv(c)'
      <3>1. ~StartRollback(c)
        BY <1>7 DEF WriteSucceeds, StartRollback
      <3>2. seen'[c].version >= last'.version
        BY <1>0, <2>4, <2>5
      <3> QED
        BY <1>2, <3>1, <3>2
    <2>8. \A d \in Client \ {c} : CommitInv(d)'
      <3>1. \A d \in Client \ {c} : ~Active(d)
        BY <1>0, <2>1, Alone
      <3> QED
        BY <1>1, <3>1 DEF CommitInv, Active, Method
    <2> QED
      BY <2>6, <2>7, <2>8 DEF Committed
  <1>8. CASE StartRollback(c)
    <2>1. UNCHANGED <<last, seen>>
      BY <1>8 DEF StartRollback, history
    <2>2. work[c].step = "writing" /\ Active(c)
      BY <1>8 DEF StartRollback, TransactionInv, RoleKept, Calm, Active, Method
    <2>3. seen[c].version >= last.version
      BY <1>0, <2>2 DEF CommitInv
    <2>4. work'[c].step = "undoing" /\ work'[c].undo = seen[c].version
      BY <1>0, <1>8, <2>2, RoundShape
    <2>5. CommitInv(c)'
      BY <2>1, <2>3, <2>4 DEF CommitInv
    <2> QED
      BY <1>3, <1>4, <2>1, <2>5 DEF Committed
  <1>9. CASE \/ StartRead(c) \/ StartOp(c) \/ WriteFails(c) \/ RollbackDone(c) \/ DeleteDone(c)
             \/ OperationEnds(c) \/ Conflict(c)
    <2>1. UNCHANGED <<last, seen>>
      BY <1>9 DEF StartRead, StartOp, WriteFails, RollbackDone, DeleteDone, OperationEnds, Conflict,
         history
    <2>2. ~StartRollback(c)
      BY <1>9 DEF StartRead, StartOp, WriteFails, RollbackDone, DeleteDone, OperationEnds, Conflict,
         StartRollback
    <2>3. Active(c)' /\ work'[c].step # "reading" => Active(c) /\ work[c].step # "reading"
      <3>1. CASE StartRead(c) \/ OperationEnds(c) \/ Conflict(c)
        <4>1. work'[c].step \in {"reading", "done", "conflict", "none"}
          BY <1>0, <3>1, NextStep
        <4> QED
          BY <4>1 DEF Active, Method
      <3>2. CASE StartOp(c) \/ WriteFails(c) \/ RollbackDone(c) \/ DeleteDone(c)
        BY <3>2 DEF StartOp, WriteFails, RollbackDone, DeleteDone, Active, Method
      <3> QED
        BY <1>9, <3>1, <3>2
    <2>4. CommitInv(c)'
      BY <1>0, <1>2, <2>1, <2>2, <2>3 DEF CommitInv
    <2> QED
      BY <1>3, <1>4, <2>1, <2>4 DEF Committed
  <1> QED
    BY <1>5, <1>6, <1>7, <1>8, <1>9 DEF RoundChange

\* As long as nothing gets in the way of the transactions, the newest version that update()
\* committed, or a later one, stays on a quorum of nodes.
THEOREM TransactionsKeepTheirCommits == Spec => []TransactionsKeepCommits
  <1> DEFINE CInv == TransactionInv /\ (Calm => Committed)
  <1>1. Inv /\ Init => CInv
    <2> SUFFICES ASSUME Inv, Init
                 PROVE  CInv
      OBVIOUS
    <2>1. \A c \in Client : work[c] = NoWork /\ work[c].step = "none" /\ pc[c] = "idle"
      BY DEF Init, LockInit, NoWork
    <2>2. TransactionInv
      BY <2>1 DEF TransactionInv, RoleKept, Active, Method
    <2>3. IsQuorum(Node)
      <3>1. Cardinality(Node) \in Nat /\ Cardinality(Node) # 0
        BY NodeAssumption, FS_CardinalityType, FS_EmptySet
      <3> QED
        BY <3>1 DEF IsQuorum
    <2>4. \A n \in Node : data[n].version >= last.version
      BY DEF Init, Absent
    <2>5. Committed
      BY <2>1, <2>3, <2>4 DEF Committed, CommitsKept, CommitInv, Active, Method
    <2> QED
      BY <2>2, <2>5
  <1>2. Inv /\ CInv /\ [Next]_vars => CInv'
    <2> SUFFICES ASSUME Inv, CInv, [Next]_vars
                 PROVE  CInv'
      OBVIOUS
    <2>1. TransactionInv'
      <3>1. \A c \in Client : RoleKept(c)'
        BY RoleStep DEF TransactionInv
      <3>2. cast' = cast /\ late' \in BOOLEAN
        BY CastStays, InvStep DEF Inv, HistoryTypeOK
      <3> QED
        BY <3>1, <3>2, CoveredStep DEF TransactionInv
    <2>2. ASSUME Calm'
          PROVE  Committed'
      <3>1. Calm /\ Committed
        BY <2>2, StillUndisturbed, CastStays DEF Inv, Calm
      <3>2. CASE UNCHANGED <<data, work, seen, last>>
        BY <3>1, <3>2 DEF Committed, CommitsKept, CommitInv, Active
      <3>3. UNCHANGED vars \/ UNCHANGED dataVars \/ Time => UNCHANGED <<data, work, seen, last>>
        BY DEF vars, dataVars, history, Time
      <3>4. DataAction => \/ \E c \in Client : RoundChange(c)
                          \/ \E c \in Client, m \in Node :
                               RunRead(c, m) \/ RunWrite(c, m) \/ RunDelete(c, m) \/ RunRollback(c, m)
        BY DEF DataAction, RoundChange
      <3> QED
        BY <2>2, <3>1, <3>2, <3>3, <3>4, CommitNode, CommitRound DEF Next
    <2> QED
      BY <2>1, <2>2
  <1>3. Inv /\ CInv => TransactionsKeepCommits
    <2> SUFFICES ASSUME Inv, CInv, Calm
                 PROVE  Cardinality({n \in Node : data[n].version >= last.version}) >= QuorumSize
      BY DEF TransactionsKeepCommits, Calm
    <2> DEFINE S == {n \in Node : data[n].version >= last.version}
    <2>1. PICK Q \in SUBSET Node : IsQuorum(Q) /\ \A n \in Q : data[n].version >= last.version
      BY DEF Committed, CommitsKept
    <2>2. IsFiniteSet(S) /\ IsFiniteSet(Q) /\ Cardinality(Q) <= Cardinality(S)
      BY <2>1, NodeAssumption, FS_Subset
    <2>3. Cardinality(S) \in Nat /\ Cardinality(Q) \in Nat /\ Cardinality(Node) \in Nat
      BY <2>2, NodeAssumption, FS_CardinalityType
    <2> QED
      BY <2>1, <2>2, <2>3 DEF IsQuorum, QuorumSize
  <1> QED
    BY <1>1, <1>2, <1>3, LockInvariance, PTL DEF Spec
=============================================================================
