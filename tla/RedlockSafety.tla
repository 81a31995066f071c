--------------------------- MODULE RedlockSafety ---------------------------
(***************************************************************************)
(* Redlock's mutual exclusion, for every number of nodes, calls, keys,     *)
(* retries, extensions and faults, and its refinement of LeaseLock; what   *)
(* finished calls leave on the nodes, and what a release that is refused   *)
(* means.  The lemmas about types, connections and single nodes are        *)
(* RedlockProofs'.                                                         *)
(***************************************************************************)
EXTENDS RedlockProofs

(***************************************************************************)
(* Votes.  A vote appears only when a node executes a live write.          *)
(***************************************************************************)

\* Node n answers a round of c that still waits for it.
Heard(c, n) == conn[c][n] # <<>> /\ Head(conn[c][n]).live

\* A vote for an attempt was there before, or the node has just given it.
LEMMA FreshVote ==
  ASSUME TypeOK, NEW c \in Client, NEW n \in Node, Commands(c), ClientStep(c),
         pc'[c] = "acquiring", vote'[c][n] = "for"
  PROVE  /\ pc[c] = "acquiring" /\ start'[c] = start[c]
         /\ \/ vote[c][n] = "for"
            \/ RunAcquire(c, n) /\ AcquireGranted(c, n) /\ Heard(c, n)
  <1> DEFINE Goal == /\ pc[c] = "acquiring" /\ start'[c] = start[c]
                     /\ \/ vote[c][n] = "for"
                        \/ RunAcquire(c, n) /\ AcquireGranted(c, n) /\ Heard(c, n)
  <1> SUFFICES Goal
    OBVIOUS
  <1>0. vote \in [Client -> [Node -> Vote]] /\ pc \in [Client -> PC]
    BY DEF TypeOK
  <1>1. CASE StartAttempt(c)
    <2>1. PICK refused \in Refused : StartAttempt(c)!(refused)
      BY <1>1 DEF StartAttempt
    <2>2. vote'[c][n] = Opening(refused)[n]
      BY <1>0, <2>1
    <2> QED
      BY <2>2 DEF Opening
  <1>2. CASE StartExtend(c) \/ ExtendSucceeds(c) \/ ExtendFails(c)
    BY <1>2 DEF StartExtend, ExtendSucceeds, ExtendFails
  <1>3. CASE StartRelease(c) \/ AcquireSucceeds(c) \/ AcquireRefused(c) \/ AcquireFails(c)
               \/ CleanupDone(c) \/ ReleaseSucceeds(c) \/ ReleaseNotHeld(c) \/ ReleaseFails(c)
    BY <1>0, <1>3 DEF StartRelease, AcquireSucceeds, AcquireRefused, AcquireFails,
       CleanupDone, ReleaseSucceeds, ReleaseNotHeld, ReleaseFails, EndRelease
  <1>4. ASSUME NEW m \in Node, RunAcquire(c, m) PROVE Goal
    <2>1. pc' = pc /\ start' = start /\ conn[c][m] # <<>>
      BY <1>4 DEF RunAcquire, Head1
    <2>2. CASE Head(conn[c][m]).live /\ m = n
      <3>1. vote'[c][n] = IF AcquireGranted(c, m) THEN "for" ELSE "against"
        BY <1>0, <1>4, <2>2 DEF RunAcquire, Answer
      <3> QED
        BY <1>4, <2>1, <2>2, <3>1 DEF Heard
    <2>3. CASE ~(Head(conn[c][m]).live /\ m = n)
      <3>1. vote'[c][n] = vote[c][n]
        BY <1>0, <1>4, <2>3 DEF RunAcquire, Answer
      <3> QED
        BY <2>1, <3>1
    <2> QED
      BY <2>2, <2>3
  <1>5. ASSUME NEW m \in Node, RunRelease(c, m) PROVE Goal
    <2>1. pc' = pc /\ start' = start /\ conn[c][m] # <<>>
          /\ (Head(conn[c][m]).op = "release" \/ Head(conn[c][m]).op = "cleanup")
      BY <1>5 DEF RunRelease, Head1
    <2>2. Legal(pc[c], ext[c].on, Head(conn[c][m]))
      BY <2>1, QueueType, TailQueue DEF Commands
    <2>3. ~Head(conn[c][m]).live
      BY <2>1, <2>2 DEF Legal, Unowned
    <2> QED
      BY <1>5, <2>1, <2>3 DEF RunRelease, Answer
  <1>6. ASSUME NEW m \in Node, RunExtend(c, m) \/ NoScript(c, m) \/ ExtendTimeout(c, m)
        PROVE  Goal
    BY <1>6 DEF RunExtend, NoScript, ExtendTimeout
  <1>7. ASSUME NEW m \in Node, Disconnect(c, m) \/ Timeout(c, m) PROVE Goal
    <2>1. pc' = pc /\ start' = start /\ (vote'[c][n] = vote[c][n] \/ vote'[c][n] = "error")
      BY <1>0, <1>7 DEF Disconnect, Timeout
    <2> QED
      BY <2>1
  <1> QED
    BY <1>1, <1>2, <1>3, <1>4, <1>5, <1>6, <1>7 DEF ClientStep, Decide, Serve

\* A vote for an extension was there before, or the node has just given it.
LEMMA FreshExtendVote ==
  ASSUME TypeOK, NEW c \in Client, NEW n \in Node, Leases(c), ClientStep(c),
         ext'[c].on, ext'[c].vote[n] = "for"
  PROVE  /\ pc'[c] = "held" => pc[c] = "held"
         /\ ext[c].on
         /\ ext'[c].start = ext[c].start /\ ext'[c].ttl = ext[c].ttl
         /\ \/ ext[c].vote[n] = "for"
            \/ RunExtend(c, n) /\ ExtendGranted(c, n) /\ Heard(c, n)
  <1> DEFINE Goal == /\ pc'[c] = "held" => pc[c] = "held"
                     /\ ext[c].on
                     /\ ext'[c].start = ext[c].start /\ ext'[c].ttl = ext[c].ttl
                     /\ \/ ext[c].vote[n] = "for"
                        \/ RunExtend(c, n) /\ ExtendGranted(c, n) /\ Heard(c, n)
  <1> SUFFICES Goal
    OBVIOUS
  <1>0. ext \in [Client -> ExtendCall] /\ pc \in [Client -> PC]
    BY DEF TypeOK
  <1>1. CASE StartExtend(c)
    <2>1. PICK ttl \in ExtendTtls, refused \in Refused : StartExtend(c)!(ttl, refused)
      BY <1>1 DEF StartExtend
    <2>2. ext'[c].vote[n] = Opening(refused)[n]
      BY <1>0, <2>1
    <2> QED
      BY <2>2 DEF Opening
  <1>2. CASE StartAttempt(c) \/ StartRelease(c) \/ AcquireRefused(c) \/ AcquireFails(c)
               \/ CleanupDone(c) \/ ReleaseSucceeds(c) \/ ReleaseNotHeld(c) \/ ReleaseFails(c)
    BY <1>0, <1>2 DEF StartAttempt, StartRelease, AcquireRefused, AcquireFails, CleanupDone,
       ReleaseSucceeds, ReleaseNotHeld, ReleaseFails, EndRelease
  <1>3. CASE AcquireSucceeds(c)
    BY <1>3 DEF AcquireSucceeds, Leases, Unowned
  <1>4. CASE ExtendSucceeds(c) \/ ExtendFails(c)
    BY <1>0, <1>4 DEF ExtendSucceeds, ExtendFails, NoExtend
  <1>5. ASSUME NEW m \in Node, RunExtend(c, m) PROVE Goal
    <2>1. pc' = pc /\ conn[c][m] # <<>>
      BY <1>5 DEF RunExtend, Head1
    <2>2. CASE Head(conn[c][m]).live
      <3>1. ext' = [ext EXCEPT ![c].vote[m] = IF ExtendGranted(c, m) THEN "for" ELSE "against"]
        BY <1>5, <2>2 DEF RunExtend
      <3>2. /\ ext'[c].on = ext[c].on /\ ext'[c].start = ext[c].start
            /\ ext'[c].ttl = ext[c].ttl
            /\ m # n => ext'[c].vote[n] = ext[c].vote[n]
            /\ m = n => ext'[c].vote[n] = IF ExtendGranted(c, m) THEN "for" ELSE "against"
        BY <1>0, <3>1 DEF ExtendCall
      <3> QED
        BY <1>5, <2>1, <2>2, <3>2 DEF Heard
    <2>3. CASE ~Head(conn[c][m]).live
      BY <1>5, <2>1, <2>3 DEF RunExtend
    <2> QED
      BY <2>2, <2>3
  <1>6. ASSUME NEW m \in Node, RunAcquire(c, m) \/ RunRelease(c, m) \/ NoScript(c, m)
                               \/ Timeout(c, m)
        PROVE  Goal
    BY <1>6 DEF RunAcquire, RunRelease, NoScript, Timeout
  <1>7. ASSUME NEW m \in Node, Disconnect(c, m) \/ ExtendTimeout(c, m) PROVE Goal
    <2>1. /\ pc' = pc /\ ext'[c].on = ext[c].on /\ ext'[c].start = ext[c].start
          /\ ext'[c].ttl = ext[c].ttl
          /\ ext'[c].vote[n] = ext[c].vote[n] \/ ext'[c].vote[n] = "error"
      <3>1. PICK x \in {ext[c].vote[m], "error"} : ext' = [ext EXCEPT ![c].vote[m] = x]
        BY <1>7 DEF Disconnect, ExtendTimeout
      <3>2. pc' = pc
        BY <1>7 DEF Disconnect, ExtendTimeout
      <3> QED
        <4>1. ext[c] \in ExtendCall
          BY <1>0
        <4>2. ext'[c] = [ext[c] EXCEPT !.vote = [ext[c].vote EXCEPT ![m] = x]]
          BY <1>0, <3>1
        <4>3. ext'[c].vote = [ext[c].vote EXCEPT ![m] = x]
          BY <4>1, <4>2 DEF ExtendCall
        <4>4. ext'[c].vote[n] = ext[c].vote[n] \/ ext'[c].vote[n] = "error"
          BY <3>1, <4>1, <4>3 DEF ExtendCall
        <4> QED
          BY <3>2, <4>1, <4>2, <4>4 DEF ExtendCall
    <2> QED
      BY <2>1
  <1> QED
    BY <1>1, <1>2, <1>3, <1>4, <1>5, <1>6, <1>7 DEF ClientStep, Decide, Serve

\* A node that executes a write some round of c waits for backs every lease
\* that c could compute now.
LEMMA WriteBacks ==
  ASSUME TypeOK, NEW c \in Client, NEW n \in Node, Commands(c),
         pc[c] \in {"acquiring", "held"}, Heard(c, n),
         \/ RunAcquire(c, n) /\ AcquireGranted(c, n)
         \/ RunExtend(c, n) /\ ExtendGranted(c, n),
         NEW e \in Int, NEW u \in Ttls, e <= now + u - Drift(u)
  PROVE  Backed(c, n, e)'
  <1> DEFINE q == conn[c][n]
  <1>1. /\ q \in Seq(Cmd) /\ q # <<>> /\ Head(q).live /\ Head(q).op \in Writes
        /\ conn'[c][n] = Tail(q) /\ now' = now
        /\ store' = [store EXCEPT ![n] = Written(c, n, Head(q).ttl)]
    <2>1. q \in Seq(Cmd) /\ q # <<>> /\ Head(q).live
      BY QueueType DEF Heard
    <2>2. Head(q).op \in Writes /\ now' = now /\ Pop(c, n)
      BY DEF RunAcquire, RunExtend, Head1, Writes
    <2>3. conn'[c][n] = Tail(q)
      BY <2>2 DEF Pop, TypeOK
    <2>4. store' = [store EXCEPT ![n] = Written(c, n, Head(q).ttl)]
      BY DEF RunAcquire, RunExtend
    <2> QED
      BY <2>1, <2>2, <2>3, <2>4
  <1>2. /\ 1 \in 1..Len(q) /\ Head(q) = q[1] /\ Tail(q) \in Seq(Cmd)
        /\ \A i \in 1..Len(Tail(q)) : i + 1 \in 1..Len(q) /\ Tail(q)[i] = q[i + 1]
    BY <1>1, TailQueue
  <1>3. Legal(pc[c], ext[c].on, q[1]) /\ Ordered(q)
    BY <1>2 DEF Commands
  <1>4. NoDelete(c, n)'
    <2>1. ASSUME NEW i \in 1..Len(Tail(q)) PROVE Tail(q)[i].op \notin Deletes
      <3>1. i + 1 \in 1..Len(q) /\ Tail(q)[i] = q[i + 1] /\ 1 < i + 1
        BY <1>2
      <3> QED
        BY <1>1, <1>2, <1>3, <3>1 DEF Ordered
    <2> QED
      BY <1>1, <2>1 DEF NoDelete
  <1>5. ASSUME NEW k \in Resources[c]
        PROVE  store'[n][k].holder = c /\ store'[n][k].expiry >= e + ClockSkew
    <2>1. Head(q).ttl \in Ttls
      BY <1>1, <1>2, <1>3 DEF Legal
    <2>2. k \in Key
      BY ClientAssumption
    <2>3. store'[n][k] = [holder |-> c, expiry |-> now + Head(q).ttl]
      BY <1>1, <2>2 DEF TypeOK, Written
    <2> QED
      BY <2>1, <2>3, LeaseMargin
  <1> QED
    BY <1>4, <1>5 DEF Backed, Owns

\* What stands behind the votes of c stays behind them.
LEMMA VotesBackedStep ==
  ASSUME TypeOK, \A d \in Client : Commands(d), [Next]_vars,
         NEW c \in Client, Leases(c), VotesBacked(c), ClientStep(c) \/ Same(c)
  PROVE  VotesBacked(c)'
  <1> USE ExtType
  <1>1. ASSUME NEW n \in Node, pc'[c] = "acquiring", vote'[c][n] = "for"
        PROVE  Backed(c, n, AcquireExpiry(c))'
    <2>0. PICK e \in Int : e = start[c] + Ttl - Drift(Ttl)
      BY DriftType, TimeAssumption
    <2>1. /\ pc[c] = "acquiring" /\ start'[c] = start[c]
          /\ \/ vote[c][n] = "for"
             \/ RunAcquire(c, n) /\ AcquireGranted(c, n) /\ Heard(c, n)
      BY <1>1, FreshVote DEF Same
    <2>2. Ttl \in Ttls /\ e <= now + Ttl - Drift(Ttl)
      BY <2>0, <2>1, TimeAssumption, DriftType DEF Leases, Ttls
    <2>3. AcquireExpiry(c) = e /\ AcquireExpiry(c)' = e
      BY <2>0, <2>1 DEF AcquireExpiry
    <2>4. CASE vote[c][n] = "for"
      <3>1. Backed(c, n, e)
        BY <2>1, <2>3, <2>4 DEF VotesBacked
      <3>2. Backed(c, n, e)'
        BY <1>1, <2>1, <2>2, <3>1, BackedStep
      <3> QED
        BY <2>3, <3>2 DEF Backed
    <2>5. CASE RunAcquire(c, n) /\ AcquireGranted(c, n) /\ Heard(c, n)
      <3>1. Backed(c, n, e)'
        BY <2>1, <2>2, <2>5, WriteBacks
      <3> QED
        BY <2>3, <3>1 DEF Backed
    <2> QED
      BY <2>1, <2>4, <2>5
  <1>2. ASSUME NEW n \in Node, pc'[c] = "held", ext'[c].on, ext'[c].vote[n] = "for"
        PROVE  Backed(c, n, ExtendExpiry(c))'
    <2>0. PICK e \in Int : e = ext[c].start + ext[c].ttl - Drift(ext[c].ttl)
      BY DriftType
    <2>1. /\ pc[c] = "held" /\ ext[c].on
          /\ ext'[c].start = ext[c].start /\ ext'[c].ttl = ext[c].ttl
          /\ \/ ext[c].vote[n] = "for"
             \/ RunExtend(c, n) /\ ExtendGranted(c, n) /\ Heard(c, n)
      BY <1>2, FreshExtendVote DEF Same
    <2>2. ext[c].ttl \in Ttls /\ e <= now + ext[c].ttl - Drift(ext[c].ttl)
      BY <2>0, <2>1, DriftType DEF Leases
    <2>3. ExtendExpiry(c) = e /\ ExtendExpiry(c)' = e
      BY <2>0, <2>1 DEF ExtendExpiry
    <2>4. CASE ext[c].vote[n] = "for"
      <3>1. Backed(c, n, e)
        BY <2>1, <2>3, <2>4 DEF VotesBacked
      <3>2. Backed(c, n, e)'
        BY <1>2, <2>1, <2>2, <3>1, BackedStep
      <3> QED
        BY <2>3, <3>2 DEF Backed
    <2>5. CASE RunExtend(c, n) /\ ExtendGranted(c, n) /\ Heard(c, n)
      <3>1. Backed(c, n, e)'
        BY <2>1, <2>2, <2>5, WriteBacks
      <3> QED
        BY <2>3, <3>1 DEF Backed
    <2> QED
      BY <2>1, <2>4, <2>5
  <1> QED
    BY <1>1, <1>2 DEF VotesBacked

(***************************************************************************)
(* Locks.  A quorum of votes becomes the quorum behind the lock.           *)
(***************************************************************************)

\* As many answers of one kind as a round needs are a quorum.
LEMMA QuorumOfVotes ==
  ASSUME NEW v \in [Node -> Vote], NEW x, Cardinality(With(v, x)) >= QuorumSize
  PROVE  IsQuorum(With(v, x))
  <1>1. With(v, x) \subseteq Node /\ IsFiniteSet(With(v, x))
    BY NodeAssumption, FS_Subset DEF With
  <1>2. Cardinality(With(v, x)) \in Nat /\ Cardinality(Node) \in Nat
    BY <1>1, NodeAssumption, FS_CardinalityType
  <1> QED
    BY <1>1, <1>2 DEF QuorumSize, IsQuorum

\* Two quorums share a node.
LEMMA QuorumsMeet ==
  ASSUME NEW Q, NEW R, IsQuorum(Q), IsQuorum(R)
  PROVE  \E n \in Q : n \in R
  <1>1. /\ Q \subseteq Node /\ R \subseteq Node
        /\ Cardinality(Q) \in Nat /\ Cardinality(R) \in Nat /\ Cardinality(Node) \in Nat
    BY NodeAssumption, FS_Subset, FS_CardinalityType DEF IsQuorum
  <1>2. Cardinality(Q) + Cardinality(R) > Cardinality(Node)
    BY <1>1 DEF IsQuorum
  <1>3. Q \cap R # {}
    BY <1>1, <1>2, NodeAssumption, FS_MajoritiesIntersect
  <1> QED
    BY <1>3

\* How a lock comes to be held, and how its expiration changes.
LEMMA HeldStep ==
  ASSUME TypeOK, NEW c \in Client, ClientStep(c) \/ Same(c), pc'[c] = "held"
  PROVE  \/ pc[c] = "held" /\ expiration'[c] = expiration[c]
         \/ AcquireSucceeds(c) /\ InTime(c)
         \/ ExtendSucceeds(c) /\ pc[c] = "held"
  <1>0. pc \in [Client -> PC] /\ expiration \in [Client -> Int]
    BY DEF TypeOK
  <1>1. CASE AcquireSucceeds(c)
    BY <1>0, <1>1 DEF AcquireSucceeds
  <1>2. CASE ExtendSucceeds(c)
    BY <1>2 DEF ExtendSucceeds
  <1>3. CASE StartAttempt(c) \/ StartRelease(c) \/ AcquireRefused(c) \/ AcquireFails(c)
               \/ CleanupDone(c) \/ ReleaseSucceeds(c) \/ ReleaseNotHeld(c) \/ ReleaseFails(c)
    BY <1>0, <1>3 DEF StartAttempt, StartRelease, AcquireRefused, AcquireFails, CleanupDone,
       ReleaseSucceeds, ReleaseNotHeld, ReleaseFails, EndRelease
  <1>4. CASE StartExtend(c) \/ ExtendFails(c)
    BY <1>4 DEF StartExtend, ExtendFails
  <1>5. ASSUME NEW n \in Node, Serve(c, n)
        PROVE  pc[c] = "held" /\ expiration'[c] = expiration[c]
    BY <1>5 DEF Serve, RunAcquire, RunExtend, RunRelease, NoScript, Disconnect, Timeout,
                ExtendTimeout
  <1>6. CASE Same(c)
    BY <1>6 DEF Same
  <1> QED
    BY <1>1, <1>2, <1>3, <1>4, <1>5, <1>6 DEF ClientStep, Decide

\* A lock has a quorum behind it from the grant on, through every extension.
LEMMA LockBackedStep ==
  ASSUME TypeOK, \A d \in Client : Commands(d), [Next]_vars,
         NEW c \in Client, Leases(c), VotesBacked(c), LockBacked(c), ClientStep(c) \/ Same(c)
  PROVE  LockBacked(c)'
  <1> USE ExtType
  <1> SUFFICES ASSUME pc'[c] = "held"
               PROVE  \E Q \in SUBSET Node :
                        IsQuorum(Q) /\ \A n \in Q : Backed(c, n, expiration[c])'
    BY DEF LockBacked, IsQuorum
  <1>1. ASSUME NEW Q \in SUBSET Node, IsQuorum(Q), NEW e \in Int, NEW u \in Ttls,
               pc[c] \in {"acquiring", "held"}, e <= now + u - Drift(u),
               \A n \in Q : Backed(c, n, e), expiration'[c] = e
        PROVE  \A n \in Q : Backed(c, n, expiration[c])'
    <2>1. \A n \in Q : Backed(c, n, e)'
      BY <1>1, BackedStep
    <2> QED
      BY <1>1, <2>1 DEF Backed
  <1>2. CASE pc[c] = "held" /\ expiration'[c] = expiration[c]
    <2>1. PICK e \in Int : e = expiration[c]
      OBVIOUS
    <2>2. PICK u \in Ttls : e <= now + u - Drift(u)
      BY <1>2, <2>1 DEF Leases
    <2>3. PICK Q \in SUBSET Node : IsQuorum(Q) /\ \A n \in Q : Backed(c, n, e)
      BY <1>2, <2>1 DEF LockBacked
    <2> QED
      BY <1>1, <1>2, <2>1, <2>2, <2>3
  <1>3. CASE AcquireSucceeds(c) /\ InTime(c)
    <2>1. PICK e \in Int : e = start[c] + Ttl - Drift(Ttl)
      BY DriftType, TimeAssumption
    <2>2. pc[c] = "acquiring" /\ expiration'[c] = e /\ Quorum(vote[c])
      BY <1>3, <2>1 DEF AcquireSucceeds, AcquireExpiry, TypeOK
    <2>3. Ttl \in Ttls /\ e <= now + Ttl - Drift(Ttl)
      BY <2>1, <2>2, DriftType, TimeAssumption DEF Leases, Ttls
    <2>4. With(vote[c], "for") \in SUBSET Node /\ IsQuorum(With(vote[c], "for"))
      BY <2>2, QuorumOfVotes DEF With, Quorum
    <2>5. \A n \in With(vote[c], "for") : Backed(c, n, e)
      BY <2>1, <2>2 DEF VotesBacked, AcquireExpiry, With
    <2> QED
      BY <1>1, <2>2, <2>3, <2>4, <2>5
  <1>4. CASE ExtendSucceeds(c) /\ pc[c] = "held"
    <2>1. PICK e \in Int : e = ext[c].start + ext[c].ttl - Drift(ext[c].ttl)
      BY DriftType
    <2>2. ext[c].on /\ expiration'[c] = e /\ Quorum(ext[c].vote)
      BY <1>4, <2>1 DEF ExtendSucceeds, ExtendExpiry, TypeOK
    <2>3. ext[c].ttl \in Ttls /\ e <= now + ext[c].ttl - Drift(ext[c].ttl)
      BY <2>1, <2>2, DriftType DEF Leases
    <2>4. With(ext[c].vote, "for") \in SUBSET Node /\ IsQuorum(With(ext[c].vote, "for"))
      BY <2>2, QuorumOfVotes DEF With, Quorum
    <2>5. \A n \in With(ext[c].vote, "for") : Backed(c, n, e)
      BY <1>4, <2>1, <2>2 DEF VotesBacked, ExtendExpiry, With
    <2> QED
      BY <1>1, <1>4, <2>2, <2>3, <2>4, <2>5
  <1> QED
    BY <1>2, <1>3, <1>4, HeldStep

(***************************************************************************)
(* The inductive invariant.                                                *)
(***************************************************************************)

\* Nothing is under way and nothing is held at first.
LEMMA InvInit == Init => IInv
  <1> SUFFICES ASSUME Init PROVE IInv
    OBVIOUS
  <1>1. TypeOK
    BY VotesType, EmptySeq DEF Init, TypeOK, Entry, Free, PC
  <1>2. ASSUME NEW c \in Client
        PROVE  Commands(c) /\ Leases(c) /\ VotesBacked(c) /\ LockBacked(c)
    <2>1. pc[c] = "idle" /\ ~ext[c].on /\ \A n \in Node : conn[c][n] = <<>>
      BY DEF Init, NoExtend
    <2>2. Commands(c)
      BY <2>1, EmptySeq DEF Commands
    <2> QED
      BY <2>1, <2>2 DEF Leases, VotesBacked, LockBacked
  <1> QED
    BY <1>1, <1>2 DEF IInv

\* Every step keeps the invariant, for the client that moves and for the others.
LEMMA InvStep == IInv /\ [Next]_vars => IInv'
  <1> SUFFICES ASSUME IInv, [Next]_vars PROVE IInv'
    OBVIOUS
  <1>1. TypeOK /\ TypeOK'
    BY TypeStep DEF IInv
  <1>2. ASSUME NEW c \in Client
        PROVE  (Commands(c) /\ Leases(c) /\ VotesBacked(c) /\ LockBacked(c))'
    <2>1. /\ \A d \in Client : Commands(d)
          /\ Leases(c) /\ VotesBacked(c) /\ LockBacked(c)
      BY DEF IInv
    <2>2. ClientStep(c) \/ Same(c)
      BY <1>1, StepShape
    <2>3. VotesBacked(c)' /\ LockBacked(c)'
      BY <1>1, <2>1, <2>2, VotesBackedStep, LockBackedStep
    <2>4. Commands(c)'
      <3>1. CASE Same(c)
        BY <2>1, <3>1 DEF Same, Commands
      <3> QED
        BY <1>1, <2>1, <2>2, <3>1, CommandsStep
    <2>5. Leases(c)'
      <3>1. CASE Same(c)
        <4>1. now \in Nat /\ now' \in Nat /\ now' >= now
          BY <1>1, StepShape DEF TypeOK
        <4>2. /\ pc[c] = "acquiring" => start[c] <= now'
              /\ ext[c].on => ext[c].start <= now'
          BY <1>1, <2>1, <4>1, ExtType DEF Leases
        <4>3. ASSUME pc[c] = "held" PROVE \E u \in Ttls : expiration[c] <= now' + u - Drift(u)
          <5>1. PICK u \in Ttls : expiration[c] <= now + u - Drift(u)
            BY <2>1, <4>3 DEF Leases
          <5>2. u \in Nat /\ Drift(u) \in Int /\ expiration[c] \in Int
            BY <1>1, TimeAssumption, DriftType DEF Ttls, TypeOK
          <5> QED
            BY <4>1, <5>1, <5>2
        <4> QED
          BY <2>1, <3>1, <4>2, <4>3 DEF Same, Leases
      <3> QED
        BY <1>1, <2>1, <2>2, <3>1, LeasesStep
    <2> QED
      BY <2>3, <2>4, <2>5
  <1> QED
    BY <1>1, <1>2 DEF IInv

\* Two quorums share a node, and a key has one holder.
LEMMA InvExclusion == IInv => MutualExclusion
  <1> SUFFICES ASSUME IInv, NEW c \in Client, NEW d \in Client,
                      Valid(c), Valid(d), Conflict(c, d)
               PROVE  FALSE
    BY DEF MutualExclusion
  <1>1. PICK Q \in SUBSET Node : IsQuorum(Q) /\ \A n \in Q : Backed(c, n, expiration[c])
    BY DEF IInv, LockBacked, Valid
  <1>2. PICK R \in SUBSET Node : IsQuorum(R) /\ \A n \in R : Backed(d, n, expiration[d])
    BY DEF IInv, LockBacked, Valid
  <1>3. PICK n \in Q : n \in R
    BY <1>1, <1>2, QuorumsMeet
  <1>4. c # d /\ \E k \in Resources[c] : k \in Resources[d]
    BY DEF Conflict
  <1> QED
    BY <1>1, <1>2, <1>3, <1>4 DEF Backed, Owns, Valid

\* The inductive invariant holds in every reachable state.
THEOREM Invariance == Spec => []IInv
  BY InvInit, InvStep, PTL DEF Spec

\* No two locks on overlapping resources are ever valid at the same time.
THEOREM Exclusion == Spec => []MutualExclusion
  BY Invariance, InvExclusion, PTL

(***************************************************************************)
(* Refinement.  Deciding rounds grant, renew and finish leases; whatever   *)
(* else happens is a tick or invisible.                                    *)
(***************************************************************************)

\* How a step of c that leaves the leases of the others alone looks from above.
LEMMA StageStep ==
  ASSUME TypeOK, NEW c \in Client, NEW x \in PC, pc' = [pc EXCEPT ![c] = x]
  PROVE  /\ pc[c] \in {"idle", "acquiring", "cleaning", "backoff"} => Stage[c] = "waiting"
         /\ pc[c] = "held" => Stage[c] = "owner"
         /\ pc[c] \in PC \ {"idle", "acquiring", "cleaning", "backoff", "held"} =>
              Stage[c] = "done"
         /\ x \in {"idle", "acquiring", "cleaning", "backoff"} =>
              Stage' = [Stage EXCEPT ![c] = "waiting"]
         /\ x = "held" => Stage' = [Stage EXCEPT ![c] = "owner"]
         /\ x \in PC \ {"idle", "acquiring", "cleaning", "backoff", "held"} =>
              Stage' = [Stage EXCEPT ![c] = "done"]
  BY DEF TypeOK, PC, Stage

\* A valid lock excludes the conflicting ones, as a lease does.
LEMMA ValidExclusive ==
  ASSUME TypeOK, TypeOK', MutualExclusion', NEW c \in Client, now' = now,
         \A d \in Client \ {c} : Same(d), Valid(c)'
  PROVE  Lease!Exclusive(c)
  <1> SUFFICES ASSUME NEW d \in Client, Conflict(c, d), Lease!Runs(d)
               PROVE  FALSE
    BY DEF Lease!Exclusive
  <1>1. d # c /\ pc[d] = "held" /\ now < expiration[d]
    BY DEF Conflict, Lease!Runs, Stage
  <1>2. Valid(d)'
    BY <1>1 DEF Valid, Same
  <1> QED
    BY <1>2 DEF MutualExclusion, Conflict

\* All leases are waiting at first.
LEMMA RefineInit == Init => Lease!LInit
  BY DEF Init, Lease!LInit, Stage

\* Every step of the lock is a step of a lease, or none.
LEMMA RefineStep ==
  ASSUME IInv, MutualExclusion', TypeOK', [Next]_vars
  PROVE  [Lease!LNext]_(Lease!lvars)
  <1> DEFINE Seen == [Lease!LNext]_(Lease!lvars)
  <1> SUFFICES Seen
    OBVIOUS
  <1>0. /\ TypeOK /\ now \in Nat /\ pc \in [Client -> PC]
        /\ expiration \in [Client -> Int] /\ expiration' \in [Client -> Int]
        /\ Stage \in [Client -> {"waiting", "owner", "done"}]
    BY DEF IInv, TypeOK, Stage
  <1>u. ASSUME NEW c \in Client, Stage' = [Stage EXCEPT ![c] = Stage[c]]
        PROVE  Stage' = Stage
    BY <1>0, <1>u
  <1>1. ASSUME now' = now, expiration' = expiration, Stage' = Stage PROVE Seen
    BY <1>1 DEF Lease!lvars
  <1>2. ASSUME now' = now, expiration' = expiration, pc' = pc PROVE Seen
    BY <1>1, <1>2 DEF Stage
  <1>3. ASSUME NEW c \in Client, Stage[c] # "done", Stage' = [Stage EXCEPT ![c] = "done"],
               now' = now, expiration' = expiration
        PROVE  Seen
    BY <1>3 DEF Lease!LNext, Lease!Finish
  <1>4. CASE Tick
    <2>1. now' \in Int /\ now' > now /\ UNCHANGED <<pc, expiration>>
      BY <1>0, <1>4 DEF Tick
    <2> QED
      BY <2>1 DEF Lease!LNext, Lease!LTick, Stage
  <1>5. ASSUME NEW n \in Node, NEW k \in Key, Expire(n, k) PROVE Seen
    BY <1>2, <1>5 DEF Expire
  <1>6. ASSUME NEW c \in Client, NEW n \in Node, Serve(c, n) PROVE Seen
    BY <1>2, <1>6 DEF Serve, RunAcquire, RunExtend, RunRelease, NoScript, Disconnect,
                      Timeout, ExtendTimeout
  <1>7. ASSUME NEW c \in Client, StartExtend(c) \/ ExtendFails(c) PROVE Seen
    BY <1>2, <1>7 DEF StartExtend, ExtendFails
  <1>8. ASSUME NEW c \in Client, StartAttempt(c) \/ AcquireFails(c) PROVE Seen
    <2>1. PICK x \in {"acquiring", "cleaning"} :
            /\ pc[c] \in {"idle", "backoff", "acquiring"} /\ pc' = [pc EXCEPT ![c] = x]
            /\ now' = now /\ expiration' = expiration
      BY <1>8 DEF StartAttempt, AcquireFails
    <2>2. Stage[c] = "waiting" /\ Stage' = [Stage EXCEPT ![c] = "waiting"]
      BY <1>0, <2>1, StageStep DEF PC
    <2>3. Stage' = Stage
      BY <1>u, <2>2
    <2> QED
      BY <1>1, <2>1, <2>3
  <1>9. ASSUME NEW c \in Client, AcquireRefused(c) PROVE Seen
    <2>1. /\ pc[c] = "acquiring" /\ pc' = [pc EXCEPT ![c] = "failed"]
          /\ now' = now /\ expiration' = expiration
      BY <1>9 DEF AcquireRefused
    <2>2. Stage[c] = "waiting" /\ Stage' = [Stage EXCEPT ![c] = "done"]
      BY <1>0, <2>1, StageStep DEF PC
    <2> QED
      BY <1>3, <2>1, <2>2
  <1>10. ASSUME NEW c \in Client, CleanupDone(c) PROVE Seen
    <2>1. PICK x \in {"backoff", "failed"} :
            /\ pc[c] = "cleaning" /\ pc' = [pc EXCEPT ![c] = x]
            /\ now' = now /\ expiration' = expiration
      BY <1>10 DEF CleanupDone
    <2>2. CASE x = "backoff"
      <3>1. Stage[c] = "waiting" /\ Stage' = [Stage EXCEPT ![c] = "waiting"]
        BY <1>0, <2>1, <2>2, StageStep DEF PC
      <3> QED
        BY <1>u, <1>1, <2>1, <3>1
    <2>3. CASE x = "failed"
      <3>1. Stage[c] = "waiting" /\ Stage' = [Stage EXCEPT ![c] = "done"]
        BY <1>0, <2>1, <2>3, StageStep DEF PC
      <3> QED
        BY <1>3, <2>1, <3>1
    <2> QED
      BY <2>2, <2>3
  <1>11. ASSUME NEW c \in Client, AcquireSucceeds(c) PROVE Seen
    <2>1. /\ pc[c] = "acquiring" /\ now' = now /\ \A d \in Client \ {c} : Same(d)
          /\ pc' = [pc EXCEPT ![c] = IF InTime(c) THEN "held" ELSE "late"]
          /\ expiration' = [expiration EXCEPT ![c] = IF InTime(c) THEN AcquireExpiry(c) ELSE @]
      BY <1>0, <1>11, Locality DEF AcquireSucceeds, ClientStep, Decide
    <2>2. CASE InTime(c)
      <3>1. Stage[c] = "waiting" /\ Stage' = [Stage EXCEPT ![c] = "owner"]
        BY <1>0, <2>1, <2>2, StageStep DEF PC
      <3>2. expiration'[c] > now /\ Valid(c)'
        BY <1>0, <2>1, <2>2 DEF InTime, Valid
      <3>3. Lease!Exclusive(c)
        BY <1>0, <2>1, <3>2, ValidExclusive
      <3>4. Lease!Move(c)
        BY <1>0, <2>1 DEF Lease!Move, Same
      <3> QED
        BY <2>1, <3>1, <3>2, <3>3, <3>4 DEF Lease!LNext, Lease!Grant
    <2>3. CASE ~InTime(c)
      <3>1. Stage[c] = "waiting" /\ Stage' = [Stage EXCEPT ![c] = "done"]
        BY <1>0, <2>1, <2>3, StageStep DEF PC
      <3>2. expiration' = expiration
        BY <1>0, <2>1, <2>3
      <3> QED
        BY <1>3, <2>1, <3>1, <3>2
    <2> QED
      BY <2>2, <2>3
  <1>12. ASSUME NEW c \in Client, ExtendSucceeds(c) PROVE Seen
    <2>1. /\ now' = now /\ pc' = pc /\ Stage' = Stage /\ \A d \in Client \ {c} : Same(d)
      BY <1>0, <1>12, Locality DEF ExtendSucceeds, ClientStep, Decide, Stage
    <2>2. pc[c] \in PC \ Unowned
      BY <1>0, <1>12 DEF ExtendSucceeds, IInv, Leases
    <2>3. Lease!Move(c)
      BY <1>0, <2>1 DEF Lease!Move, Same
    <2>4. CASE pc[c] = "held"
      <3>1. Stage[c] = "owner"
        BY <2>4 DEF Stage
      <3>2. expiration'[c] > now => Lease!Exclusive(c)
        BY <1>0, <2>1, <2>4, ValidExclusive DEF Valid
      <3> QED
        BY <2>1, <2>3, <3>1, <3>2 DEF Lease!LNext, Lease!Renew
    <2>5. CASE pc[c] # "held"
      <3>1. Stage[c] = "done"
        BY <2>2, <2>5 DEF Stage, Unowned
      <3> QED
        BY <2>1, <2>3, <3>1 DEF Lease!LNext, Lease!Forget
    <2> QED
      BY <2>4, <2>5
  <1>13. ASSUME NEW c \in Client, StartRelease(c) \/ ReleaseSucceeds(c) \/ ReleaseNotHeld(c)
                                   \/ ReleaseFails(c)
         PROVE  Seen
    <2>1. PICK x \in {"releasing", "released", "notHeld", "unreleased"} :
            /\ pc[c] \in {"held", "unreleased", "releasing"} /\ pc' = [pc EXCEPT ![c] = x]
            /\ now' = now /\ expiration' = expiration
      BY <1>13 DEF StartRelease, ReleaseSucceeds, ReleaseNotHeld, ReleaseFails, EndRelease
    <2>2. Stage[c] \in {"owner", "done"} /\ Stage' = [Stage EXCEPT ![c] = "done"]
      BY <1>0, <2>1, StageStep DEF PC
    <2>3. CASE Stage[c] = "owner"
      BY <1>3, <2>1, <2>2, <2>3
    <2>4. CASE Stage[c] = "done"
      BY <1>u, <1>1, <2>1, <2>2, <2>4
    <2> QED
      BY <2>2, <2>3, <2>4
  <1>14. CASE UNCHANGED vars
    BY <1>2, <1>14 DEF vars
  <1> QED
    BY <1>4, <1>5, <1>6, <1>7, <1>8, <1>9, <1>10, <1>11, <1>12, <1>13, <1>14 DEF Next, Decide

\* Every behaviour of the lock is, seen from its callers, one of a lease.
THEOREM Refinement == Spec => LeaseSpec
  <1>1. IInv => TypeOK
    BY DEF IInv
  <1> QED
    BY <1>1, RefineInit, RefineStep, Invariance, Exclusion, TypeCorrect, PTL
       DEF Spec, LeaseSpec, Lease!LSpec

(***************************************************************************)
(* Finished calls.  A cleanup or a release follows whatever its call has   *)
(* sent, on every node, as long as no command is lost, refused or sent     *)
(* again: the run noscript shows what happens otherwise.                   *)
(***************************************************************************)

\* No fault but timeouts.
InOrderDelivery == FaultKinds \subseteq {"timeout"}

\* A delete is under way and no acquire behind it.
ClearsLast(q) ==
  \E i \in 1..Len(q) : /\ q[i].op \in Deletes
                       /\ \A j \in 1..Len(q) : i < j => q[j].op # "acquire"
NoAcquire(q) == \A i \in 1..Len(q) : q[i].op # "acquire"

\* What c has sent to n leaves no key there.
Cleared(c, n) ==
  ClearsLast(conn[c][n]) \/ (NoAcquire(conn[c][n]) /\ \A k \in Key : ~Owns(c, n, k))

\* From the failure of an attempt to the next one, and from release() on.
Over == {"cleaning", "backoff", "failed", "releasing", "unreleased", "released", "notHeld"}

CleanInv ==
  \A c \in Client, n \in Node :
    /\ \A k \in Key : Owns(c, n, k) => k \in Resources[c]
    /\ vote[c][n] # "open"
    /\ pc[c] \in Over => Cleared(c, n)

\* What the moves of a connection do to the deletes in it.
LEMMA CleanQueue ==
  ASSUME NEW q \in Seq(Cmd)
  PROVE  /\ \A ops : /\ ClearsLast(q) => ClearsLast(Abandon(q, ops))
                     /\ NoAcquire(q) => NoAcquire(Abandon(q, ops))
         /\ \A cmd \in Cmd :
              /\ cmd.op \in Deletes => ClearsLast(Append(q, cmd))
              /\ cmd.op # "acquire" /\ ClearsLast(q) => ClearsLast(Append(q, cmd))
              /\ cmd.op # "acquire" /\ NoAcquire(q) => NoAcquire(Append(q, cmd))
         /\ q # <<>> =>
              /\ NoAcquire(q) => NoAcquire(Tail(q)) /\ Head(q).op # "acquire"
              /\ ClearsLast(q) => \/ ClearsLast(Tail(q))
                                  \/ Head(q).op \in Deletes /\ NoAcquire(Tail(q))
  <1>1. ASSUME NEW ops
        PROVE  /\ ClearsLast(q) => ClearsLast(Abandon(q, ops))
               /\ NoAcquire(q) => NoAcquire(Abandon(q, ops))
    BY AbandonType DEF ClearsLast, NoAcquire
  <1>2. ASSUME NEW cmd \in Cmd
        PROVE  /\ cmd.op \in Deletes => ClearsLast(Append(q, cmd))
               /\ cmd.op # "acquire" /\ ClearsLast(q) => ClearsLast(Append(q, cmd))
               /\ cmd.op # "acquire" /\ NoAcquire(q) => NoAcquire(Append(q, cmd))
    <2> DEFINE r == Append(q, cmd)
    <2>1. /\ Len(q) \in Nat /\ Len(r) = Len(q) + 1 /\ r[Len(q) + 1] = cmd
          /\ \A i \in 1..Len(q) : r[i] = q[i]
          /\ \A i \in 1..Len(r) : i \in 1..Len(q) \/ i = Len(q) + 1
      BY AppendProperties, LenProperties
    <2> HIDE DEF r
    <2>2. cmd.op \in Deletes => ClearsLast(r)
      BY <2>1 DEF ClearsLast
    <2>3. cmd.op # "acquire" /\ NoAcquire(q) => NoAcquire(r)
      BY <2>1 DEF NoAcquire
    <2>4. ASSUME cmd.op # "acquire", ClearsLast(q) PROVE ClearsLast(r)
      <3>1. PICK i \in 1..Len(q) : /\ q[i].op \in Deletes
                                   /\ \A j \in 1..Len(q) : i < j => q[j].op # "acquire"
        BY <2>4 DEF ClearsLast
      <3>2. i \in 1..Len(r) /\ r[i].op \in Deletes
        BY <2>1, <3>1
      <3>3. \A j \in 1..Len(r) : i < j => r[j].op # "acquire"
        BY <2>1, <2>4, <3>1
      <3> QED
        BY <3>2, <3>3 DEF ClearsLast
    <2> QED
      BY <2>2, <2>3, <2>4 DEF r
  <1>3. ASSUME q # <<>>
        PROVE  /\ NoAcquire(q) => NoAcquire(Tail(q)) /\ Head(q).op # "acquire"
               /\ ClearsLast(q) => \/ ClearsLast(Tail(q))
                                   \/ Head(q).op \in Deletes /\ NoAcquire(Tail(q))
    <2>1. /\ Len(q) \in Nat /\ Len(q) > 0 /\ Len(Tail(q)) = Len(q) - 1
          /\ \A i \in 1..Len(Tail(q)) : Tail(q)[i] = q[i + 1] /\ i + 1 \in 1..Len(q)
          /\ Head(q) = q[1] /\ 1 \in 1..Len(q)
      BY <1>3, HeadTailProperties, EmptySeq, LenProperties
    <2>2. NoAcquire(q) => NoAcquire(Tail(q)) /\ Head(q).op # "acquire"
      BY <2>1 DEF NoAcquire
    <2>3. ASSUME ClearsLast(q)
          PROVE  ClearsLast(Tail(q)) \/ (Head(q).op \in Deletes /\ NoAcquire(Tail(q)))
      <3>1. PICK i \in 1..Len(q) : /\ q[i].op \in Deletes
                                   /\ \A j \in 1..Len(q) : i < j => q[j].op # "acquire"
        BY <2>3 DEF ClearsLast
      <3>2. CASE i = 1
        BY <2>1, <3>1, <3>2 DEF NoAcquire
      <3>3. CASE i # 1
        <4>1. i - 1 \in 1..Len(Tail(q)) /\ Tail(q)[i - 1] = q[i]
          BY <2>1, <3>3
        <4>2. \A j \in 1..Len(Tail(q)) : i - 1 < j => Tail(q)[j].op # "acquire"
          BY <2>1, <3>1
        <4> QED
          BY <3>1, <4>1, <4>2 DEF ClearsLast
      <3> QED
        BY <3>2, <3>3
    <2> QED
      BY <2>2, <2>3
  <1> QED
    BY <1>1, <1>2, <1>3

\* Only a call's own writes give it a key, and only one it asked for.
LEMMA NewOwner ==
  ASSUME TypeOK, [Next]_vars, NEW c \in Client, NEW n \in Node, NEW k \in Key, Owns(c, n, k)'
  PROVE  \/ Owns(c, n, k)
         \/ /\ k \in Resources[c]
            /\ \/ RunAcquire(c, n) /\ AcquireGranted(c, n)
               \/ RunExtend(c, n) /\ ExtendGranted(c, n)
  <1> DEFINE Goal == \/ Owns(c, n, k)
                     \/ /\ k \in Resources[c]
                        /\ \/ RunAcquire(c, n) /\ AcquireGranted(c, n)
                           \/ RunExtend(c, n) /\ ExtendGranted(c, n)
  <1>0. /\ c # NoClient /\ store'[n][k].holder = c
        /\ Free.holder = NoClient
    BY ClientAssumption DEF Owns, Free
  <1>1. ASSUME NEW d \in Client, NEW m \in Node, NEW ttl,
               store' = [store EXCEPT ![m] = Written(d, m, ttl)]
        PROVE  Owns(c, n, k) \/ (d = c /\ m = n /\ k \in Resources[c])
    BY <1>0, <1>1 DEF TypeOK, Written, Owns
  <1>2. ASSUME NEW d \in Client, NEW m \in Node, RunAcquire(d, m) PROVE Goal
    <2>1. CASE AcquireGranted(d, m)
      BY <1>1, <1>2, <2>1 DEF RunAcquire
    <2>2. CASE ~AcquireGranted(d, m)
      BY <1>0, <1>2, <2>2 DEF RunAcquire, TypeOK, Owns
    <2> QED
      BY <2>1, <2>2
  <1>3. ASSUME NEW d \in Client, NEW m \in Node, RunExtend(d, m) PROVE Goal
    <2>1. CASE ExtendGranted(d, m)
      BY <1>1, <1>3, <2>1 DEF RunExtend
    <2>2. CASE ~ExtendGranted(d, m)
      BY <1>0, <1>3, <2>2 DEF RunExtend, TypeOK, Owns
    <2> QED
      BY <2>1, <2>2
  <1>4. ASSUME NEW d \in Client, NEW m \in Node, RunRelease(d, m) PROVE Goal
    BY <1>0, <1>4 DEF RunRelease, Deleted, TypeOK, Owns
  <1>5. ASSUME NEW m \in Node, NEW j \in Key, Expire(m, j) PROVE Goal
    BY <1>0, <1>5 DEF Expire, TypeOK, Owns
  <1>6. CASE UNCHANGED store
    BY <1>0, <1>6 DEF Owns
  <1>7. ASSUME NEW d \in Client, StartAttempt(d) \/ StartExtend(d) \/ StartRelease(d) \/ Decide(d)
        PROVE  UNCHANGED store
    BY <1>7 DEF StartAttempt, StartExtend, StartRelease, Decide, AcquireSucceeds,
         AcquireRefused, AcquireFails, CleanupDone, ExtendSucceeds, ExtendFails,
         ReleaseSucceeds, ReleaseNotHeld, ReleaseFails, EndRelease
  <1>8. ASSUME NEW d \in Client, NEW m \in Node,
               NoScript(d, m) \/ Disconnect(d, m) \/ Timeout(d, m) \/ ExtendTimeout(d, m)
        PROVE  UNCHANGED store
    BY <1>8 DEF NoScript, Disconnect, Timeout, ExtendTimeout
  <1>9. Tick \/ UNCHANGED vars => UNCHANGED store
    BY DEF Tick, vars
  <1> QED
    BY <1>2, <1>3, <1>4, <1>5, <1>6, <1>7, <1>8, <1>9 DEF Next, Serve

\* A node cleared of a finished call stays so, and a call that ends clears every node.
LEMMA ClearedStep ==
  ASSUME InOrderDelivery, TypeOK, CleanInv, [Next]_vars,
         NEW c \in Client, NEW n \in Node, pc'[c] \in Over
  PROVE  Cleared(c, n)'
  <1> DEFINE q == conn[c][n]
             r == conn'[c][n]
  <1>q. /\ q \in Seq(Cmd) /\ pc \in [Client -> PC] /\ vote \in [Client -> [Node -> Vote]]
        /\ conn \in [Client -> [Node -> Seq(Cmd)]]
        /\ Refused = {{}}
    BY DEF TypeOK, InOrderDelivery, Refused
  <1>a. ASSUME pc[c] \in Over, \A k \in Key : Owns(c, n, k)' => Owns(c, n, k),
               \/ r = q
               \/ \E ops : r = Abandon(q, ops)
               \/ \E cmd \in Cmd : cmd.op # "acquire" /\ r = Append(q, cmd)
        PROVE  Cleared(c, n)'
    <2>1. ClearsLast(q) => ClearsLast(r)
      BY <1>q, <1>a, CleanQueue
    <2>2. NoAcquire(q) => NoAcquire(r)
      BY <1>q, <1>a, CleanQueue
    <2>3. ClearsLast(q) \/ (NoAcquire(q) /\ \A k \in Key : ~Owns(c, n, k))
      BY <1>a DEF CleanInv, Cleared
    <2>4. ClearsLast(r) \/ (NoAcquire(r) /\ \A k \in Key : ~Owns(c, n, k)')
      BY <1>a, <2>1, <2>2, <2>3
    <2> QED
      BY <2>4 DEF Cleared, ClearsLast, NoAcquire, Owns
  <1>b. ASSUME ClearsLast(r) PROVE Cleared(c, n)'
    BY <1>b DEF Cleared, ClearsLast
  <1>1. ASSUME RunAcquire(c, n) \/ RunExtend(c, n) \/ RunRelease(c, n) PROVE Cleared(c, n)'
    <2>1. pc[c] \in Over /\ q # <<>> /\ r = Tail(q)
      <3>1. pc' = pc /\ q # <<>> /\ Pop(c, n)
        BY <1>1 DEF RunAcquire, RunExtend, RunRelease, Head1
      <3>2. r = Tail(q)
        BY <1>q, <3>1 DEF Pop
      <3> QED
        BY <3>1, <3>2
    <2>2. CASE ClearsLast(Tail(q))
      BY <1>b, <2>1, <2>2
    <2>3. CASE Head(q).op \in Deletes /\ NoAcquire(Tail(q))
      <3>1. RunRelease(c, n)
        <4>1. Head(q).op # "acquire" /\ Head(q).op # "extend"
          BY <2>3 DEF Deletes
        <4>2. ~RunAcquire(c, n) /\ ~RunExtend(c, n)
          BY <4>1 DEF RunAcquire, RunExtend, Head1
        <4> QED
          BY <1>1, <4>2
      <3>2. store'[n] = Deleted(c, n)
        BY <3>1 DEF RunRelease, TypeOK
      <3>3. \A k \in Key : ~Owns(c, n, k)'
        BY <3>2, ClientAssumption DEF Deleted, Owns, Free, CleanInv
      <3> QED
        BY <2>1, <2>3, <3>3 DEF Cleared, NoAcquire, Owns
    <2>4. CASE NoAcquire(q) /\ \A k \in Key : ~Owns(c, n, k)
      <3>1. NoAcquire(Tail(q)) /\ Head(q).op # "acquire"
        BY <1>q, <2>1, <2>4, CleanQueue
      <3>2. ~RunAcquire(c, n)
        BY <3>1 DEF RunAcquire, Head1
      <3>3. \A k \in Key : ~Owns(c, n, k)'
        <4>1. ASSUME NEW k \in Key, Owns(c, n, k)' PROVE FALSE
          <5>1. k \in Resources[c] /\ ExtendGranted(c, n)
            BY <2>4, <3>2, <4>1, NewOwner
          <5> QED
            BY <2>4, <4>1, <5>1 DEF ExtendGranted
        <4> QED
          BY <4>1
      <3> QED
        BY <2>1, <3>1, <3>3 DEF Cleared, NoAcquire, Owns
    <2> QED
      BY <1>q, <2>1, <2>2, <2>3, <2>4, CleanQueue DEF CleanInv, Cleared
  <1> SUFFICES ASSUME ~RunAcquire(c, n), ~RunExtend(c, n), ~RunRelease(c, n)
               PROVE  Cleared(c, n)'
    BY <1>1
  <1>o. \A k \in Key : Owns(c, n, k)' => Owns(c, n, k)
    BY NewOwner
  <1>2. CASE Same(c)
    BY <1>2, <1>a, <1>o DEF Same
  <1>3. CASE StartAttempt(c) \/ AcquireSucceeds(c)
    BY <1>q, <1>3 DEF StartAttempt, AcquireSucceeds, Over
  <1>4. CASE AcquireRefused(c)
    BY <1>4, NodeAssumption DEF AcquireRefused, With, CleanInv
  <1>5. CASE StartExtend(c)
    <2>1. PICK ttl \in ExtendTtls, refused \in Refused : StartExtend(c)!(ttl, refused)
      BY <1>5 DEF StartExtend
    <2>2. /\ pc[c] = pc'[c] /\ Evalsha("extend", ttl) \in Cmd
          /\ Evalsha("extend", ttl).op # "acquire"
          /\ r = Append(q, Evalsha("extend", ttl))
      BY <1>q, <2>1, CmdType, TimeAssumption DEF Send, Op, Evalsha
    <2> QED
      BY <1>a, <1>o, <2>2
  <1>6. CASE StartRelease(c)
    <2>1. PICK refused \in Refused : StartRelease(c)!(refused)
      BY <1>6 DEF StartRelease
    <2>2. /\ Evalsha("release", 0) \in Cmd /\ Evalsha("release", 0).op \in Deletes
          /\ r = Append(q, Evalsha("release", 0))
      BY <1>q, <2>1, CmdType DEF Send, Op, Evalsha, Deletes
    <2>3. ClearsLast(r)
      BY <1>q, <2>2, CleanQueue
    <2> QED
      BY <1>b, <2>3
  <1>7. CASE AcquireFails(c)
    <2>1. PICK refused \in Refused : AcquireFails(c)!(refused)
      BY <1>7 DEF AcquireFails
    <2>2. /\ Cleanup \in Cmd /\ Cleanup.op \in Deletes
          /\ r = Append(Abandon(q, MainOps), Cleanup)
      BY <1>q, <2>1, CmdType DEF Send, AbandonAll, Cleanup, Deletes
    <2>3. ClearsLast(r)
      BY <1>q, <2>2, AbandonType, CleanQueue
    <2> QED
      BY <1>b, <2>3
  <1>8. CASE CleanupDone(c) \/ ExtendSucceeds(c) \/ ExtendFails(c)
               \/ ReleaseSucceeds(c) \/ ReleaseNotHeld(c) \/ ReleaseFails(c)
    <2>1. pc[c] \in Over
      BY <1>q, <1>8 DEF CleanupDone, ExtendSucceeds, ExtendFails, ReleaseSucceeds,
         ReleaseNotHeld, ReleaseFails, Over
    <2>2. \E ops : r = Abandon(q, ops)
      BY <1>q, <1>8 DEF CleanupDone, ExtendSucceeds, ExtendFails, ReleaseSucceeds,
         ReleaseNotHeld, ReleaseFails, EndRelease, AbandonAll
    <2> QED
      BY <1>a, <1>o, <2>1, <2>2
  <1>9. ASSUME NEW m \in Node, RunAcquire(c, m) \/ RunExtend(c, m) \/ RunRelease(c, m)
        PROVE  Cleared(c, n)'
    <2>1. m # n /\ pc' = pc /\ r = q
      BY <1>q, <1>9 DEF RunAcquire, RunExtend, RunRelease, Pop
    <2> QED
      BY <1>a, <1>o, <2>1
  <1>10. ASSUME NEW m \in Node, NoScript(c, m) \/ Disconnect(c, m) PROVE FALSE
    BY <1>10 DEF NoScript, Disconnect, Fault, InOrderDelivery
  <1>11. ASSUME NEW m \in Node, Timeout(c, m) \/ ExtendTimeout(c, m) PROVE Cleared(c, n)'
    <2>1. pc' = pc /\ (r = q \/ \E ops : r = Abandon(q, ops))
      BY <1>q, <1>11 DEF Timeout, ExtendTimeout
    <2> QED
      BY <1>a, <1>o, <2>1
  <1>12. Same(c) \/ ClientStep(c)
    BY StepShape
  <1> QED
    BY <1>2, <1>3, <1>4, <1>5, <1>6, <1>7, <1>8, <1>9, <1>10, <1>11, <1>12
       DEF ClientStep, Decide, Serve

\* No breaker keeps a command back.
LEMMA NeverOpenStep ==
  ASSUME InOrderDelivery, TypeOK, [Next]_vars, NEW c \in Client, NEW n \in Node,
         vote[c][n] # "open"
  PROVE  vote'[c][n] # "open"
  <1>0. vote \in [Client -> [Node -> Vote]] /\ Refused = {{}} /\ NoVotes[n] = "none"
        /\ Opening({})[n] = "pending"
    BY DEF TypeOK, InOrderDelivery, Refused, NoVotes, Opening
  <1>1. CASE Same(c)
    BY <1>1 DEF Same
  <1>2. CASE StartAttempt(c) \/ StartRelease(c) \/ AcquireFails(c)
    BY <1>0, <1>2 DEF StartAttempt, StartRelease, AcquireFails
  <1>3. CASE AcquireSucceeds(c) \/ AcquireRefused(c) \/ CleanupDone(c)
               \/ ReleaseSucceeds(c) \/ ReleaseNotHeld(c) \/ ReleaseFails(c)
    BY <1>0, <1>3 DEF AcquireSucceeds, AcquireRefused, CleanupDone, ReleaseSucceeds,
       ReleaseNotHeld, ReleaseFails, EndRelease
  <1>4. CASE StartExtend(c) \/ ExtendSucceeds(c) \/ ExtendFails(c)
    BY <1>4 DEF StartExtend, ExtendSucceeds, ExtendFails
  <1>5. ASSUME NEW m \in Node, RunAcquire(c, m) \/ RunRelease(c, m)
        PROVE  vote'[c][n] # "open"
    BY <1>0, <1>5 DEF RunAcquire, RunRelease, Answer
  <1>6. ASSUME NEW m \in Node, RunExtend(c, m) \/ NoScript(c, m) \/ ExtendTimeout(c, m)
        PROVE  vote'[c][n] # "open"
    BY <1>6 DEF RunExtend, NoScript, ExtendTimeout
  <1>7. ASSUME NEW m \in Node, Timeout(c, m) \/ Disconnect(c, m) PROVE vote'[c][n] # "open"
    BY <1>0, <1>7 DEF Timeout, Disconnect
  <1> QED
    BY <1>1, <1>2, <1>3, <1>4, <1>5, <1>6, <1>7, StepShape DEF ClientStep, Decide, Serve

\* As long as no command is lost, refused or sent again, a call that failed or was
\* released has no key once all it sent has run, whatever timed out on the way.
THEOREM FinishedCallsLeaveNoKeys ==
  ASSUME InOrderDelivery
  PROVE  Spec => []FinishedCallLeavesNoKey
  <1>1. Init => CleanInv
    BY ClientAssumption DEF Init, CleanInv, Owns, Free, NoVotes, Over
  <1>2. TypeOK /\ CleanInv /\ [Next]_vars => CleanInv'
    <2> SUFFICES ASSUME TypeOK, CleanInv, [Next]_vars, NEW c \in Client, NEW n \in Node
                 PROVE  /\ \A k \in Key : Owns(c, n, k)' => k \in Resources[c]
                        /\ vote'[c][n] # "open"
                        /\ pc'[c] \in Over => Cleared(c, n)'
      BY DEF CleanInv, Cleared, Owns, ClearsLast, NoAcquire
    <2>1. \A k \in Key : Owns(c, n, k)' => k \in Resources[c]
      BY NewOwner DEF CleanInv
    <2> QED
      BY <2>1, NeverOpenStep, ClearedStep DEF CleanInv
  <1>3. CleanInv => FinishedCallLeavesNoKey
    BY EmptySeq DEF CleanInv, FinishedCallLeavesNoKey, Over, Cleared, ClearsLast
  <1> QED
    BY <1>1, <1>2, <1>3, TypeCorrect, PTL DEF Spec

(***************************************************************************)
(* The theft alarm.  A node answers "not held" only if the key is gone, so *)
(* that a quorum of such answers means that the lease is over, as long as  *)
(* the first release() is the only one, and no NOSCRIPT sends an acquire   *)
(* behind it while the lock is being extended.                             *)
(***************************************************************************)

\* What the alarm assumes of its callers, and of the caches of the nodes.
OneReleaseEach ==
  /\ \A c \in Client : MaxReleases[c] <= 1 /\ Resources[c] # {}
  /\ "noscript" \notin FaultKinds \/ ExtendTtls = {}

After == {"releasing", "unreleased", "released", "notHeld"}

\* There is one release at most, which the round waits for, or does not.
LiveRelease(q) ==
  \A i \in 1..Len(q) : q[i].op = "release" =>
    q[i].live /\ \A j \in 1..Len(q) : q[j].op = "release" => i = j
DeadRelease(q) ==
  \A i \in 1..Len(q) : q[i].op = "release" =>
    ~q[i].live /\ \A j \in 1..Len(q) : q[j].op = "release" => i = j

Awaiting(c, n) == pc[c] = "releasing" /\ vote[c][n] = "pending"
OnlyRelease(c, n) ==
  /\ Awaiting(c, n) => LiveRelease(conn[c][n])
  /\ ~Awaiting(c, n) => DeadRelease(conn[c][n])

\* A lock that has been released was released once.
ReleasedOnce(c) ==
  pc[c] \in After =>
    /\ calls[c].release >= 1
    /\ \A n \in Node : OnlyRelease(c, n)

NoCleanup(q) == \A i \in 1..Len(q) : q[i].op # "cleanup"

\* Until time e, the release of c finds the keys of c on node n.
Standing(c, n, e) ==
  now < e =>
    /\ vote[c][n] # "against"
    /\ vote[c][n] = "pending" =>
         /\ NoCleanup(conn[c][n])
         /\ \A k \in Resources[c] : Owns(c, n, k) /\ store[n][k].expiry >= e + ClockSkew

\* No key of c is on n, nor will any be.
Gone(c, n) ==
  NoAcquire(conn[c][n]) /\ \A k \in Resources[c] : ~Owns(c, n, k)

\* Acquires come before releases, and cleanups before extensions.
Sorted(q) ==
  \A i, j \in 1..Len(q) : i < j =>
    /\ q[i].op = "release" => q[j].op # "acquire"
    /\ q[i].op = "extend" => q[j].op # "cleanup"

InOrder(c) ==
  \A n \in Node :
    /\ Sorted(conn[c][n])
    /\ pc[c] \in Unowned => \A i \in 1..Len(conn[c][n]) : conn[c][n][i].op # "extend"
    /\ pc[c] = "releasing" /\ vote[c][n] = "against" => Gone(c, n)

\* The votes of an extension that runs beside the release stand, and so does the lock.
ReleaseBacked(c) ==
  pc[c] = "releasing" =>
    /\ \E u \in Ttls : expiration[c] <= now + u - Drift(u)
    /\ \E Q \in SUBSET Node :
         IsQuorum(Q) /\ \A n \in Q : Standing(c, n, expiration[c])
    /\ \A n \in Node : ext[c].on /\ ext[c].vote[n] = "for" => Standing(c, n, ExtendExpiry(c))

\* The alarm was real, and an extension that is still under way comes too late.
AlarmReal(c) ==
  pc[c] = "notHeld" =>
    /\ now >= expiration[c]
    /\ ext[c].on => \E Q \in SUBSET Node :
         /\ IsQuorum(Q)
         /\ \A n \in Q : Gone(c, n) /\ (ext[c].vote[n] = "for" => now >= ExtendExpiry(c))

AlarmInv(c) ==
  /\ ReleasedOnce(c)
  /\ "noscript" \notin FaultKinds => InOrder(c)
  /\ ExtendTtls = {} => ~ext[c].on
  /\ ReleaseBacked(c)
  /\ AlarmReal(c)

\* How a connection changes in a step of its client.
QueueMove(q, r) ==
  \/ r = q \/ r = <<>>
  \/ \E ops : r = Abandon(q, ops)
  \/ q # <<>> /\ r = Tail(q)
  \/ /\ q # <<>> /\ "noscript" \in FaultKinds
     /\ r = Append(Tail(q), [Head(q) EXCEPT !.sha = FALSE])

\* Every command of r stood in q, or in front of it.
LEMMA MoveKeeps ==
  ASSUME NEW q \in Seq(Cmd), NEW r, QueueMove(q, r)
  PROVE  /\ r \in Seq(Cmd)
         /\ \A i \in 1..Len(r) : \E j \in 1..Len(q) : r[i].op = q[j].op
         /\ "noscript" \notin FaultKinds /\ Sorted(q) => Sorted(r)
  <1>1. ASSUME NEW ops, r = Abandon(q, ops)
        PROVE  /\ r \in Seq(Cmd)
               /\ Sorted(q) => Sorted(r)
               /\ \A i \in 1..Len(r) : \E j \in 1..Len(q) : r[i].op = q[j].op
    BY <1>1, AbandonType DEF Sorted
  <1>2. ASSUME q # <<>>
        PROVE  /\ Tail(q) \in Seq(Cmd) /\ Head(q) \in Cmd
               /\ Head(q).op = q[1].op /\ 1 \in 1..Len(q)
               /\ \A i \in 1..Len(Tail(q)) : i + 1 \in 1..Len(q) /\ Tail(q)[i] = q[i + 1]
    BY <1>2, TailQueue, HeadTailProperties
  <1>3. ASSUME q # <<>>, r = Tail(q)
        PROVE  /\ r \in Seq(Cmd)
               /\ Sorted(q) => Sorted(r)
               /\ \A i \in 1..Len(r) : \E j \in 1..Len(q) : r[i].op = q[j].op
    BY <1>2, <1>3 DEF Sorted
  <1>4. ASSUME q # <<>>, r = Append(Tail(q), [Head(q) EXCEPT !.sha = FALSE])
        PROVE  /\ r \in Seq(Cmd)
               /\ \A i \in 1..Len(r) : \E j \in 1..Len(q) : r[i].op = q[j].op
    <2> DEFINE h == [Head(q) EXCEPT !.sha = FALSE]
    <2>1. h \in Cmd /\ h.op = Head(q).op
      BY <1>2, <1>4 DEF Cmd
    <2>2. \A i \in 1..Len(r) : (i \in 1..Len(Tail(q)) /\ r[i] = Tail(q)[i]) \/ r[i] = h
      BY <1>2, <1>4, <2>1, AppendQueue
    <2> QED
      BY <1>2, <1>4, <2>1, <2>2, AppendProperties
  <1>5. CASE r = q \/ r = <<>>
    <2>1. CASE r = <<>>
      <3>1. r \in Seq(Cmd) /\ Len(r) = 0
        BY <2>1, EmptySeq
      <3>2. \A i \in 1..Len(r) : FALSE
        BY <3>1
      <3> QED
        BY <3>1, <3>2 DEF Sorted
    <2> QED
      BY <1>5, <2>1
  <1>6. CASE \E ops : r = Abandon(q, ops)
    <2>1. PICK ops : r = Abandon(q, ops)
      BY <1>6
    <2> QED
      BY <1>1, <2>1
  <1>7. CASE q # <<>> /\ r = Tail(q)
    BY <1>3, <1>7
  <1>8. CASE /\ q # <<>> /\ "noscript" \in FaultKinds
             /\ r = Append(Tail(q), [Head(q) EXCEPT !.sha = FALSE])
    BY <1>4, <1>8
  <1> QED
    BY <1>5, <1>6, <1>7, <1>8 DEF QueueMove

\* What the moves do to the one release.
LEMMA ReleaseQueue ==
  ASSUME NEW q \in Seq(Cmd)
  PROVE  /\ \A ops :
              /\ "release" \notin ops /\ LiveRelease(q) => LiveRelease(Abandon(q, ops))
              /\ DeadRelease(q) => DeadRelease(Abandon(q, ops))
              /\ "release" \in ops /\ LiveRelease(q) => DeadRelease(Abandon(q, ops))
         /\ \A cmd \in Cmd :
              /\ LiveRelease(q) /\ cmd.op # "release" => LiveRelease(Append(q, cmd))
              /\ DeadRelease(q) /\ cmd.op # "release" => DeadRelease(Append(q, cmd))
              /\ (\A i \in 1..Len(q) : q[i].op # "release") /\ cmd.live =>
                   LiveRelease(Append(q, cmd))
         /\ q # <<>> =>
              /\ LiveRelease(q) =>
                   /\ LiveRelease(Tail(q))
                   /\ LiveRelease(Append(Tail(q), [Head(q) EXCEPT !.sha = FALSE]))
                   /\ Head(q).op = "release" => Head(q).live /\ DeadRelease(Tail(q))
              /\ DeadRelease(q) =>
                   /\ DeadRelease(Tail(q))
                   /\ DeadRelease(Append(Tail(q), [Head(q) EXCEPT !.sha = FALSE]))
                   /\ Head(q).op = "release" => ~Head(q).live /\ LiveRelease(Tail(q))
  <1> USE DEF LiveRelease, DeadRelease
  <1>1. ASSUME NEW ops
        PROVE  /\ "release" \notin ops /\ LiveRelease(q) => LiveRelease(Abandon(q, ops))
               /\ DeadRelease(q) => DeadRelease(Abandon(q, ops))
               /\ "release" \in ops /\ LiveRelease(q) => DeadRelease(Abandon(q, ops))
    <2> DEFINE r == Abandon(q, ops)
    <2>1. /\ Len(r) = Len(q)
          /\ \A i \in 1..Len(q) :
               /\ r[i].op = q[i].op
               /\ r[i] = IF q[i].op \in ops THEN [q[i] EXCEPT !.live = FALSE] ELSE q[i]
               /\ q[i] \in Cmd
      BY AbandonType DEF Abandon
    <2>2. \A i \in 1..Len(q) : /\ q[i].op \in ops => ~r[i].live
                               /\ q[i].op \notin ops => r[i].live = q[i].live
                               /\ ~q[i].live => ~r[i].live
      BY <2>1 DEF Cmd
    <2> HIDE DEF r
    <2>3. /\ "release" \notin ops /\ LiveRelease(q) => LiveRelease(r)
          /\ DeadRelease(q) => DeadRelease(r)
          /\ "release" \in ops /\ LiveRelease(q) => DeadRelease(r)
      BY <2>1, <2>2
    <2> QED
      BY <2>3 DEF r
  <1>2. ASSUME NEW cmd \in Cmd
        PROVE  /\ LiveRelease(q) /\ cmd.op # "release" => LiveRelease(Append(q, cmd))
               /\ DeadRelease(q) /\ cmd.op # "release" => DeadRelease(Append(q, cmd))
               /\ (\A i \in 1..Len(q) : q[i].op # "release") /\ cmd.live =>
                    LiveRelease(Append(q, cmd))
    <2> DEFINE r == Append(q, cmd)
    <2>1. /\ Len(q) \in Nat /\ Len(r) = Len(q) + 1 /\ r[Len(q) + 1] = cmd
          /\ \A i \in 1..Len(q) : r[i] = q[i]
          /\ \A i \in 1..Len(r) : i \in 1..Len(q) \/ i = Len(q) + 1
      BY AppendProperties, LenProperties
    <2> HIDE DEF r
    <2>2. LiveRelease(q) /\ cmd.op # "release" => LiveRelease(r)
      BY <2>1
    <2>3. DeadRelease(q) /\ cmd.op # "release" => DeadRelease(r)
      BY <2>1
    <2>4. (\A i \in 1..Len(q) : q[i].op # "release") /\ cmd.live => LiveRelease(r)
      BY <2>1
    <2> QED
      BY <2>2, <2>3, <2>4 DEF r
  <1>3. ASSUME q # <<>>
        PROVE  /\ LiveRelease(q) =>
                    /\ LiveRelease(Tail(q))
                    /\ LiveRelease(Append(Tail(q), [Head(q) EXCEPT !.sha = FALSE]))
                    /\ Head(q).op = "release" => Head(q).live /\ DeadRelease(Tail(q))
               /\ DeadRelease(q) =>
                    /\ DeadRelease(Tail(q))
                    /\ DeadRelease(Append(Tail(q), [Head(q) EXCEPT !.sha = FALSE]))
                    /\ Head(q).op = "release" => ~Head(q).live /\ LiveRelease(Tail(q))
    <2> DEFINE t == Tail(q)
               h == [Head(q) EXCEPT !.sha = FALSE]
               r == Append(t, h)
    <2>1. /\ t \in Seq(Cmd) /\ Head(q) \in Cmd /\ Len(t) \in Nat /\ Len(q) = Len(t) + 1
          /\ Head(q) = q[1] /\ 1 \in 1..Len(q)
          /\ \A i \in 1..Len(t) : i + 1 \in 1..Len(q) /\ t[i] = q[i + 1]
      BY <1>3, TailQueue, HeadTailProperties, LenProperties
    <2>2. h \in Cmd /\ h.op = q[1].op /\ h.live = q[1].live
      BY <2>1 DEF Cmd
    <2>3. /\ Len(r) = Len(t) + 1 /\ r[Len(t) + 1] = h
          /\ \A i \in 1..Len(t) : r[i] = t[i]
          /\ \A i \in 1..Len(r) : i \in 1..Len(t) \/ i = Len(t) + 1
      BY <2>1, <2>2, AppendProperties
    <2> HIDE DEF t, h, r
    <2>4. ASSUME LiveRelease(q)
          PROVE  LiveRelease(t) /\ (q[1].op = "release" => q[1].live /\ DeadRelease(t))
      BY <2>1, <2>4
    <2>5. ASSUME DeadRelease(q)
          PROVE  DeadRelease(t) /\ (q[1].op = "release" => ~q[1].live /\ LiveRelease(t))
      BY <2>1, <2>5
    <2>6. ASSUME LiveRelease(q) PROVE LiveRelease(r)
      <3>1. q[1].op = "release" => \A i \in 1..Len(t) : t[i].op # "release"
        BY <2>1, <2>6
      <3> QED
        BY <2>1, <2>2, <2>3, <2>4, <2>6, <3>1
    <2>7. ASSUME DeadRelease(q) PROVE DeadRelease(r)
      <3>1. q[1].op = "release" => \A i \in 1..Len(t) : t[i].op # "release"
        BY <2>1, <2>7
      <3> QED
        BY <2>1, <2>2, <2>3, <2>5, <2>7, <3>1
    <2> QED
      BY <2>1, <2>4, <2>5, <2>6, <2>7 DEF t, h, r
  <1> QED
    BY <1>1, <1>2, <1>3

\* How the steps of a client move its commands.
LEMMA Moves ==
  ASSUME TypeOK, NEW c \in Client, NEW n \in Node, ClientStep(c)
  PROVE  \/ QueueMove(conn[c][n], conn'[c][n])
         \/ StartAttempt(c) /\ conn'[c][n] = Append(conn[c][n], Evalsha("acquire", Ttl))
         \/ AcquireFails(c) /\ conn'[c][n] = Append(Abandon(conn[c][n], MainOps), Cleanup)
         \/ /\ StartExtend(c)
            /\ \E ttl \in ExtendTtls : conn'[c][n] = Append(conn[c][n], Evalsha("extend", ttl))
         \/ StartRelease(c) /\ conn'[c][n] = Append(conn[c][n], Evalsha("release", 0))
  <1> DEFINE q == conn[c][n]
             r == conn'[c][n]
             Goal == \/ QueueMove(q, r)
                     \/ StartAttempt(c) /\ r = Append(q, Evalsha("acquire", Ttl))
                     \/ AcquireFails(c) /\ r = Append(Abandon(q, MainOps), Cleanup)
                     \/ /\ StartExtend(c)
                        /\ \E ttl \in ExtendTtls : r = Append(q, Evalsha("extend", ttl))
                     \/ StartRelease(c) /\ r = Append(q, Evalsha("release", 0))
  <1> SUFFICES Goal
    OBVIOUS
  <1>0. conn \in [Client -> [Node -> Seq(Cmd)]]
    BY DEF TypeOK
  <1>1. CASE StartAttempt(c)
    <2>1. r = q \/ r = Append(q, Evalsha("acquire", Ttl))
      BY <1>0, <1>1 DEF StartAttempt, Send
    <2> QED
      BY <1>1, <2>1 DEF QueueMove
  <1>2. CASE AcquireFails(c)
    <2>1. r = Abandon(q, MainOps) \/ r = Append(Abandon(q, MainOps), Cleanup)
      BY <1>0, <1>2 DEF AcquireFails, Send, AbandonAll
    <2> QED
      BY <1>2, <2>1 DEF QueueMove
  <1>3. CASE StartExtend(c)
    <2>1. r = q \/ \E ttl \in ExtendTtls : r = Append(q, Evalsha("extend", ttl))
      BY <1>0, <1>3 DEF StartExtend, Send
    <2> QED
      BY <1>3, <2>1 DEF QueueMove
  <1>4. CASE StartRelease(c)
    <2>1. r = q \/ r = Append(q, Evalsha("release", 0))
      BY <1>0, <1>4 DEF StartRelease, Send
    <2> QED
      BY <1>4, <2>1 DEF QueueMove
  <1>5. CASE AcquireSucceeds(c) \/ AcquireRefused(c) \/ CleanupDone(c) \/ ExtendSucceeds(c)
               \/ ExtendFails(c) \/ ReleaseSucceeds(c) \/ ReleaseNotHeld(c) \/ ReleaseFails(c)
    <2>1. \E ops : r = Abandon(q, ops)
      BY <1>0, <1>5 DEF AcquireSucceeds, AcquireRefused, CleanupDone, ExtendSucceeds,
         ExtendFails, ReleaseSucceeds, ReleaseNotHeld, ReleaseFails, EndRelease, AbandonAll
    <2> QED
      BY <2>1 DEF QueueMove
  <1>6. ASSUME NEW m \in Node, RunAcquire(c, m) \/ RunExtend(c, m) \/ RunRelease(c, m)
        PROVE  Goal
    <2>1. Pop(c, m) /\ conn[c][m] # <<>>
      BY <1>6 DEF RunAcquire, RunExtend, RunRelease, Head1
    <2>2. r = q \/ (q # <<>> /\ r = Tail(q))
      BY <1>0, <2>1 DEF Pop
    <2> QED
      BY <2>2 DEF QueueMove
  <1>7. ASSUME NEW m \in Node, NoScript(c, m) PROVE Goal
    <2>1. \/ r = q
          \/ q # <<>> /\ r = Append(Tail(q), [Head(q) EXCEPT !.sha = FALSE])
      BY <1>0, <1>7 DEF NoScript
    <2>2. "noscript" \in FaultKinds
      BY <1>7 DEF NoScript, Fault
    <2> QED
      BY <2>1, <2>2 DEF QueueMove
  <1>8. ASSUME NEW m \in Node, Disconnect(c, m) \/ Timeout(c, m) \/ ExtendTimeout(c, m)
        PROVE  Goal
    <2>1. r = q \/ r = <<>> \/ \E ops : r = Abandon(q, ops)
      BY <1>0, <1>8 DEF Disconnect, Timeout, ExtendTimeout
    <2> QED
      BY <2>1 DEF QueueMove
  <1> QED
    BY <1>1, <1>2, <1>3, <1>4, <1>5, <1>6, <1>7, <1>8 DEF ClientStep, Decide, Serve

\* release() is counted before it can end, and nothing is taken back.
LEMMA CountStep ==
  ASSUME TypeOK, NEW c \in Client, [Next]_vars
  PROVE  /\ calls[c].release \in Nat /\ calls'[c].release >= calls[c].release
         /\ StartRelease(c) => /\ calls[c].release < MaxReleases[c]
                               /\ calls'[c].release = calls[c].release + 1
         /\ pc'[c] \in After => pc[c] \in After \/ StartRelease(c)
  <1>0. /\ calls \in [Client -> [extend : Nat, release : Nat]] /\ pc \in [Client -> PC]
        /\ calls[c].release \in Nat
    BY DEF TypeOK
  <1>1. /\ \A d \in Client : calls' = [calls EXCEPT ![d].release = @ + 1]
               => calls'[c].release = IF c = d THEN calls[c].release + 1 ELSE calls[c].release
        /\ \A d \in Client : calls' = [calls EXCEPT ![d].extend = @ + 1]
               => calls'[c].release = calls[c].release
    BY <1>0
  <1>2. calls'[c].release >= calls[c].release
    <2>1. CASE UNCHANGED calls
      BY <1>0, <2>1
    <2>2. ASSUME NEW d \in Client, StartRelease(d) \/ StartExtend(d)
          PROVE  calls'[c].release >= calls[c].release
      BY <1>0, <1>1, <2>2 DEF StartRelease, StartExtend
    <2>3. ASSUME NEW d \in Client, StartAttempt(d) \/ Decide(d) PROVE UNCHANGED calls
      BY <2>3 DEF StartAttempt, Decide, AcquireSucceeds,
         AcquireRefused, AcquireFails, CleanupDone, ExtendSucceeds, ExtendFails,
         ReleaseSucceeds, ReleaseNotHeld, ReleaseFails, EndRelease
    <2>4. ASSUME NEW d \in Client, NEW m \in Node, Serve(d, m) PROVE UNCHANGED calls
      BY <2>4 DEF Serve, RunAcquire, RunExtend, RunRelease, NoScript, Disconnect, Timeout,
                  ExtendTimeout
    <2>5. ASSUME NEW m \in Node, NEW k \in Key, Expire(m, k) PROVE UNCHANGED calls
      BY <2>5 DEF Expire
    <2>6. Tick \/ UNCHANGED vars => UNCHANGED calls
      BY DEF Tick, vars
    <2> QED
      BY <2>1, <2>2, <2>3, <2>4, <2>5, <2>6 DEF Next
  <1>3. StartRelease(c) => /\ calls[c].release < MaxReleases[c]
                           /\ calls'[c].release = calls[c].release + 1
    BY <1>1 DEF StartRelease
  <1>4. ASSUME pc'[c] \in After PROVE pc[c] \in After \/ StartRelease(c)
    <2>1. CASE Same(c)
      BY <1>4, <2>1 DEF Same
    <2>2. CASE StartAttempt(c) \/ AcquireSucceeds(c) \/ AcquireRefused(c) \/ AcquireFails(c)
                 \/ CleanupDone(c)
      BY <1>0, <1>4, <2>2 DEF StartAttempt, AcquireSucceeds, AcquireRefused, AcquireFails,
         CleanupDone, After
    <2>3. CASE StartExtend(c) \/ ExtendSucceeds(c) \/ ExtendFails(c)
      BY <1>4, <2>3 DEF StartExtend, ExtendSucceeds, ExtendFails
    <2>4. CASE ReleaseSucceeds(c) \/ ReleaseNotHeld(c) \/ ReleaseFails(c)
      BY <2>4 DEF ReleaseSucceeds, ReleaseNotHeld, ReleaseFails, After
    <2>5. ASSUME NEW m \in Node, Serve(c, m) PROVE pc' = pc
      BY <2>5 DEF Serve, RunAcquire, RunExtend, RunRelease, NoScript, Disconnect, Timeout,
                  ExtendTimeout
    <2> QED
      BY <1>4, <2>1, <2>2, <2>3, <2>4, <2>5, StepShape DEF ClientStep, Decide
  <1> QED
    BY <1>0, <1>2, <1>3, <1>4

\* A lock is released once, and its round knows whether it waits.
LEMMA ReleasedOnceStep ==
  ASSUME OneReleaseEach, TypeOK, [Next]_vars, NEW c \in Client, ClientStep(c), Commands(c),
         ReleasedOnce(c)
  PROVE  ReleasedOnce(c)'
  <1> SUFFICES ASSUME pc'[c] \in After
               PROVE  /\ calls'[c].release >= 1
                      /\ \A n \in Node : OnlyRelease(c, n)'
    BY DEF ReleasedOnce, OnlyRelease, Awaiting, LiveRelease, DeadRelease
  <1>t. /\ conn \in [Client -> [Node -> Seq(Cmd)]] /\ pc \in [Client -> PC]
        /\ vote \in [Client -> [Node -> Vote]]
        /\ \A n \in Node : conn[c][n] \in Seq(Cmd)
    BY DEF TypeOK
  <1>c. /\ calls[c].release \in Nat /\ calls'[c].release >= calls[c].release
        /\ StartRelease(c) => /\ calls[c].release < MaxReleases[c]
                              /\ calls'[c].release = calls[c].release + 1
        /\ pc[c] \in After \/ StartRelease(c)
    BY CountStep
  <1>m. MaxReleases[c] \in Nat /\ MaxReleases[c] <= 1
    BY BoundAssumption DEF OneReleaseEach
  <1>n. calls'[c].release \in Nat
    BY TypeStep DEF TypeOK
  <1>1. calls'[c].release >= 1
    BY <1>c, <1>m, <1>n DEF ReleasedOnce
  <1> SUFFICES ASSUME NEW n \in Node
               PROVE  OnlyRelease(c, n)'
    BY <1>1
  <1> DEFINE q == conn[c][n]
             r == conn'[c][n]
  <1>2. CASE StartRelease(c)
    <2>1. PICK refused \in Refused : StartRelease(c)!(refused)
      BY <1>2 DEF StartRelease
    <2>2. pc[c] \notin After
      BY <1>2, <1>c, <1>m DEF ReleasedOnce
    <2>3. pc[c] = "held"
      BY <2>1, <2>2 DEF After
    <2>4. \A i \in 1..Len(q) : q[i].op # "release"
      BY <2>3 DEF Commands, Legal
    <2>5. CASE n \in refused
      <3>1. r = q
        BY <1>t, <2>1, <2>5 DEF Send
      <3> QED
        BY <2>4, <3>1 DEF OnlyRelease, Awaiting, LiveRelease, DeadRelease
    <2>6. CASE n \notin refused
      <3>1. r = Append(q, Evalsha("release", 0)) /\ vote'[c][n] = "pending"
            /\ pc'[c] = "releasing"
        BY <1>t, <2>1, <2>6 DEF Send, Opening
      <3>2. Evalsha("release", 0) \in Cmd /\ Evalsha("release", 0).live = TRUE
        BY CmdType DEF Evalsha, Op
      <3>3. LiveRelease(r)
        BY <1>t, <2>4, <3>1, <3>2, ReleaseQueue
      <3> QED
        BY <3>1, <3>3 DEF OnlyRelease, Awaiting, LiveRelease
    <2> QED
      BY <2>5, <2>6
  <1> SUFFICES ASSUME ~StartRelease(c)
               PROVE  OnlyRelease(c, n)'
    BY <1>2
  <1>3. pc[c] \in After /\ OnlyRelease(c, n)
    BY <1>c DEF ReleasedOnce
  <1>u. ASSUME pc'[c] = pc[c], vote'[c][n] = vote[c][n],
               LiveRelease(q) => LiveRelease(r), DeadRelease(q) => DeadRelease(r)
        PROVE  OnlyRelease(c, n)'
    BY <1>3, <1>u DEF Awaiting, OnlyRelease, LiveRelease, DeadRelease
  <1>d. ASSUME pc'[c] # "releasing" \/ vote'[c][n] # "pending", DeadRelease(r)
        PROVE  OnlyRelease(c, n)'
    BY <1>d DEF Awaiting, OnlyRelease, DeadRelease
  <1>l. LiveRelease(q) \/ DeadRelease(q)
    BY <1>3 DEF OnlyRelease
  <1>4. CASE StartAttempt(c) \/ AcquireSucceeds(c) \/ AcquireRefused(c) \/ AcquireFails(c)
             \/ CleanupDone(c)
    BY <1>3, <1>4 DEF StartAttempt, AcquireSucceeds, AcquireRefused, AcquireFails,
       CleanupDone, After
  <1>5. CASE StartExtend(c)
    <2>1. PICK ttl \in ExtendTtls, refused \in Refused : StartExtend(c)!(ttl, refused)
      BY <1>5 DEF StartExtend
    <2>2. /\ r = q \/ r = Append(q, Evalsha("extend", ttl))
          /\ pc' = pc /\ vote' = vote
      BY <1>t, <2>1 DEF Send
    <2>3. Evalsha("extend", ttl) \in Cmd /\ Evalsha("extend", ttl).op # "release"
      BY CmdType, TimeAssumption DEF Evalsha, Op
    <2>4. (LiveRelease(q) => LiveRelease(r)) /\ (DeadRelease(q) => DeadRelease(r))
      BY <1>t, <2>2, <2>3, ReleaseQueue
    <2> QED
      BY <1>u, <2>2, <2>4
  <1>6. CASE ExtendSucceeds(c) \/ ExtendFails(c)
    <2>1. r = Abandon(q, {"extend"}) /\ pc' = pc /\ vote' = vote
      BY <1>t, <1>6 DEF ExtendSucceeds, ExtendFails, AbandonAll
    <2>2. (LiveRelease(q) => LiveRelease(r)) /\ (DeadRelease(q) => DeadRelease(r))
      BY <1>t, <2>1, ReleaseQueue
    <2> QED
      BY <1>u, <2>1, <2>2
  <1>7. CASE ReleaseSucceeds(c) \/ ReleaseNotHeld(c) \/ ReleaseFails(c)
    <2>1. r = Abandon(q, MainOps) /\ pc'[c] # "releasing"
      BY <1>t, <1>7 DEF ReleaseSucceeds, ReleaseNotHeld, ReleaseFails, EndRelease, AbandonAll
    <2>2. "release" \in MainOps
      BY DEF MainOps
    <2>3. DeadRelease(r)
      BY <1>t, <1>l, <2>1, <2>2, ReleaseQueue
    <2> QED
      BY <1>d, <2>1, <2>3
  <1>8. ASSUME NEW m \in Node, RunAcquire(c, m) \/ RunExtend(c, m) \/ RunRelease(c, m), m # n
        PROVE  OnlyRelease(c, n)'
    <2>1. r = q /\ pc' = pc
      BY <1>t, <1>8 DEF RunAcquire, RunExtend, RunRelease, Pop
    <2>2. vote'[c][n] = vote[c][n]
      BY <1>t, <1>8 DEF RunAcquire, RunExtend, RunRelease, Answer
    <2> QED
      BY <1>u, <2>1, <2>2
  <1>9. CASE RunAcquire(c, n) \/ RunExtend(c, n) \/ RunRelease(c, n)
    <2>1. q # <<>> /\ Pop(c, n) /\ pc' = pc
      BY <1>9 DEF RunAcquire, RunExtend, RunRelease, Head1
    <2>2. r = Tail(q)
      BY <1>t, <2>1 DEF Pop
    <2>3. /\ (LiveRelease(q) => LiveRelease(r)) /\ (DeadRelease(q) => DeadRelease(r))
          /\ Head(q).op = "release" => LiveRelease(r) /\ DeadRelease(r)
      BY <1>t, <1>l, <2>1, <2>2, ReleaseQueue
    <2>4. CASE Head(q).op # "release"
      <3>1. Legal(pc[c], ext[c].on, Head(q))
        BY <1>t, <2>1, TailQueue DEF Commands
      <3>2. Head(q).op = "extend" \/ ~Head(q).live
        BY <1>3, <1>9, <2>4, <3>1 DEF Legal, RunAcquire, RunExtend, RunRelease, Head1, After
      <3>3. vote'[c][n] = vote[c][n]
        <4>1. RunExtend(c, n) => vote' = vote
          BY DEF RunExtend
        <4>2. ~RunExtend(c, n) => ~Head(q).live
          BY <1>9, <3>2 DEF RunAcquire, RunRelease, Head1
        <4>3. ~Head(q).live /\ ~RunExtend(c, n) => vote' = vote
          BY <1>9 DEF RunAcquire, RunRelease, Answer
        <4> QED
          BY <4>1, <4>2, <4>3
      <3> QED
        BY <1>u, <2>1, <2>3, <3>3
    <2>5. CASE Head(q).op = "release"
      BY <2>3, <2>5 DEF OnlyRelease, LiveRelease, DeadRelease
    <2> QED
      BY <2>4, <2>5
  <1>10. ASSUME NEW m \in Node, NoScript(c, m) PROVE OnlyRelease(c, n)'
    <2>1. /\ pc' = pc /\ vote' = vote
          /\ \/ r = q
             \/ q # <<>> /\ r = Append(Tail(q), [Head(q) EXCEPT !.sha = FALSE])
      BY <1>t, <1>10 DEF NoScript
    <2>2. (LiveRelease(q) => LiveRelease(r)) /\ (DeadRelease(q) => DeadRelease(r))
      BY <1>t, <2>1, ReleaseQueue
    <2> QED
      BY <1>u, <2>1, <2>2
  <1>11. ASSUME NEW m \in Node, Disconnect(c, m) PROVE OnlyRelease(c, n)'
    <2>1. CASE m = n
      <3>1. r = <<>>
        BY <1>t, <1>11, <2>1 DEF Disconnect
      <3> QED
        BY <3>1, EmptySeq DEF OnlyRelease, LiveRelease, DeadRelease
    <2>2. CASE m # n
      <3>1. r = q /\ pc' = pc /\ vote'[c][n] = vote[c][n]
        BY <1>t, <1>11, <2>2 DEF Disconnect
      <3> QED
        BY <1>u, <3>1
    <2> QED
      BY <2>1, <2>2
  <1>12. ASSUME NEW m \in Node, Timeout(c, m) PROVE OnlyRelease(c, n)'
    <2>1. CASE m = n
      <3>1. r = Abandon(q, MainOps) /\ vote'[c][n] = "error" /\ "release" \in MainOps
        BY <1>t, <1>12, <2>1 DEF Timeout, MainOps
      <3>2. DeadRelease(r)
        BY <1>t, <1>l, <3>1, ReleaseQueue
      <3> QED
        BY <1>d, <3>1, <3>2
    <2>2. CASE m # n
      <3>1. r = q /\ pc' = pc /\ vote'[c][n] = vote[c][n]
        BY <1>t, <1>12, <2>2 DEF Timeout
      <3> QED
        BY <1>u, <3>1
    <2> QED
      BY <2>1, <2>2
  <1>13. ASSUME NEW m \in Node, ExtendTimeout(c, m) PROVE OnlyRelease(c, n)'
    <2>1. (r = q \/ r = Abandon(q, {"extend"})) /\ pc' = pc /\ vote' = vote
      BY <1>t, <1>13 DEF ExtendTimeout
    <2>2. (LiveRelease(q) => LiveRelease(r)) /\ (DeadRelease(q) => DeadRelease(r))
      BY <1>t, <2>1, ReleaseQueue
    <2> QED
      BY <1>u, <2>1, <2>2
  <1> QED
    BY <1>4, <1>5, <1>6, <1>7, <1>8, <1>9, <1>10, <1>11, <1>12, <1>13
       DEF ClientStep, Decide, Serve

\* A vote of the release round changes when its node answers or is given up.
LEMMA ReleaseVote ==
  ASSUME TypeOK, NEW c \in Client, NEW n \in Node, Commands(c), ClientStep(c),
         pc[c] = "releasing", pc'[c] = "releasing"
  PROVE  \/ vote'[c][n] = vote[c][n]
         \/ vote'[c][n] = "error"
         \/ /\ RunRelease(c, n) /\ Heard(c, n) /\ Head(conn[c][n]).op = "release"
            /\ vote'[c][n] = IF ReleaseGranted(c, n) THEN "for" ELSE "against"
  <1> DEFINE Goal == \/ vote'[c][n] = vote[c][n]
                     \/ vote'[c][n] = "error"
                     \/ /\ RunRelease(c, n) /\ Heard(c, n) /\ Head(conn[c][n]).op = "release"
                        /\ vote'[c][n] = IF ReleaseGranted(c, n) THEN "for" ELSE "against"
  <1> SUFFICES Goal
    OBVIOUS
  <1>0. vote \in [Client -> [Node -> Vote]] /\ pc \in [Client -> PC]
    BY DEF TypeOK
  <1>1. CASE StartAttempt(c) \/ StartRelease(c) \/ AcquireSucceeds(c) \/ AcquireRefused(c)
               \/ AcquireFails(c) \/ CleanupDone(c) \/ ReleaseSucceeds(c)
               \/ ReleaseNotHeld(c) \/ ReleaseFails(c)
    BY <1>0, <1>1 DEF StartAttempt, StartRelease, AcquireSucceeds, AcquireRefused, AcquireFails,
       CleanupDone, ReleaseSucceeds, ReleaseNotHeld, ReleaseFails, EndRelease
  <1>2. CASE StartExtend(c) \/ ExtendSucceeds(c) \/ ExtendFails(c)
    BY <1>2 DEF StartExtend, ExtendSucceeds, ExtendFails
  <1>3. ASSUME NEW m \in Node, RunAcquire(c, m) \/ RunRelease(c, m) PROVE Goal
    <2>1. CASE m # n
      BY <1>0, <1>3, <2>1 DEF RunAcquire, RunRelease, Answer
    <2>2. CASE m = n /\ ~Head(conn[c][n]).live
      BY <1>3, <2>2 DEF RunAcquire, RunRelease, Answer
    <2>3. CASE m = n /\ Head(conn[c][n]).live
      <3>1. /\ conn[c][n] # <<>>
            /\ \/ RunAcquire(c, n) /\ Head(conn[c][n]).op = "acquire"
               \/ RunRelease(c, n) /\ Head(conn[c][n]).op = "release"
               \/ RunRelease(c, n) /\ Head(conn[c][n]).op = "cleanup"
        BY <1>3, <2>3 DEF RunAcquire, RunRelease, Head1
      <3>2. Legal(pc[c], ext[c].on, Head(conn[c][n]))
        BY <3>1, QueueType, TailQueue DEF Commands
      <3>3. RunRelease(c, n) /\ Head(conn[c][n]).op = "release"
        BY <2>3, <3>1, <3>2 DEF Legal
      <3>4. vote'[c][n] = IF ReleaseGranted(c, n) THEN "for" ELSE "against"
        BY <1>0, <2>3, <3>3 DEF RunRelease, Answer
      <3> QED
        BY <2>3, <3>1, <3>3, <3>4 DEF Heard
    <2> QED
      BY <2>1, <2>2, <2>3
  <1>4. ASSUME NEW m \in Node, RunExtend(c, m) \/ NoScript(c, m) \/ ExtendTimeout(c, m)
        PROVE  Goal
    BY <1>4 DEF RunExtend, NoScript, ExtendTimeout
  <1>5. ASSUME NEW m \in Node, Disconnect(c, m) \/ Timeout(c, m) PROVE Goal
    BY <1>0, <1>5 DEF Disconnect, Timeout
  <1> QED
    BY <1>1, <1>2, <1>3, <1>4, <1>5 DEF ClientStep, Decide, Serve

\* Once release() is called, nothing but extensions is sent until it has returned.
LEMMA AfterMoves ==
  ASSUME TypeOK, NEW c \in Client, NEW n \in Node, ClientStep(c), pc[c] \in After
  PROVE  \/ QueueMove(conn[c][n], conn'[c][n])
         \/ \E cmd \in Cmd : /\ cmd.op \in {"extend", "release"}
                             /\ conn'[c][n] = Append(conn[c][n], cmd)
  <1>1. ~StartAttempt(c) /\ ~AcquireFails(c)
    BY DEF StartAttempt, AcquireFails, After
  <1>2. /\ Evalsha("release", 0) \in Cmd /\ Evalsha("release", 0).op = "release"
        /\ \A ttl \in ExtendTtls : /\ Evalsha("extend", ttl) \in Cmd
                                   /\ Evalsha("extend", ttl).op = "extend"
    BY CmdType, TimeAssumption DEF Evalsha, Op
  <1> QED
    BY <1>1, <1>2, Moves

\* No acquire comes back to a connection, and no cleanup, once release() is called.
LEMMA AfterKeeps ==
  ASSUME TypeOK, NEW c \in Client, NEW n \in Node, ClientStep(c), pc[c] \in After
  PROVE  /\ NoAcquire(conn[c][n]) => NoAcquire(conn'[c][n])
         /\ NoCleanup(conn[c][n]) => NoCleanup(conn'[c][n])
  <1> DEFINE q == conn[c][n]
             r == conn'[c][n]
  <1>0. q \in Seq(Cmd)
    BY QueueType
  <1>1. CASE QueueMove(q, r)
    <2>1. \A i \in 1..Len(r) : \E j \in 1..Len(q) : r[i].op = q[j].op
      BY <1>0, <1>1, MoveKeeps
    <2> QED
      BY <2>1 DEF NoAcquire, NoCleanup
  <1>2. ASSUME NEW cmd \in Cmd, cmd.op \in {"extend", "release"}, r = Append(q, cmd)
        PROVE  /\ NoAcquire(q) => NoAcquire(r)
               /\ NoCleanup(q) => NoCleanup(r)
    <2>1. \A i \in 1..Len(r) : (i \in 1..Len(q) /\ r[i] = q[i]) \/ r[i] = cmd
      BY <1>0, <1>2, AppendQueue
    <2> QED
      BY <1>2, <2>1 DEF NoAcquire, NoCleanup
  <1> QED
    BY <1>1, <1>2, AfterMoves

\* What has gone stays gone.
LEMMA GoneStep ==
  ASSUME TypeOK, [Next]_vars, NEW c \in Client, NEW n \in Node, Resources[c] # {},
         pc[c] \in After, Gone(c, n)
  PROVE  Gone(c, n)'
  <1>1. NoAcquire(conn'[c][n])
    <2>1. CASE Same(c)
      BY <2>1 DEF Same, Gone
    <2>2. CASE ClientStep(c)
      BY <2>2, AfterKeeps DEF Gone
    <2> QED
      BY <2>1, <2>2, StepShape
  <1>2. ~RunAcquire(c, n)
    <2>1. ASSUME RunAcquire(c, n) PROVE FALSE
      <3>1. conn[c][n] \in Seq(Cmd) /\ conn[c][n] # <<>> /\ Head(conn[c][n]).op = "acquire"
        BY <2>1, QueueType DEF RunAcquire, Head1
      <3> QED
        BY <3>1, TailQueue DEF Gone, NoAcquire
    <2> QED
      BY <2>1
  <1>3. ~ExtendGranted(c, n)
    BY DEF ExtendGranted, Gone
  <1>4. \A k \in Resources[c] : ~Owns(c, n, k)'
    <2>1. ASSUME NEW k \in Resources[c], Owns(c, n, k)' PROVE FALSE
      <3>1. k \in Key /\ ~Owns(c, n, k)
        BY ClientAssumption DEF Gone
      <3> QED
        BY <1>2, <1>3, <2>1, <3>1, NewOwner
    <2> QED
      BY <2>1
  <1> QED
    BY <1>1, <1>4 DEF Gone, NoAcquire, Owns

\* While the release waits for a node, what it will find there stays.
LEMMA StandingStep ==
  ASSUME TypeOK, \A d \in Client : Commands(d), [Next]_vars,
         NEW c \in Client, NEW n \in Node, NEW e \in Int, NEW u \in Ttls,
         e <= now + u - Drift(u), ReleasedOnce(c), Resources[c] # {},
         pc[c] = "releasing", pc'[c] = "releasing", Standing(c, n, e)
  PROVE  Standing(c, n, e)'
  <1> SUFFICES ASSUME now' < e
               PROVE  /\ vote'[c][n] # "against"
                      /\ vote'[c][n] = "pending" =>
                           /\ NoCleanup(conn'[c][n])
                           /\ \A k \in Resources[c] :
                                store'[n][k].holder = c /\ store'[n][k].expiry >= e + ClockSkew
    BY DEF Standing, Owns, NoCleanup
  <1>1. now < e
    BY StepShape DEF TypeOK
  <1>2. /\ vote[c][n] # "against"
        /\ vote[c][n] = "pending" =>
             /\ NoCleanup(conn[c][n])
             /\ \A k \in Resources[c] : Owns(c, n, k) /\ store[n][k].expiry >= e + ClockSkew
    BY <1>1 DEF Standing
  <1>3. Heard(c, n) /\ Head(conn[c][n]).op = "release" => vote[c][n] = "pending"
    <2>1. ASSUME Heard(c, n), Head(conn[c][n]).op = "release", vote[c][n] # "pending"
          PROVE  FALSE
      <3>1. DeadRelease(conn[c][n])
        BY <2>1 DEF ReleasedOnce, OnlyRelease, Awaiting, After
      <3>2. conn[c][n] \in Seq(Cmd) /\ conn[c][n] # <<>> /\ Head(conn[c][n]).live
        BY <2>1, QueueType DEF Heard
      <3> QED
        BY <2>1, <3>1, <3>2, ReleaseQueue
    <2> QED
      BY <2>1
  <1>4. vote'[c][n] = vote[c][n] \/ vote'[c][n] \in {"error", "for"}
    <2>1. CASE Same(c)
      BY <2>1 DEF Same
    <2>2. CASE ClientStep(c) /\ RunRelease(c, n) /\ Heard(c, n)
               /\ Head(conn[c][n]).op = "release"
      <3>1. ReleaseGranted(c, n)
        BY <1>2, <1>3, <2>2 DEF ReleaseGranted
      <3> QED
        BY <2>2, <3>1, ReleaseVote
    <2> QED
      BY <2>1, <2>2, ReleaseVote, StepShape
  <1>5. ASSUME vote'[c][n] = "pending"
        PROVE  /\ NoCleanup(conn'[c][n])
               /\ \A k \in Resources[c] :
                    store'[n][k].holder = c /\ store'[n][k].expiry >= e + ClockSkew
    <2>1. vote[c][n] = "pending"
      BY <1>4, <1>5
    <2>2. NoCleanup(conn'[c][n])
      <3>1. CASE Same(c)
        BY <1>2, <2>1, <3>1 DEF Same
      <3>2. CASE ClientStep(c)
        BY <1>2, <2>1, <3>2, AfterKeeps DEF After
      <3> QED
        BY <3>1, <3>2, StepShape
    <2>3. ~RunRelease(c, n)
      <3>1. ASSUME RunRelease(c, n) PROVE FALSE
        <4>1. /\ conn[c][n] \in Seq(Cmd) /\ conn[c][n] # <<>>
              /\ Head(conn[c][n]).op \in {"release", "cleanup"}
          BY <3>1, QueueType DEF RunRelease, Head1
        <4>2. Head(conn[c][n]).op = "release"
          BY <1>2, <2>1, <4>1, TailQueue DEF NoCleanup
        <4>3. LiveRelease(conn[c][n])
          BY <2>1 DEF ReleasedOnce, OnlyRelease, Awaiting, After
        <4>4. Head(conn[c][n]).live
          BY <4>1, <4>2, <4>3, ReleaseQueue
        <4>5. vote'[c][n] \in {"for", "against"}
          BY <3>1, <4>4 DEF RunRelease, Answer, TypeOK
        <4> QED
          BY <1>5, <4>5
      <3> QED
        BY <3>1
    <2> QED
      BY <1>1, <1>2, <2>1, <2>2, <2>3, KeysStep
  <1> QED
    BY <1>2, <1>4, <1>5

\* Appending keeps the order if an acquire follows no release, and a cleanup no extension.
LEMMA SortedAppend ==
  ASSUME NEW q \in Seq(Cmd), NEW cmd \in Cmd, Sorted(q),
         cmd.op = "acquire" => \A i \in 1..Len(q) : q[i].op # "release",
         cmd.op = "cleanup" => \A i \in 1..Len(q) : q[i].op # "extend"
  PROVE  Sorted(Append(q, cmd))
  <1> DEFINE r == Append(q, cmd)
  <1>1. /\ Len(q) \in Nat /\ Len(r) = Len(q) + 1 /\ r[Len(q) + 1] = cmd
        /\ \A i \in 1..Len(q) : r[i] = q[i]
        /\ \A i \in 1..Len(r) : i \in 1..Len(q) \/ i = Len(q) + 1
    BY AppendProperties, LenProperties
  <1> HIDE DEF r
  <1>2. ASSUME NEW i \in 1..Len(r), NEW j \in 1..Len(r), i < j
        PROVE  /\ r[i].op = "release" => r[j].op # "acquire"
               /\ r[i].op = "extend" => r[j].op # "cleanup"
    <2>1. i \in 1..Len(q) /\ r[i] = q[i]
      BY <1>1, <1>2
    <2>2. CASE j \in 1..Len(q)
      BY <1>1, <1>2, <2>1, <2>2 DEF Sorted
    <2>3. CASE j = Len(q) + 1
      BY <1>1, <2>1, <2>3
    <2> QED
      BY <1>1, <2>2, <2>3
  <1>3. Sorted(r)
    BY <1>2 DEF Sorted
  <1> QED
    BY <1>3 DEF r

\* Where a call without a lock, and where a release that runs, come from.
LEMMA StageOrigins ==
  ASSUME TypeOK, NEW c \in Client, ClientStep(c)
  PROVE  /\ pc'[c] \in Unowned => pc[c] \in Unowned
         /\ StartExtend(c) \/ StartRelease(c) => pc'[c] \notin Unowned
         /\ pc'[c] = "releasing" =>
              \/ pc[c] = "releasing" /\ (expiration'[c] = expiration[c] \/ ExtendSucceeds(c))
              \/ StartRelease(c)
         /\ pc'[c] = "notHeld" =>
              \/ pc[c] = "notHeld" /\ (expiration'[c] = expiration[c] \/ ExtendSucceeds(c))
              \/ ReleaseNotHeld(c)
         /\ ext'[c].on => ext[c].on \/ StartExtend(c)
         /\ ExtendTtls = {} /\ ~ext[c].on => ~ext'[c].on
  <1>0. /\ pc \in [Client -> PC] /\ expiration \in [Client -> Int]
        /\ ext \in [Client -> ExtendCall]
    BY DEF TypeOK
  <1> USE DEF Unowned
  <1>8. StartExtend(c) \/ StartRelease(c) => pc'[c] \notin Unowned
    BY <1>0 DEF StartExtend, Unreleased, StartRelease
  <1>1. CASE StartAttempt(c) \/ AcquireSucceeds(c) \/ AcquireRefused(c) \/ AcquireFails(c)
               \/ CleanupDone(c)
    <2>1. /\ pc[c] \in Unowned /\ pc'[c] \in Unowned \union {"held"} /\ ext' = ext
      BY <1>0, <1>1 DEF StartAttempt, AcquireSucceeds, AcquireRefused, AcquireFails, CleanupDone
    <2> QED
      BY <1>8, <2>1
  <1>2. CASE StartExtend(c)
    BY <1>0, <1>2, <1>8 DEF StartExtend, Unreleased
  <1>3. CASE StartRelease(c)
    BY <1>0, <1>3, <1>8 DEF StartRelease
  <1>4. CASE ExtendSucceeds(c) \/ ExtendFails(c)
    <2>1. pc' = pc /\ ~ext'[c].on /\ (ExtendSucceeds(c) \/ expiration' = expiration)
      BY <1>0, <1>4 DEF ExtendSucceeds, ExtendFails, NoExtend
    <2> QED
      BY <1>8, <2>1
  <1>5. CASE ReleaseSucceeds(c) \/ ReleaseNotHeld(c) \/ ReleaseFails(c)
    <2>1. /\ pc'[c] \in {"released", "notHeld", "unreleased"} /\ ext' = ext
          /\ pc'[c] = "notHeld" => ReleaseNotHeld(c)
      BY <1>0, <1>5 DEF ReleaseSucceeds, ReleaseNotHeld, ReleaseFails, EndRelease
    <2> QED
      BY <1>8, <2>1
  <1>6. ASSUME NEW n \in Node, Serve(c, n)
        PROVE  /\ pc' = pc /\ expiration' = expiration
               /\ \/ ext' = ext
                  \/ \E x : ext' = [ext EXCEPT ![c] = [ext[c] EXCEPT !.vote = x]]
    BY <1>6 DEF Serve, RunAcquire, RunExtend, RunRelease, NoScript, Disconnect, Timeout,
                ExtendTimeout
  <1>7. ASSUME NEW n \in Node, Serve(c, n) PROVE ext'[c].on = ext[c].on
    BY <1>0, <1>6, <1>7 DEF ExtendCall
  <1> QED
    BY <1>1, <1>2, <1>3, <1>4, <1>5, <1>6, <1>7, <1>8 DEF ClientStep, Decide

\* Without NOSCRIPT nothing overtakes.
LEMMA InOrderStep ==
  ASSUME OneReleaseEach, "noscript" \notin FaultKinds, TypeOK, [Next]_vars,
         NEW c \in Client, ClientStep(c), Commands(c), InOrder(c)
  PROVE  InOrder(c)'
  <1> SUFFICES ASSUME NEW n \in Node
               PROVE  /\ Sorted(conn'[c][n])
                      /\ pc'[c] \in Unowned =>
                           \A i \in 1..Len(conn'[c][n]) : conn'[c][n][i].op # "extend"
                      /\ pc'[c] = "releasing" /\ vote'[c][n] = "against" => Gone(c, n)'
    BY DEF InOrder, Sorted, Gone, NoAcquire, Owns
  <1> DEFINE q == conn[c][n]
             r == conn'[c][n]
  <1>0. /\ q \in Seq(Cmd) /\ Sorted(q) /\ pc \in [Client -> PC]
        /\ vote \in [Client -> [Node -> Vote]]
        /\ \A i \in 1..Len(q) : Legal(pc[c], ext[c].on, q[i])
        /\ pc[c] \in Unowned => \A i \in 1..Len(q) : q[i].op # "extend"
    BY QueueType DEF InOrder, TypeOK, Commands
  <1>1. ASSUME NEW p \in Seq(Cmd), NEW cmd \in Cmd, r = Append(p, cmd), Sorted(p),
               cmd.op = "acquire" => \A i \in 1..Len(p) : p[i].op # "release",
               cmd.op = "cleanup" => \A i \in 1..Len(p) : p[i].op # "extend",
               pc'[c] \in Unowned =>
                 cmd.op # "extend" /\ \A i \in 1..Len(p) : p[i].op # "extend"
        PROVE  /\ Sorted(r)
               /\ pc'[c] \in Unowned => \A i \in 1..Len(r) : r[i].op # "extend"
    <2>1. Sorted(r)
      BY <1>1, SortedAppend
    <2>2. \A i \in 1..Len(r) : (i \in 1..Len(p) /\ r[i] = p[i]) \/ r[i] = cmd
      BY <1>1, AppendQueue
    <2> QED
      BY <1>1, <2>1, <2>2
  <1>2. /\ Sorted(r)
        /\ pc'[c] \in Unowned => \A i \in 1..Len(r) : r[i].op # "extend"
    <2>0. /\ pc'[c] \in Unowned => pc[c] \in Unowned
          /\ StartExtend(c) \/ StartRelease(c) => pc'[c] \notin Unowned
      BY StageOrigins
    <2>1. CASE QueueMove(q, r)
      <3>0. q \in Seq(Cmd)
        BY <1>0
      <3>1. \A i \in 1..Len(r) : \E j \in 1..Len(q) : r[i].op = q[j].op
        BY <3>0, <2>1, MoveKeeps, SMTT(60)
      <3>2. Sorted(r)
        BY <1>0, <2>1, MoveKeeps
      <3> QED
        BY <1>0, <2>0, <3>1, <3>2
    <2>2. CASE StartAttempt(c) /\ r = Append(q, Evalsha("acquire", Ttl))
      <3>1. pc[c] \in {"idle", "backoff"}
        BY <2>2 DEF StartAttempt
      <3>2. \A i \in 1..Len(q) : q[i].op # "release" /\ q[i].op # "extend"
        BY <1>0, <3>1 DEF Legal, Unowned
      <3>3. Evalsha("acquire", Ttl) \in Cmd /\ Evalsha("acquire", Ttl).op = "acquire"
        BY CmdType, TimeAssumption DEF Evalsha, Op
      <3> QED
        BY <1>0, <1>1, <2>2, <3>2, <3>3
    <2>3. CASE AcquireFails(c) /\ r = Append(Abandon(q, MainOps), Cleanup)
      <3>1. pc[c] = "acquiring"
        BY <2>3 DEF AcquireFails
      <3>2. \A i \in 1..Len(q) : q[i].op # "release" /\ q[i].op # "extend"
        BY <1>0, <3>1 DEF Legal, Unowned
      <3>3. Cleanup \in Cmd /\ Cleanup.op = "cleanup"
        BY CmdType DEF Cleanup
      <3>4. /\ Abandon(q, MainOps) \in Seq(Cmd) /\ Sorted(Abandon(q, MainOps))
            /\ \A i \in 1..Len(Abandon(q, MainOps)) : Abandon(q, MainOps)[i].op # "extend"
        <4>1. QueueMove(q, Abandon(q, MainOps))
          BY DEF QueueMove
        <4>2. /\ Abandon(q, MainOps) \in Seq(Cmd)
              /\ Sorted(Abandon(q, MainOps))
              /\ \A i \in 1..Len(Abandon(q, MainOps)) : \E j \in 1..Len(q) :
                   Abandon(q, MainOps)[i].op = q[j].op
          BY <1>0, <4>1, MoveKeeps
        <4> QED
          BY <3>2, <4>2
      <3> QED
        BY <1>1, <2>3, <3>3, <3>4
    <2>4. ASSUME StartExtend(c), NEW ttl \in ExtendTtls, r = Append(q, Evalsha("extend", ttl))
          PROVE  /\ Sorted(r)
                 /\ pc'[c] \in Unowned => \A i \in 1..Len(r) : r[i].op # "extend"
      <3>1. Evalsha("extend", ttl) \in Cmd /\ Evalsha("extend", ttl).op = "extend"
        BY CmdType, TimeAssumption DEF Evalsha, Op
      <3> QED
        BY <1>0, <1>1, <2>0, <2>4, <3>1
    <2>5. CASE StartRelease(c) /\ r = Append(q, Evalsha("release", 0))
      <3>1. Evalsha("release", 0) \in Cmd /\ Evalsha("release", 0).op = "release"
        BY CmdType DEF Evalsha, Op
      <3> QED
        BY <1>0, <1>1, <2>0, <2>5, <3>1
    <2> QED
      BY <2>1, <2>2, <2>3, <2>4, <2>5, Moves
  <1>3. ASSUME pc'[c] = "releasing", vote'[c][n] = "against" PROVE Gone(c, n)'
    <2>1. CASE StartRelease(c)
      <3>1. PICK refused \in Refused : StartRelease(c)!(refused)
        BY <2>1 DEF StartRelease
      <3>2. vote'[c][n] = Opening(refused)[n]
        BY <1>0, <3>1
      <3> QED
        BY <1>3, <3>2 DEF Opening
    <2>2. CASE ~StartRelease(c)
      <3>1. pc[c] = "releasing" /\ pc[c] \in After /\ Resources[c] # {}
        BY <1>3, <2>2, StageOrigins DEF After, OneReleaseEach
      <3>2. CASE vote[c][n] = "against"
        BY <3>1, <3>2, GoneStep DEF InOrder
      <3>3. CASE /\ RunRelease(c, n) /\ Heard(c, n) /\ Head(q).op = "release"
                 /\ ~ReleaseGranted(c, n)
        <4>1. q # <<>> /\ r = Tail(q)
          BY <3>3 DEF RunRelease, Heard, Pop, TypeOK
        <4>2. NoAcquire(r)
          <5>1. /\ 1 \in 1..Len(q) /\ Head(q) = q[1] /\ Len(Tail(q)) \in Nat
                /\ \A i \in 1..Len(r) : i + 1 \in 1..Len(q) /\ r[i] = q[i + 1]
            BY <1>0, <4>1, TailQueue, LenProperties, HeadTailProperties
          <5>2. \A i \in 1..Len(r) : 1 < i + 1
            OBVIOUS
          <5> QED
            BY <1>0, <3>3, <5>1, <5>2 DEF Sorted, NoAcquire
        <4>3. ~RunAcquire(c, n) /\ ~RunExtend(c, n)
          BY <3>3 DEF RunAcquire, RunExtend, Head1
        <4>4. \A k \in Resources[c] : ~Owns(c, n, k)'
          BY <3>3, <4>3, NewOwner, ClientAssumption DEF ReleaseGranted
        <4> QED
          BY <4>2, <4>4 DEF Gone, NoAcquire, Owns
      <3>4. \/ vote'[c][n] = vote[c][n]
            \/ vote'[c][n] = "error"
            \/ /\ RunRelease(c, n) /\ Heard(c, n) /\ Head(q).op = "release"
               /\ vote'[c][n] = IF ReleaseGranted(c, n) THEN "for" ELSE "against"
        BY <1>3, <3>1, ReleaseVote
      <3> QED
        BY <1>3, <3>2, <3>3, <3>4
    <2> QED
      BY <2>1, <2>2
  <1> QED
    BY <1>2, <1>3


\* The quorum behind a lock stands before the release that is sent to it.
LEMMA StandingStart ==
  ASSUME TypeOK, NEW c \in Client, NEW n \in Node, NEW e \in Int, StartRelease(c),
         Backed(c, n, e)
  PROVE  Standing(c, n, e)'
  <1> DEFINE q == conn[c][n]
             r == conn'[c][n]
             cmd == Evalsha("release", 0)
  <1>1. PICK refused \in Refused : StartRelease(c)!(refused)
    BY DEF StartRelease
  <1>2. now' = now /\ store' = store
    BY <1>1
  <1>3. vote'[c][n] = Opening(refused)[n]
    BY <1>1 DEF TypeOK
  <1>4. vote'[c][n] # "against"
    BY <1>3 DEF Opening
  <1>5. r = q \/ r = Append(q, cmd)
    BY <1>1 DEF Send, TypeOK
  <1>6. q \in Seq(Cmd) /\ cmd \in Cmd /\ cmd.op = "release"
    BY QueueType, CmdType DEF Evalsha, Op
  <1>7. NoDelete(c, n) => NoCleanup(r)
    <2>1. CASE r = q
      BY <2>1 DEF NoDelete, NoCleanup, Deletes
    <2>2. CASE r = Append(q, cmd)
      <3>1. \A i \in 1..Len(r) : (i \in 1..Len(q) /\ r[i] = q[i]) \/ r[i] = cmd
        BY <1>6, <2>2, AppendQueue
      <3> QED
        BY <1>6, <3>1 DEF NoDelete, NoCleanup, Deletes
    <2> QED
      BY <1>5, <2>1, <2>2
  <1> QED
    BY <1>2, <1>4, <1>7 DEF Backed, Standing, Owns, NoCleanup

\* So does a node that extends the lock after that.
LEMMA StandingWrite ==
  ASSUME TypeOK, NEW c \in Client, NEW n \in Node, Commands(c), InOrder(c),
         Resources[c] # {}, pc[c] = "releasing", RunExtend(c, n), ExtendGranted(c, n),
         NEW e \in Int, NEW u \in Ttls, e <= now + u - Drift(u)
  PROVE  Standing(c, n, e)'
  <1> DEFINE q == conn[c][n]
  <1>1. /\ q \in Seq(Cmd) /\ q # <<>> /\ Head(q).op = "extend"
        /\ now' = now /\ vote' = vote /\ conn'[c][n] = Tail(q)
        /\ store' = [store EXCEPT ![n] = Written(c, n, Head(q).ttl)]
    <2>1. /\ q # <<>> /\ Head(q).op = "extend" /\ now' = now /\ vote' = vote /\ Pop(c, n)
          /\ store' = [store EXCEPT ![n] = Written(c, n, Head(q).ttl)]
      BY DEF RunExtend, Head1
    <2> QED
      BY <2>1, QueueType DEF Pop, TypeOK
  <1>2. /\ 1 \in 1..Len(q) /\ Head(q) = q[1] /\ Tail(q) \in Seq(Cmd)
        /\ \A i \in 1..Len(Tail(q)) : i + 1 \in 1..Len(q) /\ Tail(q)[i] = q[i + 1]
    BY <1>1, TailQueue
  <1>3. vote[c][n] # "against"
    BY DEF InOrder, Gone, ExtendGranted
  <1>4. NoCleanup(Tail(q))
    <2>1. ASSUME NEW i \in 1..Len(Tail(q)) PROVE Tail(q)[i].op # "cleanup"
      <3>1. i + 1 \in 1..Len(q) /\ Tail(q)[i] = q[i + 1] /\ 1 < i + 1
        BY <1>2
      <3> QED
        BY <1>1, <1>2, <3>1 DEF InOrder, Sorted
    <2> QED
      BY <2>1 DEF NoCleanup
  <1>5. ASSUME NEW k \in Resources[c]
        PROVE  store'[n][k].holder = c /\ store'[n][k].expiry >= e + ClockSkew
    <2>1. Head(q).ttl \in Ttls
      BY <1>1, <1>2 DEF Commands, Legal, Writes
    <2>2. k \in Key
      BY ClientAssumption
    <2>3. store'[n][k] = [holder |-> c, expiry |-> now + Head(q).ttl]
      BY <1>1, <2>2 DEF TypeOK, Written
    <2> QED
      BY <2>1, <2>3, LeaseMargin
  <1> QED
    BY <1>1, <1>3, <1>4, <1>5 DEF Standing, Owns

\* A lock that is being extended has an order of commands to rely on.
LEMMA ExtendingInOrder ==
  ASSUME OneReleaseEach, NEW c \in Client, AlarmInv(c), ext[c].on
  PROVE  InOrder(c)
  BY DEF OneReleaseEach, AlarmInv


\* While a release runs, a quorum stands for what its lock was promised.
LEMMA ReleaseBackedStep ==
  ASSUME OneReleaseEach, IInv, [Next]_vars, NEW c \in Client, AlarmInv(c),
         ClientStep(c) \/ Same(c)
  PROVE  ReleaseBacked(c)'
  <1> USE ExtType
  <1>0. /\ TypeOK /\ Commands(c) /\ Leases(c) /\ VotesBacked(c) /\ LockBacked(c)
        /\ \A d \in Client : Commands(d)
        /\ ReleasedOnce(c) /\ ReleaseBacked(c) /\ Resources[c] # {}
        /\ now \in Nat /\ now' \in Nat /\ now' >= now
    BY StepShape DEF IInv, AlarmInv, OneReleaseEach
  <1> SUFFICES ASSUME pc'[c] = "releasing"
               PROVE  /\ \E u \in Ttls : expiration'[c] <= now' + u - Drift(u)
                      /\ \E Q \in SUBSET Node :
                           IsQuorum(Q) /\ \A n \in Q : Standing(c, n, expiration[c])'
                      /\ \A n \in Node : ext'[c].on /\ ext'[c].vote[n] = "for" =>
                           Standing(c, n, ExtendExpiry(c))'
    BY DEF ReleaseBacked, IsQuorum
  <1>u. ASSUME NEW e \in Int, NEW u \in Ttls, e <= now + u - Drift(u)
        PROVE  e <= now' + u - Drift(u)
    BY <1>0, <1>u, DriftType, TimeAssumption DEF Ttls
  <1>1. CASE StartRelease(c)
    <2>1. pc[c] = "held"
      <3>1. calls[c].release \in Nat /\ calls[c].release < MaxReleases[c] /\ MaxReleases[c] <= 1
            /\ MaxReleases[c] \in Nat
        BY <1>0, <1>1, CountStep, BoundAssumption DEF OneReleaseEach
      <3>2. pc[c] \notin After
        BY <1>0, <3>1 DEF ReleasedOnce
      <3> QED
        BY <1>1, <3>2 DEF StartRelease, After
    <2>2. expiration' = expiration /\ ext' = ext
      BY <1>1 DEF StartRelease
    <2>3. PICK e \in Int : e = expiration[c]
      BY <1>0
    <2>4. PICK u \in Ttls : e <= now + u - Drift(u)
      BY <1>0, <2>1, <2>3 DEF Leases
    <2>5. PICK Q \in SUBSET Node : IsQuorum(Q) /\ \A n \in Q : Backed(c, n, e)
      BY <1>0, <2>1, <2>3 DEF LockBacked
    <2>6. \A n \in Q : Standing(c, n, e)'
      BY <1>0, <1>1, <2>5, StandingStart
    <2>7. \A n \in Q : Standing(c, n, expiration[c])'
      BY <2>2, <2>3, <2>6 DEF Standing
    <2>8. ASSUME NEW n \in Node, ext'[c].on, ext'[c].vote[n] = "for"
          PROVE  Standing(c, n, ExtendExpiry(c))'
      <3>1. PICK x \in Int : x = ExtendExpiry(c)
        BY <1>0, DriftType DEF ExtendExpiry
      <3>2. Backed(c, n, x)
        BY <1>0, <2>1, <2>2, <2>8, <3>1 DEF VotesBacked
      <3>3. Standing(c, n, x)'
        BY <1>0, <1>1, <3>2, StandingStart
      <3>4. ExtendExpiry(c)' = x
        BY <2>2, <3>1 DEF ExtendExpiry
      <3> QED
        BY <3>3, <3>4 DEF Standing
    <2> QED
      BY <1>u, <2>2, <2>3, <2>4, <2>5, <2>7, <2>8
  <1>2. CASE ~StartRelease(c)
    <2>1. /\ pc[c] = "releasing"
          /\ expiration'[c] = expiration[c] \/ ExtendSucceeds(c)
      BY <1>0, <1>2, StageOrigins DEF Same
    <2>2. ASSUME NEW Q \in SUBSET Node, IsQuorum(Q), NEW e \in Int, NEW u \in Ttls,
                 e <= now + u - Drift(u), \A n \in Q : Standing(c, n, e), expiration'[c] = e
          PROVE  /\ \E t \in Ttls : expiration'[c] <= now' + t - Drift(t)
                 /\ \E R \in SUBSET Node :
                      IsQuorum(R) /\ \A n \in R : Standing(c, n, expiration[c])'
      <3>1. \A n \in Q : Standing(c, n, e)'
        BY <1>0, <2>1, <2>2, StandingStep
      <3>2. \A n \in Q : Standing(c, n, expiration[c])'
        BY <2>2, <3>1 DEF Standing
      <3> QED
        BY <1>u, <2>2, <3>2
    <2>3. ASSUME NEW n \in Node, ext'[c].on, ext'[c].vote[n] = "for"
          PROVE  Standing(c, n, ExtendExpiry(c))'
      <3>1. /\ ext[c].on /\ ext'[c].start = ext[c].start /\ ext'[c].ttl = ext[c].ttl
            /\ \/ ext[c].vote[n] = "for"
               \/ RunExtend(c, n) /\ ExtendGranted(c, n)
        BY <1>0, <2>3, FreshExtendVote DEF Same
      <3>2. PICK e \in Int : e = ext[c].start + ext[c].ttl - Drift(ext[c].ttl)
        BY <1>0, DriftType
      <3>3. ext[c].ttl \in Ttls /\ e <= now + ext[c].ttl - Drift(ext[c].ttl)
        BY <1>0, <3>1, <3>2, DriftType DEF Leases
      <3>4. ExtendExpiry(c) = e /\ ExtendExpiry(c)' = e
        BY <3>1, <3>2 DEF ExtendExpiry
      <3>5. Standing(c, n, e)'
        <4>1. CASE ext[c].vote[n] = "for"
          <5>1. Standing(c, n, e)
            BY <1>0, <2>1, <3>1, <3>4, <4>1 DEF ReleaseBacked
          <5> QED
            BY <1>0, <2>1, <3>3, <5>1, StandingStep
        <4>2. CASE RunExtend(c, n) /\ ExtendGranted(c, n)
          BY <1>0, <2>1, <3>1, <3>3, <4>2, ExtendingInOrder, StandingWrite
        <4> QED
          BY <3>1, <4>1, <4>2
      <3> QED
        BY <3>4, <3>5 DEF Standing
    <2>4. CASE expiration'[c] = expiration[c]
      <3>1. PICK e \in Int : e = expiration[c]
        BY <1>0
      <3>2. PICK u \in Ttls : e <= now + u - Drift(u)
        BY <1>0, <2>1, <3>1 DEF ReleaseBacked
      <3>3. PICK Q \in SUBSET Node : IsQuorum(Q) /\ \A n \in Q : Standing(c, n, e)
        BY <1>0, <2>1, <3>1 DEF ReleaseBacked
      <3> QED
        BY <2>2, <2>3, <2>4, <3>1, <3>2, <3>3
    <2>5. CASE ExtendSucceeds(c)
      <3>1. PICK e \in Int : e = ExtendExpiry(c)
        BY <1>0, DriftType DEF ExtendExpiry
      <3>2. ext[c].on /\ expiration'[c] = e /\ Quorum(ext[c].vote)
        BY <1>0, <2>5, <3>1 DEF ExtendSucceeds, TypeOK
      <3>3. ext[c].ttl \in Ttls /\ e <= now + ext[c].ttl - Drift(ext[c].ttl)
        BY <1>0, <3>1, <3>2, DriftType DEF Leases, ExtendExpiry
      <3>4. With(ext[c].vote, "for") \in SUBSET Node /\ IsQuorum(With(ext[c].vote, "for"))
        BY <1>0, <3>2, QuorumOfVotes DEF With, Quorum
      <3>5. \A n \in With(ext[c].vote, "for") : Standing(c, n, e)
        BY <1>0, <2>1, <3>1, <3>2 DEF ReleaseBacked, With
      <3> QED
        BY <2>2, <2>3, <3>2, <3>3, <3>4, <3>5
    <2> QED
      BY <2>1, <2>3, <2>4, <2>5
  <1> QED
    BY <1>1, <1>2


\* An alarm stays justified, and an extension that outlives the release does not undo it.
LEMMA AlarmRealStep ==
  ASSUME OneReleaseEach, IInv, [Next]_vars, NEW c \in Client, AlarmInv(c),
         ClientStep(c) \/ Same(c)
  PROVE  AlarmReal(c)'
  <1> USE ExtType
  <1>0. /\ TypeOK /\ Leases(c)
        /\ ReleaseBacked(c) /\ AlarmReal(c) /\ Resources[c] # {}
        /\ now \in Nat /\ now' \in Nat /\ now' >= now
    BY StepShape DEF IInv, AlarmInv, OneReleaseEach
  <1>g. ASSUME NEW n \in Node, pc[c] \in After, Gone(c, n) PROVE Gone(c, n)'
    BY <1>0, <1>g, GoneStep
  <1> SUFFICES ASSUME pc'[c] = "notHeld"
               PROVE  /\ now' >= expiration'[c]
                      /\ ext'[c].on => \E Q \in SUBSET Node :
                           /\ IsQuorum(Q)
                           /\ \A n \in Q : /\ Gone(c, n)'
                                           /\ ext'[c].vote[n] = "for" => now' >= ExtendExpiry(c)'
    BY DEF AlarmReal, IsQuorum, Gone, NoAcquire, Owns
  <1>1. CASE ReleaseNotHeld(c)
    <2>1. /\ pc[c] = "releasing" /\ pc[c] \in After
          /\ Cardinality(With(vote[c], "against")) >= QuorumSize
          /\ now' = now /\ expiration' = expiration /\ ext' = ext
      BY <1>1 DEF ReleaseNotHeld, EndRelease, After
    <2> DEFINE R == With(vote[c], "against")
    <2>2. R \in SUBSET Node /\ IsQuorum(R) /\ \A n \in R : vote[c][n] = "against"
      BY <1>0, <2>1, QuorumOfVotes DEF With
    <2>3. now >= expiration[c]
      <3>1. PICK Q \in SUBSET Node : IsQuorum(Q) /\ \A n \in Q : Standing(c, n, expiration[c])
        BY <1>0, <2>1 DEF ReleaseBacked
      <3>2. PICK n \in Q : n \in R
        BY <2>2, <3>1, QuorumsMeet
      <3>3. ~(now < expiration[c])
        BY <2>2, <3>1, <3>2 DEF Standing
      <3> QED
        BY <1>0, <3>3
    <2>4. ASSUME ext'[c].on, NEW n \in R
          PROVE  Gone(c, n)' /\ (ext'[c].vote[n] = "for" => now' >= ExtendExpiry(c)')
      <3>1. ext[c].on /\ n \in Node /\ vote[c][n] = "against"
        BY <2>1, <2>2, <2>4
      <3>2. Gone(c, n)'
        BY <1>g, <2>1, <3>1, ExtendingInOrder DEF InOrder
      <3>3. ExtendExpiry(c)' = ExtendExpiry(c) /\ ExtendExpiry(c) \in Int
        BY <1>0, <2>1, DriftType DEF ExtendExpiry
      <3>4. ASSUME ext[c].vote[n] = "for" PROVE ~(now < ExtendExpiry(c))
        BY <1>0, <2>1, <3>1, <3>4 DEF ReleaseBacked, Standing
      <3> QED
        BY <1>0, <2>1, <3>2, <3>3, <3>4
    <2> QED
      BY <2>1, <2>2, <2>3, <2>4
  <1>2. CASE ~ReleaseNotHeld(c)
    <2>1. /\ pc[c] = "notHeld" /\ pc[c] \in After
          /\ expiration'[c] = expiration[c] \/ ExtendSucceeds(c)
          /\ ext'[c].on => ext[c].on
      <3>1. CASE Same(c)
        BY <3>1 DEF Same, After
      <3>2. CASE ClientStep(c)
        <4>1. pc[c] = "notHeld"
          BY <1>0, <1>2, <3>2, StageOrigins
        <4>2. ~StartExtend(c)
          BY <4>1 DEF StartExtend, Unreleased
        <4> QED
          BY <1>0, <1>2, <3>2, <4>1, <4>2, StageOrigins DEF After
      <3> QED
        BY <3>1, <3>2
    <2>2. now' >= expiration'[c]
      <3>1. CASE expiration'[c] = expiration[c]
        BY <1>0, <2>1, <3>1 DEF AlarmReal
      <3>2. CASE ExtendSucceeds(c)
        <4>0. ExtendExpiry(c) \in Int
          BY <1>0, DriftType DEF ExtendExpiry
        <4>1. /\ ext[c].on /\ Quorum(ext[c].vote)
              /\ expiration'[c] = ExtendExpiry(c)
          BY <1>0, <3>2 DEF ExtendSucceeds, TypeOK
        <4>2. PICK Q \in SUBSET Node :
                /\ IsQuorum(Q)
                /\ \A n \in Q : ext[c].vote[n] = "for" => now >= ExtendExpiry(c)
          BY <1>0, <2>1, <4>1 DEF AlarmReal
        <4>3. IsQuorum(With(ext[c].vote, "for"))
          BY <1>0, <4>1, QuorumOfVotes DEF Quorum
        <4>4. PICK n \in Q : n \in With(ext[c].vote, "for")
          BY <4>2, <4>3, QuorumsMeet
        <4> QED
          BY <1>0, <4>0, <4>1, <4>2, <4>4 DEF With
      <3> QED
        BY <2>1, <3>1, <3>2
    <2>3. ASSUME ext'[c].on
          PROVE  \E Q \in SUBSET Node :
                   /\ IsQuorum(Q)
                   /\ \A n \in Q : /\ Gone(c, n)'
                                   /\ ext'[c].vote[n] = "for" => now' >= ExtendExpiry(c)'
      <3>1. PICK Q \in SUBSET Node :
              /\ IsQuorum(Q)
              /\ \A n \in Q : Gone(c, n) /\ (ext[c].vote[n] = "for" => now >= ExtendExpiry(c))
        BY <1>0, <2>1, <2>3 DEF AlarmReal
      <3>2. \A n \in Q : Gone(c, n)'
        BY <1>g, <2>1, <3>1
      <3>3. ASSUME NEW n \in Q, ext'[c].vote[n] = "for" PROVE now' >= ExtendExpiry(c)'
        <4>1. /\ ext'[c].start = ext[c].start /\ ext'[c].ttl = ext[c].ttl
              /\ \/ ext[c].vote[n] = "for"
                 \/ RunExtend(c, n) /\ ExtendGranted(c, n)
          BY <1>0, <2>1, <2>3, <3>1, <3>3, FreshExtendVote DEF Same
        <4>2. ~ExtendGranted(c, n)
          BY <1>0, <3>1 DEF ExtendGranted, Gone
        <4>3. ExtendExpiry(c)' = ExtendExpiry(c) /\ ExtendExpiry(c) \in Int
          BY <1>0, <4>1, DriftType DEF ExtendExpiry
        <4> QED
          BY <1>0, <3>1, <4>1, <4>2, <4>3
      <3> QED
        BY <3>1, <3>2, <3>3
    <2> QED
      BY <2>2, <2>3
  <1> QED
    BY <1>1, <1>2

\* The invariant behind the alarm is inductive, beside IInv.
LEMMA AlarmInvStep ==
  ASSUME OneReleaseEach, IInv, [Next]_vars, \A c \in Client : AlarmInv(c), NEW c \in Client
  PROVE  AlarmInv(c)'
  <1>0. /\ TypeOK /\ Commands(c) /\ AlarmInv(c) /\ ReleasedOnce(c) /\ Resources[c] # {}
        /\ ClientStep(c) \/ Same(c)
    BY StepShape DEF IInv, AlarmInv, OneReleaseEach
  <1>1. ReleasedOnce(c)'
    <2>1. CASE Same(c)
      <3>1. calls[c].release \in Nat /\ calls'[c].release >= calls[c].release
        BY <1>0, CountStep
      <3>2. calls'[c].release \in Nat
        <4>1. TypeOK'
          BY <1>0, TypeStep
        <4> QED
          BY <4>1 DEF TypeOK
      <3> QED
        BY <1>0, <2>1, <3>1, <3>2 DEF Same, ReleasedOnce, OnlyRelease, Awaiting
    <2> QED
      BY <1>0, <2>1, ReleasedOnceStep
  <1>2. ASSUME "noscript" \notin FaultKinds PROVE InOrder(c)'
    <2>1. InOrder(c)
      BY <1>0, <1>2 DEF AlarmInv
    <2>2. CASE Same(c)
      <3>1. \A n \in Node : pc[c] = "releasing" /\ vote[c][n] = "against" => Gone(c, n)'
        BY <1>0, <2>1, GoneStep DEF InOrder, After
      <3> QED
        BY <2>1, <2>2, <3>1 DEF Same, InOrder
    <2> QED
      BY <1>0, <1>2, <2>1, <2>2, InOrderStep
  <1>3. ExtendTtls = {} => ~ext'[c].on
    BY <1>0, StageOrigins DEF AlarmInv, Same
  <1>4. ReleaseBacked(c)' /\ AlarmReal(c)'
    BY <1>0, ReleaseBackedStep, AlarmRealStep
  <1> QED
    BY <1>1, <1>2, <1>3, <1>4 DEF AlarmInv

\* A release that reports success: false never does so for a lease that still runs,
\* if it was the only release of its lock, and no NOSCRIPT reorders what an
\* extension relies on: clocks within ClockSkew, and whatever else the nodes do.
THEOREM TheftAlarmsAreReal ==
  ASSUME OneReleaseEach
  PROVE  Spec => []TheftAlarmIsReal
  <1> DEFINE J == \A c \in Client : AlarmInv(c)
  <1>1. Init => J
    <2> SUFFICES ASSUME Init, NEW c \in Client PROVE AlarmInv(c)
      OBVIOUS
    <2>1. /\ pc[c] = "idle" /\ ~ext[c].on
          /\ \A n \in Node : conn[c][n] = <<>> /\ Len(conn[c][n]) = 0
      BY EmptySeq DEF Init, NoExtend
    <2>2. \A n \in Node : \A i \in 1..Len(conn[c][n]) : FALSE
      BY <2>1
    <2> QED
      BY <2>1, <2>2 DEF AlarmInv, ReleasedOnce, After, InOrder, Sorted, ReleaseBacked, AlarmReal
  <1>2. IInv /\ J /\ [Next]_vars => J'
    BY AlarmInvStep
  <1>3. J => TheftAlarmIsReal
    BY DEF AlarmInv, AlarmReal, TheftAlarmIsReal
  <1> HIDE DEF J
  <1> QED
    BY <1>1, <1>2, <1>3, Invariance, PTL DEF Spec
=============================================================================
