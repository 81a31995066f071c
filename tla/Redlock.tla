------------------------------ MODULE Redlock ------------------------------
(***************************************************************************)
(* The pessimistic distributed lock of redlock-toolkit: acquire(), the     *)
(* Lock object's extend() and release(), the consensus round every one of  *)
(* them runs, the cleanup round that follows a failed acquire, and the Lua *)
(* scripts the rounds execute on independent Redis nodes.                  *)
(*                                                                         *)
(* A client stands for one acquire() call and the Lock it returns: each    *)
(* call draws a fresh random identifier, so the client's name is that      *)
(* identifier.  A toolkit sends the commands of a client to a node over    *)
(* one connection, which delivers them in the order they were sent.        *)
(* operationTimeout only stops WAITING for a command: the command stays in *)
(* the connection and runs later (Consensus).                              *)
(***************************************************************************)
EXTENDS Consensus

CONSTANTS
  Client,      \* acquire() calls and the locks they return
  Key,         \* lock keys
  Resources,   \* Resources[c]: the keys that call c locks together
  NoClient,    \* what GET returns for a key that does not exist
  Ttl,         \* options.ttl of acquire()
  ExtendTtls,  \* the ttl arguments that extend() is called with
  DriftNum, DriftDen,   \* driftFactor = DriftNum / DriftDen
  ClockSkew    \* the most a node's clock gains on a client's over one lease

CONSTANTS      \* bounds of the model, not of the code
  MaxAttempts, \* MaxAttempts[c]: retryCount + 1 of call c
  MaxExtends,  \* MaxExtends[c]: calls of extend() on lock c
  MaxReleases, \* MaxReleases[c]: calls of release() on lock c that reach Redis
  MaxTime,     \* the clock stops there
  FaultKinds,  \* which of "timeout", "disconnect", "noscript", "open" may occur
  MaxFaults    \* how many of them may occur

ASSUME ClientAssumption ==
  /\ NoClient \notin Client
  /\ Resources \in [Client -> SUBSET Key]

ASSUME TimeAssumption ==
  /\ Ttl \in Nat
  /\ ExtendTtls \subseteq Nat
  /\ DriftNum \in Nat
  /\ DriftDen \in Nat \ {0}
  /\ ClockSkew \in Nat

ASSUME BoundAssumption ==
  /\ MaxAttempts \in [Client -> Nat]
  /\ MaxExtends \in [Client -> Nat]
  /\ MaxReleases \in [Client -> Nat]
  /\ MaxTime \in Nat
  /\ MaxFaults \in Nat

VARIABLES
  now,        \* Date.now()
  store,      \* store[n][k]: the value of key k on node n and when it expires
  conn,       \* conn[c][n]: commands of c that node n has not executed yet
  pc,         \* pc[c]: where the call, or the lock it returned, stands
  attempts,   \* attempts[c]: attempts begun by the acquire loop
  start,      \* start[c]: lastAttemptStart while an attempt is running
  vote,       \* vote[c][n]: outcome of the current acquire/cleanup/release round
  expiration, \* expiration[c]: Lock._expiration
  ext,        \* ext[c]: the extend() call in progress, if any
  calls,      \* calls[c]: how often extend() and release() went to Redis
  faults,     \* faults injected so far
  overtaken   \* overtaken[c]: a conflicting lock was granted before c called release()

vars == <<now, store, conn, pc, attempts, start, vote, expiration, ext, calls,
          faults, overtaken>>

(***************************************************************************)
(* Values.                                                                 *)
(***************************************************************************)
\* Math.round(driftFactor * ttl) + 2
Drift(ttl) == (2 * DriftNum * ttl + DriftDen) \div (2 * DriftDen) + 2

Ttls == {Ttl} \union ExtendTtls

Entry == [holder : Client \union {NoClient}, expiry : Nat]
Free == [holder |-> NoClient, expiry |-> 0]

\* A command is live while the round that sent it still waits for its answer;
\* sha says it is sent as EVALSHA, which a node may answer with NOSCRIPT.
Op == {"acquire", "extend", "cleanup", "release"}
Cmd == [op : Op, ttl : Nat, live : BOOLEAN, sha : BOOLEAN]
Evalsha(op, ttl) == [op |-> op, ttl |-> ttl, live |-> TRUE, sha |-> TRUE]
Cleanup == [op |-> "cleanup", ttl |-> 0, live |-> TRUE, sha |-> FALSE]

NoExtend == [on |-> FALSE, start |-> 0, ttl |-> 0, vote |-> NoVotes]

\* "late" and "failed" end a call that throws; "notHeld" ends a release that
\* returns success: false; "unreleased" is a lock whose release() threw.
PC == {"idle", "acquiring", "cleaning", "backoff", "held", "late", "failed",
       "releasing", "unreleased", "released", "notHeld"}

\* !_released && !isExpired, for a lock whose owner has not called release().
Valid(c) == pc[c] = "held" /\ now < expiration[c]

\* Lock exists and has not been released, the guard of Lock.extend().
Unreleased(c) == pc[c] \in {"held", "releasing", "unreleased"}

Conflict(c, d) == c # d /\ Resources[c] \intersect Resources[d] # {}

(***************************************************************************)
(* Consensus rounds.                                                       *)
(***************************************************************************)
\* The breaker of a node in refused rejects the operation before it is sent.
Refused == IF "open" \in FaultKinds THEN SUBSET Node ELSE {{}}

Fault(kind) == kind \in FaultKinds /\ faults < MaxFaults /\ faults' = faults + 1

Refuse(refused) ==
  /\ faults + Cardinality(refused) <= MaxFaults
  /\ faults' = faults + Cardinality(refused)

\* The rounds of acquire() and release(), beside which an extension may run.
MainOps == {"acquire", "cleanup", "release"}

(***************************************************************************)
(* Lua scripts.  Each reads and writes the store of one node atomically.   *)
(***************************************************************************)
Owns(c, n, k) == store[n][k].holder = c

\* Mutation: SET without PX; the key never expires, and PTTL answers -1.
WrittenForever(c, n, ttl) ==
  [k \in Key |-> IF k \in Resources[c] THEN [holder |-> c, expiry |-> -1] ELSE store[n][k]]

\* SET key identifier PX ttl, on every key of c
Written(c, n, ttl) ==
  [k \in Key |-> IF k \in Resources[c] THEN [holder |-> c, expiry |-> now + ttl]
                 ELSE store[n][k]]

\* DEL of the keys of c that still hold its identifier
Deleted(c, n) ==
  [k \in Key |-> IF k \in Resources[c] /\ Owns(c, n, k) THEN Free ELSE store[n][k]]

\* Mutation: one free key is enough to take them all.
AnyKeyFree(c, n) == \E k \in Resources[c] : store[n][k].holder \in {NoClient, c}
\* Mutation: extend without the ownership check.
ExtendUnchecked(c, n) == TRUE

AcquireGranted(c, n) ==
  \A k \in Resources[c] : store[n][k].holder \in {NoClient, c}
ExtendGranted(c, n) == \A k \in Resources[c] : Owns(c, n, k)
ReleaseGranted(c, n) == \E k \in Resources[c] : Owns(c, n, k)

Head1(c, n, op) == conn[c][n] # <<>> /\ Head(conn[c][n]).op = op
Pop(c, n) == conn' = [conn EXCEPT ![c][n] = Tail(@)]

\* A live command's answer reaches the round that waits for it.
Answer(c, n, granted) ==
  IF Head(conn[c][n]).live
  THEN vote' = [vote EXCEPT ![c][n] = IF granted THEN "for" ELSE "against"]
  ELSE UNCHANGED vote

RunAcquire(c, n) ==
  /\ Head1(c, n, "acquire")
  /\ store' = [store EXCEPT ![n] = IF AcquireGranted(c, n)
                                   THEN Written(c, n, Head(conn[c][n]).ttl) ELSE @]
  /\ Answer(c, n, AcquireGranted(c, n))
  /\ Pop(c, n)
  /\ UNCHANGED <<now, pc, attempts, start, expiration, ext, calls, faults, overtaken>>

RunExtend(c, n) ==
  /\ Head1(c, n, "extend")
  /\ store' = [store EXCEPT ![n] = IF ExtendGranted(c, n)
                                   THEN Written(c, n, Head(conn[c][n]).ttl) ELSE @]
  /\ ext' = IF Head(conn[c][n]).live
            THEN [ext EXCEPT ![c].vote[n] = IF ExtendGranted(c, n) THEN "for" ELSE "against"]
            ELSE ext
  /\ Pop(c, n)
  /\ UNCHANGED <<now, pc, attempts, start, vote, expiration, calls, faults, overtaken>>

\* The cleanup round runs the release script too.
RunRelease(c, n) ==
  /\ Head1(c, n, "release") \/ Head1(c, n, "cleanup")
  /\ store' = [store EXCEPT ![n] = Deleted(c, n)]
  /\ Answer(c, n, ReleaseGranted(c, n))
  /\ Pop(c, n)
  /\ UNCHANGED <<now, pc, attempts, start, expiration, ext, calls, faults, overtaken>>

\* The node answers NOSCRIPT, and the client sends the script's source with
\* EVAL: the command goes to the end of the connection.
NoScript(c, n) ==
  /\ conn[c][n] # <<>> /\ Head(conn[c][n]).sha
  /\ Fault("noscript")
  /\ conn' = [conn EXCEPT ![c][n] = Append(Tail(@), [Head(@) EXCEPT !.sha = FALSE])]
  /\ UNCHANGED <<now, store, pc, attempts, start, vote, expiration, ext, calls, overtaken>>

(***************************************************************************)
(* acquire(): PessimisticLockStrategy.acquire.                             *)
(***************************************************************************)
StartAttempt(c) ==
  \E refused \in Refused :
    /\ pc[c] \in {"idle", "backoff"}
    /\ attempts[c] < MaxAttempts[c]
    /\ Refuse(refused)
    /\ pc' = [pc EXCEPT ![c] = "acquiring"]
    /\ attempts' = [attempts EXCEPT ![c] = @ + 1]
    /\ start' = [start EXCEPT ![c] = now]
    /\ vote' = [vote EXCEPT ![c] = Opening(refused)]
    /\ conn' = [conn EXCEPT ![c] = Send(@, Evalsha("acquire", Ttl), refused)]
    /\ UNCHANGED <<now, store, expiration, ext, calls, overtaken>>

\* Mutation: the lease counts from the decision, not from the attempt.
AcquireExpiryFromNow(c) == now + Ttl - Drift(Ttl)
\* Mutation: no check for a lease already used up.
NeverLate(c) == TRUE

\* lastAttemptStart + ttl - drift, and whether that is still ahead
AcquireExpiry(c) == start[c] + Ttl - Drift(Ttl)
InTime(c) == now < AcquireExpiry(c)

\* The quorum is reached: the round returns without its stragglers.  A lease
\* that the round has already used up is thrown away, and nothing is released.
AcquireSucceeds(c) ==
  /\ pc[c] = "acquiring"
  /\ Quorum(vote[c])
  /\ pc' = [pc EXCEPT ![c] = IF InTime(c) THEN "held" ELSE "late"]
  /\ expiration' = [expiration EXCEPT ![c] = IF InTime(c) THEN AcquireExpiry(c) ELSE @]
  /\ overtaken' = [d \in Client |->
       overtaken[d] \/ (InTime(c) /\ pc[d] = "held" /\ Conflict(c, d))]
  /\ start' = [start EXCEPT ![c] = 0]
  /\ vote' = [vote EXCEPT ![c] = NoVotes]
  /\ conn' = [conn EXCEPT ![c] = AbandonAll(@, MainOps)]
  /\ UNCHANGED <<now, store, attempts, ext, calls, faults>>

\* No quorum, every node settled.  When every node was refused by its breaker
\* the error is not retryable and not a ConsensusError: no cleanup, no retry.
AcquireRefused(c) ==
  /\ pc[c] = "acquiring"
  /\ With(vote[c], "open") = Node
  /\ pc' = [pc EXCEPT ![c] = "failed"]
  /\ start' = [start EXCEPT ![c] = 0]
  /\ vote' = [vote EXCEPT ![c] = NoVotes]
  /\ conn' = [conn EXCEPT ![c] = AbandonAll(@, MainOps)]
  /\ UNCHANGED <<now, store, attempts, expiration, ext, calls, faults, overtaken>>

\* Mutation: cleanup of the confirmed voters only.
CleanVotersOnly(c) ==
  /\ pc[c] = "acquiring"
  /\ NoQuorum(vote[c])
  /\ pc' = [pc EXCEPT ![c] = "cleaning"]
  /\ start' = [start EXCEPT ![c] = 0]
  /\ vote' = [vote EXCEPT ![c] = Opening(Node \ With(vote[c], "for"))]
  /\ conn' = [conn EXCEPT ![c] =
       Send(AbandonAll(@, MainOps), Cleanup, Node \ With(vote[c], "for"))]
  /\ UNCHANGED <<now, store, attempts, expiration, ext, calls, faults, overtaken>>

\* Otherwise executeWithConsensus runs the release script on ALL nodes.
AcquireFails(c) ==
  \E refused \in Refused :
    /\ pc[c] = "acquiring"
    /\ NoQuorum(vote[c])
    /\ With(vote[c], "open") # Node
    /\ Refuse(refused)
    /\ pc' = [pc EXCEPT ![c] = "cleaning"]
    /\ start' = [start EXCEPT ![c] = 0]
    /\ vote' = [vote EXCEPT ![c] = Opening(refused)]
    /\ conn' = [conn EXCEPT ![c] = Send(AbandonAll(@, MainOps), Cleanup, refused)]
    /\ UNCHANGED <<now, store, attempts, expiration, ext, calls, overtaken>>

\* Promise.all over the cleanup commands, whose errors are only logged.
CleanupDone(c) ==
  /\ pc[c] = "cleaning"
  /\ With(vote[c], "pending") = {}
  /\ pc' = [pc EXCEPT ![c] = IF attempts[c] < MaxAttempts[c] THEN "backoff" ELSE "failed"]
  /\ vote' = [vote EXCEPT ![c] = NoVotes]
  /\ conn' = [conn EXCEPT ![c] = AbandonAll(@, MainOps)]
  /\ UNCHANGED <<now, store, attempts, start, expiration, ext, calls, faults, overtaken>>

(***************************************************************************)
(* Lock.extend() and extendLock.                                           *)
(***************************************************************************)
StartExtend(c) ==
  \E ttl \in ExtendTtls, refused \in Refused :
    /\ Unreleased(c) /\ now < expiration[c]
    /\ ~ext[c].on
    /\ calls[c].extend < MaxExtends[c]
    /\ Refuse(refused)
    /\ calls' = [calls EXCEPT ![c].extend = @ + 1]
    /\ ext' = [ext EXCEPT ![c] = [on |-> TRUE, start |-> now, ttl |-> ttl,
                                  vote |-> Opening(refused)]]
    /\ conn' = [conn EXCEPT ![c] = Send(@, Evalsha("extend", ttl), refused)]
    /\ UNCHANGED <<now, store, pc, attempts, start, vote, expiration, overtaken>>

\* Mutation: the extension counts from its success.
ExtendExpiryFromNow(c) == now + ext[c].ttl - Drift(ext[c].ttl)

\* startTime + ttl - drift
ExtendExpiry(c) == ext[c].start + ext[c].ttl - Drift(ext[c].ttl)

\* The lock takes the new expiration whatever has happened to it meanwhile.
ExtendSucceeds(c) ==
  /\ ext[c].on
  /\ Quorum(ext[c].vote)
  /\ expiration' = [expiration EXCEPT ![c] = ExtendExpiry(c)]
  /\ ext' = [ext EXCEPT ![c] = NoExtend]
  /\ conn' = [conn EXCEPT ![c] = AbandonAll(@, {"extend"})]
  /\ UNCHANGED <<now, store, pc, attempts, start, vote, calls, faults, overtaken>>

\* extend() throws; the nodes that did extend keep the new TTL, and
\* _expiration keeps the old one.
ExtendFails(c) ==
  /\ ext[c].on
  /\ NoQuorum(ext[c].vote)
  /\ ext' = [ext EXCEPT ![c] = NoExtend]
  /\ conn' = [conn EXCEPT ![c] = AbandonAll(@, {"extend"})]
  /\ UNCHANGED <<now, store, pc, attempts, start, vote, expiration, calls, faults, overtaken>>

(***************************************************************************)
(* Lock.release() and releaseLockInternal.  Concurrent calls share one     *)
(* promise; a call on a lock already released does not reach Redis.        *)
(***************************************************************************)
StartRelease(c) ==
  \E refused \in Refused :
    /\ pc[c] \in {"held", "unreleased"}
    /\ calls[c].release < MaxReleases[c]
    /\ Refuse(refused)
    /\ calls' = [calls EXCEPT ![c].release = @ + 1]
    /\ pc' = [pc EXCEPT ![c] = "releasing"]
    /\ vote' = [vote EXCEPT ![c] = Opening(refused)]
    /\ conn' = [conn EXCEPT ![c] = Send(@, Evalsha("release", 0), refused)]
    /\ UNCHANGED <<now, store, attempts, start, expiration, ext, overtaken>>

EndRelease(c, outcome) ==
  /\ pc' = [pc EXCEPT ![c] = outcome]
  /\ vote' = [vote EXCEPT ![c] = NoVotes]
  /\ conn' = [conn EXCEPT ![c] = AbandonAll(@, MainOps)]
  /\ UNCHANGED <<now, store, attempts, start, expiration, ext, calls, faults, overtaken>>

\* Only a node that deleted a key votes for.
ReleaseSucceeds(c) ==
  /\ pc[c] = "releasing"
  /\ Quorum(vote[c])
  /\ EndRelease(c, "released")

\* Mutation: a node that answered nothing counts as one that answered 0.
ErrorsAreNotHeld(c) ==
  /\ pc[c] = "releasing"
  /\ NoQuorum(vote[c])
  /\ Cardinality(Node \ With(vote[c], "for")) >= QuorumSize
  /\ EndRelease(c, "notHeld")

\* A quorum of nodes answered 0: success: false, and the lock is released.
ReleaseNotHeld(c) ==
  /\ pc[c] = "releasing"
  /\ NoQuorum(vote[c])
  /\ Cardinality(With(vote[c], "against")) >= QuorumSize
  /\ EndRelease(c, "notHeld")

\* Mutation: only an explicit 0 lets a release end with an error.
ReleaseFailsOnZero(c) ==
  /\ pc[c] = "releasing"
  /\ NoQuorum(vote[c])
  /\ Cardinality(With(vote[c], "against")) \in 1..(QuorumSize - 1)
  /\ EndRelease(c, "unreleased")

\* Anything else throws, and the caller may call release() again.
ReleaseFails(c) ==
  /\ pc[c] = "releasing"
  /\ NoQuorum(vote[c])
  /\ Cardinality(With(vote[c], "against")) < QuorumSize
  /\ EndRelease(c, "unreleased")

(***************************************************************************)
(* The environment: operationTimeout, connections, key expiry, the clock.  *)
(***************************************************************************)
\* Mutation: the cleanup commands bypass the breaker and its operationTimeout.
TimeoutUnlessCleaning(c, n) ==
  /\ pc[c] # "cleaning" /\ vote[c][n] = "pending"
  /\ Fault("timeout")
  /\ vote' = [vote EXCEPT ![c][n] = "error"]
  /\ conn' = [conn EXCEPT ![c][n] = Abandon(@, MainOps)]
  /\ UNCHANGED <<now, store, pc, attempts, start, expiration, ext, calls, overtaken>>

\* The breaker stops waiting: the round counts an error, the command remains.
Timeout(c, n) ==
  /\ vote[c][n] = "pending"
  /\ Fault("timeout")
  /\ vote' = [vote EXCEPT ![c][n] = "error"]
  /\ conn' = [conn EXCEPT ![c][n] = Abandon(@, MainOps)]
  /\ UNCHANGED <<now, store, pc, attempts, start, expiration, ext, calls, overtaken>>

\* Mutation: release() clears the timers of an extension under way.
ExtendTimeoutWhileHeld(c, n) ==
  /\ pc[c] = "held" /\ ext[c].vote[n] = "pending"
  /\ Fault("timeout")
  /\ ext' = [ext EXCEPT ![c].vote[n] = "error"]
  /\ conn' = [conn EXCEPT ![c][n] = Abandon(@, {"extend"})]
  /\ UNCHANGED <<now, store, pc, attempts, start, vote, expiration, calls, overtaken>>

ExtendTimeout(c, n) ==
  /\ ext[c].vote[n] = "pending"
  /\ Fault("timeout")
  /\ ext' = [ext EXCEPT ![c].vote[n] = "error"]
  /\ conn' = [conn EXCEPT ![c][n] = Abandon(@, {"extend"})]
  /\ UNCHANGED <<now, store, pc, attempts, start, vote, expiration, calls, overtaken>>

\* The connection drops: what it carried is lost, whoever waits gets an error.
Disconnect(c, n) ==
  /\ conn[c][n] # <<>>
  /\ Fault("disconnect")
  /\ conn' = [conn EXCEPT ![c][n] = <<>>]
  /\ vote' = [vote EXCEPT ![c][n] = IF @ = "pending" THEN "error" ELSE @]
  /\ ext' = [ext EXCEPT ![c].vote[n] = IF @ = "pending" THEN "error" ELSE @]
  /\ UNCHANGED <<now, store, pc, attempts, start, expiration, calls, overtaken>>

\* A node's clock passes the expiry of key k: every key due by then is gone.  It
\* may be up to ClockSkew ahead of the clients' clock, and arbitrarily behind.
Expire(n, k) ==
  /\ store[n][k].holder # NoClient
  /\ now + ClockSkew >= store[n][k].expiry
  /\ store' = [store EXCEPT ![n] = [j \in Key |->
       IF store[n][j].expiry <= store[n][k].expiry THEN Free ELSE store[n][j]]]
  /\ UNCHANGED <<now, conn, pc, attempts, start, vote, expiration, ext, calls, faults,
                 overtaken>>

Tick ==
  /\ now < MaxTime
  /\ now' = now + 1
  /\ UNCHANGED <<store, conn, pc, attempts, start, vote, expiration, ext, calls, faults,
                 overtaken>>

(***************************************************************************)
(* The specification.                                                      *)
(***************************************************************************)
Init ==
  /\ now = 0
  /\ store = [n \in Node |-> [k \in Key |-> Free]]
  /\ conn = [c \in Client |-> [n \in Node |-> <<>>]]
  /\ pc = [c \in Client |-> "idle"]
  /\ attempts = [c \in Client |-> 0]
  /\ start = [c \in Client |-> 0]
  /\ vote = [c \in Client |-> NoVotes]
  /\ expiration = [c \in Client |-> 0]
  /\ ext = [c \in Client |-> NoExtend]
  /\ calls = [c \in Client |-> [extend |-> 0, release |-> 0]]
  /\ faults = 0
  /\ overtaken = [c \in Client |-> FALSE]

Decide(c) ==
  \/ AcquireSucceeds(c) \/ AcquireRefused(c) \/ AcquireFails(c) \/ CleanupDone(c)
  \/ ExtendSucceeds(c) \/ ExtendFails(c)
  \/ ReleaseSucceeds(c) \/ ReleaseNotHeld(c) \/ ReleaseFails(c)

Serve(c, n) ==
  \/ RunAcquire(c, n) \/ RunExtend(c, n) \/ RunRelease(c, n)
  \/ NoScript(c, n) \/ Disconnect(c, n)
  \/ Timeout(c, n) \/ ExtendTimeout(c, n)

Next ==
  \/ \E c \in Client : StartAttempt(c) \/ StartExtend(c) \/ StartRelease(c) \/ Decide(c)
  \/ \E c \in Client, n \in Node : Serve(c, n)
  \/ \E n \in Node, k \in Key : Expire(n, k)
  \/ Tick

Spec == Init /\ [][Next]_vars

\* Timers fire and continuations run; no node is assumed to answer.
Fairness ==
  \A c \in Client :
    /\ WF_vars(StartAttempt(c))
    /\ WF_vars(Decide(c))
    /\ \A n \in Node : WF_vars(Timeout(c, n)) /\ WF_vars(ExtendTimeout(c, n))

FairSpec == Spec /\ Fairness

(***************************************************************************)
(* Properties.                                                             *)
(***************************************************************************)
ExtendCall == [on : BOOLEAN, start : Nat, ttl : Nat, vote : [Node -> Vote]]

\* Every variable stays within its type; the ttl of a command and of a call is
\* one that acquire() or extend() was given.
TypeOK ==
  /\ now \in Nat
  /\ store \in [Node -> [Key -> Entry]]
  /\ conn \in [Client -> [Node -> Seq(Cmd)]]
  /\ pc \in [Client -> PC]
  /\ attempts \in [Client -> Nat]
  /\ start \in [Client -> Nat]
  /\ vote \in [Client -> [Node -> Vote]]
  /\ expiration \in [Client -> Int]
  /\ ext \in [Client -> ExtendCall]
  /\ calls \in [Client -> [extend : Nat, release : Nat]]
  /\ faults \in Nat
  /\ overtaken \in [Client -> BOOLEAN]

\* Two locks whose resources overlap are never valid at the same time: between
\* acquire() and release(), and until its expiration, a lock is its owner's
\* alone (docs/redlock-algorithm.md, "Core Guarantees").
MutualExclusion ==
  \A c, d \in Client : Valid(c) /\ Valid(d) => ~Conflict(c, d)

\* A release that reports success: false ("the lock expired or was acquired by
\* another owner", releaseLockInternal) never does so for a lease that still runs.
TheftAlarmIsReal ==
  \A c \in Client : pc[c] = "notHeld" => now >= expiration[c]

\* A release that reports success was not preceded by the grant of the same
\* resource to another lock ("treating 0 as success would mask lock theft").
ReleaseConfirmsExclusivity ==
  \A c \in Client : pc[c] = "released" => ~overtaken[c]

\* Once everything a finished call sent has been executed, none of its keys is
\* left: the cleanup of a failed acquire and the release of a lock also cover
\* the commands that timed out (ConsensusManager.execute, executeWithConsensus).
FinishedCallLeavesNoKey ==
  \A c \in Client :
    /\ pc[c] \in {"failed", "released", "notHeld"}
    /\ \A n \in Node : conn[c][n] = <<>>
    => \A n \in Node, k \in Key : ~Owns(c, n, k)

\* acquire() settles, whatever the nodes do: with a lock or with an error.
AcquireSettles ==
  \A c \in Client : (pc[c] = "acquiring") ~> (pc[c] \notin {"acquiring", "cleaning", "backoff"})

\* So do extend() and release().
ExtendSettles == \A c \in Client : ext[c].on ~> ~ext[c].on
ReleaseSettles == \A c \in Client : (pc[c] = "releasing") ~> (pc[c] # "releasing")
=============================================================================
