----------------------------- MODULE Semaphore -----------------------------
(***************************************************************************)
(* The counting semaphore: SemaphoreStrategy, the SemaphorePermit it       *)
(* returns, and the Lua scripts over the sorted set of permits that every  *)
(* node keeps, whose scores are the times at which the permits lapse.      *)
(*                                                                         *)
(* A client is one acquire() call and its permit.  Scripts read the node's *)
(* own TIME; the nodes' clocks run at the clients' rate, and only          *)
(* differences of times matter, so now serves for all of them.             *)
(***************************************************************************)
EXTENDS Consensus

CONSTANTS
  Client,      \* acquire() calls and their permits
  MaxPermits,  \* options.maxPermits, the same for every caller
  Ttl,         \* Ttl[c]: options.ttl of call c, and what its extend() asks for
  Drift,       \* Math.round(driftFactor * ttl) + 2
  ReadNode,    \* getClientForRead(): the first node
  Refusals,    \* sets of nodes whose breakers may be open when a round begins
  Unloaded     \* Unloaded[n]: operations whose script node n may not have in its cache

CONSTANTS      \* bounds of the model, not of the code
  MaxAttempts, \* MaxAttempts[c]: retryCount + 1 of call c
  MaxExtends,  \* MaxExtends[c]: calls of extend() on permit c
  MaxReleases, \* MaxReleases[c]: calls of release() on permit c
  MaxTime,
  MaxFaults    \* MaxFaults[c]: how often operationTimeout passes for a command of c, or
               \* breakers refuse a round of c

ASSUME PermitAssumption ==
  /\ IsFiniteSet(Client)
  /\ MaxPermits \in Nat \ {0}
  /\ Ttl \in [Client -> Nat \ {0}]
  /\ Drift \in Nat
  /\ ReadNode \in Node
  /\ Refusals \subseteq SUBSET Node
  /\ Unloaded \in [Node -> SUBSET {"acquire", "extend", "release"}]
  /\ {MaxAttempts, MaxExtends, MaxReleases, MaxFaults} \subseteq [Client -> Nat]
  /\ MaxTime \in Nat

VARIABLES
  now,        \* Date.now() and TIME
  score,      \* score[n][c]: score of c's permit in the set of node n, 0 if absent
  keyExpiry,  \* keyExpiry[n]: when the TTL of the whole set runs out
  conn,       \* conn[c][n]: commands of c that node n has not executed yet
  pc,         \* pc[c]: where the call, or the permit it returned, stands
  vote,       \* vote[c][n]: answer in the current acquire/cleanup/release round of c
  ext,        \* ext[c]: the extend() call in progress, if any
  began,      \* history: when the round that set the expiration began
  expiration, \* expiration[c]: SemaphorePermit._expiration
  calls,      \* calls[c]: attempts, extensions and releases so far
  faults,     \* faults[c]: faults injected into the rounds of c so far
  resent      \* history: resent[c][n], the current or last round of c has seen an
              \* acquire of c sent to n again, behind the deletion that was to undo it

vars == <<now, score, keyExpiry, conn, pc, vote, ext, began, expiration, calls,
          faults, resent>>

NoExtend == [on |-> FALSE, began |-> 0, vote |-> NoVotes]

\* "unreleased" is a permit whose release() threw: _released is still false.
PC == {"idle", "acquiring", "cleaning", "backoff", "held", "failed",
       "releasing", "unreleased", "released"}

\* sha: the script was sent by its hash, with EVALSHA.  The cleanup sends its source.
Cmd == [op : {"acquire", "cleanup", "extend", "release"}, live : BOOLEAN, sha : BOOLEAN]
Command(op) == [op |-> op, live |-> TRUE, sha |-> op # "cleanup"]

\* isValid, for a permit whose owner has not called release().
Valid(c) == pc[c] = "held" /\ now < expiration[c]

\* ~_released /\ ~isExpired
Extensible(c) == pc[c] \in {"held", "releasing", "unreleased"} /\ now < expiration[c]

(***************************************************************************)
(* The scripts.                                                            *)
(***************************************************************************)
Nobody == [c \in Client |-> 0]
Members(s) == {c \in Client : s[c] # 0}

\* Node n stores the set s; the TTL of the key goes with the last member.
Store(n, s, expiry) ==
  /\ score' = [score EXCEPT ![n] = s]
  /\ keyExpiry' = [keyExpiry EXCEPT ![n] = IF Members(s) = {} THEN 0 ELSE expiry]

\* ZREMRANGEBYSCORE key -inf now
Purged(n) == [c \in Client |-> IF score[n][c] <= now THEN 0 ELSE score[n][c]]

\* Mutation: one permit too many.
OneMore(c, n) == Purged(n)[c] # 0 \/ Cardinality(Members(Purged(n))) <= MaxPermits

\* A holder may take its permit again.
AcquireGranted(c, n) ==
  Purged(n)[c] # 0 \/ Cardinality(Members(Purged(n))) < MaxPermits

\* Mutation: ZADD without looking for the permit.
ExtendAnyway(c, n) == TRUE

ExtendGranted(c, n) == score[n][c] # 0 /\ score[n][c] >= now

\* PEXPIRE key ttl * 2
SetLife(c) == 2 * Ttl[c]

Head1(c, n, op) == conn[c][n] # <<>> /\ Head(conn[c][n]).op = op
Pop(c, n) == conn' = [conn EXCEPT ![c][n] = Tail(@)]

Answer(c, n, outcome) ==
  IF Head(conn[c][n]).live THEN vote' = [vote EXCEPT ![c][n] = outcome]
  ELSE UNCHANGED vote

\* Taking a permit again renews its score, but not the TTL of the set.
RunAcquire(c, n) ==
  /\ Head1(c, n, "acquire")
  /\ Store(n, IF AcquireGranted(c, n) THEN [Purged(n) EXCEPT ![c] = now + Ttl[c]]
              ELSE Purged(n),
              IF AcquireGranted(c, n) /\ Purged(n)[c] = 0 THEN now + SetLife(c)
              ELSE keyExpiry[n])
  /\ Answer(c, n, IF AcquireGranted(c, n) THEN "for" ELSE "against")
  /\ Pop(c, n)
  /\ UNCHANGED <<now, pc, ext, began, expiration, calls, faults, resent>>

\* A permit that has lapsed is removed.
RunExtend(c, n) ==
  /\ Head1(c, n, "extend")
  /\ Store(n, [score[n] EXCEPT ![c] = IF ExtendGranted(c, n) THEN now + Ttl[c] ELSE 0],
              IF ExtendGranted(c, n) THEN now + SetLife(c) ELSE keyExpiry[n])
  /\ ext' = IF Head(conn[c][n]).live
            THEN [ext EXCEPT ![c].vote[n] = IF ExtendGranted(c, n) THEN "for" ELSE "against"]
            ELSE ext
  /\ Pop(c, n)
  /\ UNCHANGED <<now, pc, vote, began, expiration, calls, faults, resent>>

\* The release script, of release() and of the cleanup round.  release() counts
\* every answer as a vote for, whether or not there was a permit to remove.
RunRelease(c, n) ==
  /\ Head1(c, n, "release") \/ Head1(c, n, "cleanup")
  /\ Store(n, [Purged(n) EXCEPT ![c] = 0], keyExpiry[n])
  /\ Answer(c, n, "for")
  /\ Pop(c, n)
  /\ UNCHANGED <<now, pc, ext, began, expiration, calls, faults, resent>>

Deletes == {"cleanup", "release"}

\* The node answers NOSCRIPT, and executeScript sends the script's source with EVAL,
\* whether or not anyone still waits for the answer: the command goes to the end of
\* the connection, behind whatever c has sent since.
NoScript(c, n) ==
  /\ conn[c][n] # <<>> /\ Head(conn[c][n]).sha
  /\ Head(conn[c][n]).op \in Unloaded[n]
  /\ conn' = [conn EXCEPT ![c][n] = Append(Tail(@), [Head(@) EXCEPT !.sha = FALSE])]
  /\ resent' = [resent EXCEPT ![c][n] =
       @ \/ /\ Head(conn[c][n]).op = "acquire"
            /\ \E i \in 1..Len(Tail(conn[c][n])) : Tail(conn[c][n])[i].op \in Deletes]
  /\ UNCHANGED <<now, score, keyExpiry, pc, vote, ext, began, expiration, calls, faults>>

\* getStatus reads, and purges, the set of the first node.
GetStatus ==
  /\ Store(ReadNode, Purged(ReadNode), keyExpiry[ReadNode])
  /\ UNCHANGED <<now, conn, pc, vote, ext, began, expiration, calls, faults, resent>>

(***************************************************************************)
(* acquire().                                                              *)
(***************************************************************************)
Fault(c, n) == faults[c] + n <= MaxFaults[c] /\ faults' = [faults EXCEPT ![c] = @ + n]

MainOps == {"acquire", "cleanup", "release"}

\* A round of c that sends op, except to nodes whose breakers are open.
OpenRound(c, op, refused) ==
  /\ vote' = [vote EXCEPT ![c] = Opening(refused)]
  /\ conn' = [conn EXCEPT ![c] = Send(AbandonAll(@, MainOps), Command(op), refused)]
  /\ resent' = [resent EXCEPT ![c] = [n \in Node |-> FALSE]]
  /\ Fault(c, IF refused = {} THEN 0 ELSE 1)

\* Its end: the commands still under way are abandoned, and the votes are gone; kept, for
\* the properties, is which breakers refused it.
CloseRound(c, stage) ==
  /\ pc' = [pc EXCEPT ![c] = stage]
  /\ conn' = [conn EXCEPT ![c] = AbandonAll(@, MainOps)]
  /\ vote' = [vote EXCEPT ![c] = [n \in Node |-> IF @[n] = "open" THEN "open" ELSE "none"]]

StartAttempt(c) ==
  \E refused \in Refusals :
    /\ pc[c] \in {"idle", "backoff"}
    /\ calls[c].attempt < MaxAttempts[c]
    /\ OpenRound(c, "acquire", refused)
    /\ pc' = [pc EXCEPT ![c] = "acquiring"]
    /\ calls' = [calls EXCEPT ![c].attempt = @ + 1]
    /\ began' = [began EXCEPT ![c] = now]
    /\ UNCHANGED <<now, score, keyExpiry, ext, expiration>>

\* acquiredAt + ttl - drift: the permit's lease counts from the END of the round.
AcquireExpiry(c) == now + Ttl[c] - Drift

AcquireSucceeds(c) ==
  /\ pc[c] = "acquiring"
  /\ Quorum(vote[c])
  /\ CloseRound(c, "held")
  /\ expiration' = [expiration EXCEPT ![c] = AcquireExpiry(c)]
  /\ UNCHANGED <<now, score, keyExpiry, ext, began, calls, faults, resent>>

\* Every breaker was open: the error is not retryable, and there is no cleanup.
AcquireRefused(c) ==
  /\ pc[c] = "acquiring"
  /\ With(vote[c], "open") = Node
  /\ CloseRound(c, "failed")
  /\ UNCHANGED <<now, score, keyExpiry, ext, began, expiration, calls, faults, resent>>

\* Mutation: only the nodes that granted a permit are cleaned up.
CleanVotersOnly(c) ==
  /\ pc[c] = "acquiring"
  /\ NoQuorum(vote[c])
  /\ pc' = [pc EXCEPT ![c] = "cleaning"]
  /\ vote' = [vote EXCEPT ![c] = [n \in Node |-> IF @[n] = "for" THEN "pending" ELSE "error"]]
  /\ conn' = [conn EXCEPT ![c] = Send(@, Command("cleanup"), Node \ With(vote[c], "for"))]
  /\ UNCHANGED <<now, score, keyExpiry, ext, began, expiration, calls, faults, resent>>

\* A node answered "full", or a command failed: the permit is taken back on ALL nodes.
AcquireFails(c) ==
  \E refused \in Refusals :
    /\ pc[c] = "acquiring"
    /\ NoQuorum(vote[c])
    /\ With(vote[c], "open") # Node
    /\ OpenRound(c, "cleanup", refused)
    /\ pc' = [pc EXCEPT ![c] = "cleaning"]
    /\ UNCHANGED <<now, score, keyExpiry, ext, began, expiration, calls>>

\* Whether the semaphore was full or the round failed, the error is retryable.
CleanupDone(c) ==
  /\ pc[c] = "cleaning"
  /\ With(vote[c], "pending") = {}
  /\ CloseRound(c, IF calls[c].attempt < MaxAttempts[c] THEN "backoff" ELSE "failed")
  /\ UNCHANGED <<now, score, keyExpiry, ext, began, expiration, calls, faults, resent>>

(***************************************************************************)
(* SemaphorePermit.extend() and release().                                 *)
(***************************************************************************)
StartExtend(c) ==
  \E refused \in Refusals :
    /\ Extensible(c)
    /\ ~ext[c].on
    /\ calls[c].extend < MaxExtends[c]
    /\ calls' = [calls EXCEPT ![c].extend = @ + 1]
    /\ ext' = [ext EXCEPT ![c] = [on |-> TRUE, began |-> now, vote |-> Opening(refused)]]
    /\ conn' = [conn EXCEPT ![c] = Send(@, Command("extend"), refused)]
    /\ Fault(c, IF refused = {} THEN 0 ELSE 1)
    /\ UNCHANGED <<now, score, keyExpiry, pc, vote, began, expiration, resent>>

EndExtend(c) ==
  /\ ext' = [ext EXCEPT ![c] = NoExtend]
  /\ conn' = [conn EXCEPT ![c] = AbandonAll(@, {"extend"})]
  /\ UNCHANGED <<now, score, keyExpiry, pc, vote, calls, faults, resent>>

\* Date.now() + ttl, without drift
ExtendSucceeds(c) ==
  /\ ext[c].on
  /\ Quorum(ext[c].vote)
  /\ expiration' = [expiration EXCEPT ![c] = now + Ttl[c]]
  /\ began' = [began EXCEPT ![c] = ext[c].began]
  /\ EndExtend(c)

ExtendFails(c) ==
  /\ ext[c].on
  /\ NoQuorum(ext[c].vote)
  /\ UNCHANGED <<began, expiration>>
  /\ EndExtend(c)

StartRelease(c) ==
  \E refused \in Refusals :
    /\ pc[c] \in {"held", "unreleased"}
    /\ calls[c].release < MaxReleases[c]
    /\ OpenRound(c, "release", refused)
    /\ pc' = [pc EXCEPT ![c] = "releasing"]
    /\ calls' = [calls EXCEPT ![c].release = @ + 1]
    /\ UNCHANGED <<now, score, keyExpiry, ext, began, expiration>>

\* _released is set when the round is over; when it throws the permit stays as it was.
EndRelease(c) ==
  /\ pc[c] = "releasing"
  /\ \/ Quorum(vote[c]) /\ CloseRound(c, "released")
     \/ NoQuorum(vote[c]) /\ CloseRound(c, "unreleased")
  /\ UNCHANGED <<now, score, keyExpiry, ext, began, expiration, calls, faults, resent>>

(***************************************************************************)
(* operationTimeout and the clock.                                         *)
(***************************************************************************)
Timeout(c, n) ==
  /\ vote[c][n] = "pending"
  /\ Fault(c, 1)
  /\ vote' = [vote EXCEPT ![c][n] = "error"]
  /\ conn' = [conn EXCEPT ![c][n] = Abandon(@, MainOps)]
  /\ UNCHANGED <<now, score, keyExpiry, pc, ext, began, expiration, calls, resent>>

ExtendTimeout(c, n) ==
  /\ ext[c].vote[n] = "pending"
  /\ Fault(c, 1)
  /\ ext' = [ext EXCEPT ![c].vote[n] = "error"]
  /\ conn' = [conn EXCEPT ![c][n] = Abandon(@, {"extend"})]
  /\ UNCHANGED <<now, score, keyExpiry, pc, vote, began, expiration, calls, resent>>

\* What remains of a set when its node's clock shows t: nothing once the TTL of the
\* key is over.  A permit whose time is past goes too, since every script that comes
\* upon it removes it first.
At(n, t) == [c \in Client |-> IF t >= keyExpiry[n] \/ score[n][c] < t THEN 0 ELSE score[n][c]]

Tick ==
  /\ now < MaxTime
  /\ now' = now + 1
  /\ score' = [n \in Node |-> At(n, now + 1)]
  /\ keyExpiry' = [n \in Node |-> IF Members(At(n, now + 1)) = {} THEN 0 ELSE keyExpiry[n]]
  /\ UNCHANGED <<conn, pc, vote, ext, began, expiration, calls, faults, resent>>

(***************************************************************************)
(* The specification.                                                      *)
(***************************************************************************)
Init ==
  /\ now = 0
  /\ score = [n \in Node |-> Nobody]
  /\ keyExpiry = [n \in Node |-> 0]
  /\ conn = [c \in Client |-> [n \in Node |-> <<>>]]
  /\ pc = [c \in Client |-> "idle"]
  /\ vote = [c \in Client |-> NoVotes]
  /\ ext = [c \in Client |-> NoExtend]
  /\ began = [c \in Client |-> 0]
  /\ expiration = [c \in Client |-> 0]
  /\ calls = [c \in Client |-> [attempt |-> 0, extend |-> 0, release |-> 0]]
  /\ faults = [c \in Client |-> 0]
  /\ resent = [c \in Client |-> [n \in Node |-> FALSE]]

Next ==
  \/ \E c \in Client :
       \/ StartAttempt(c) \/ AcquireSucceeds(c) \/ AcquireRefused(c)
       \/ AcquireFails(c) \/ CleanupDone(c)
       \/ StartExtend(c) \/ ExtendSucceeds(c) \/ ExtendFails(c)
       \/ StartRelease(c) \/ EndRelease(c)
  \/ \E c \in Client, n \in Node :
       \/ RunAcquire(c, n) \/ RunExtend(c, n) \/ RunRelease(c, n) \/ NoScript(c, n)
       \/ Timeout(c, n) \/ ExtendTimeout(c, n)
  \/ GetStatus \/ Tick

Spec == Init /\ [][Next]_vars

(***************************************************************************)
(* Properties.                                                             *)
(***************************************************************************)
\* Every variable has its type, and no node's set exceeds the limit.
TypeOK ==
  /\ now \in Nat
  /\ score \in [Node -> [Client -> Nat]]
  /\ \A n \in Node : Cardinality(Members(score[n])) <= MaxPermits
  /\ keyExpiry \in [Node -> Nat]
  /\ conn \in [Client -> [Node -> Seq(Cmd)]]
  /\ pc \in [Client -> PC]
  /\ vote \in [Client -> [Node -> Vote]]
  /\ ext \in [Client -> [on : BOOLEAN, began : Nat, vote : [Node -> Vote]]]
  /\ began \in [Client -> Nat]
  /\ expiration \in [Client -> Int]
  /\ calls \in [Client -> [attempt : Nat, extend : Nat, release : Nat]]
  /\ faults \in [Client -> Nat]
  /\ resent \in [Client -> [Node -> BOOLEAN]]

\* A valid permit within the ttl of the round that granted it.
Covered(c) == Valid(c) /\ now < began[c] + Ttl[c]

\* "Allows up to maxPermits concurrent holders" (docs/api-reference.md, acquireSemaphore):
\* no more permits than that are valid at once.  The code does not keep it, for two
\* reasons: permits whose quorums differ, and an expiration that runs from the end of the
\* round.
AtMostMaxPermits == Cardinality({c \in Client : Valid(c)}) <= MaxPermits

\* What remains of that limit while the ttl of the round that granted, or last
\* extended, each permit has not passed since it began: such a permit occupies a place on
\* a quorum of nodes, and a node has MaxPermits places.  With one permit it says that no
\* two calls hold a permit within that time; after it a permit is valid still, for the
\* length of its round, and AtMostMaxPermits does not hold even then.  It takes callers
\* that all ask for the same ttl and retry at most once (OneTtl and FewAttempts of
\* SemaphoreProofs).
PermitsBounded ==
  Cardinality({c \in Client : Covered(c)}) * QuorumSize <= Cardinality(Node) * MaxPermits

\* A call that is over has taken its place on n back: it sent a deletion there, and all
\* of its commands have run.
GivenBack(c, n) ==
  /\ pc[c] \in {"failed", "released"}
  /\ vote[c][n] # "open"
  /\ conn[c][n] = <<>>

\* A call that failed, or a permit that was released, occupies no place once the
\* commands it sent to a node have run: nothing leaks until the ttl, although commands
\* time out, are sent again and extensions overlap the release.  Excepted are nodes
\* whose breakers refused the last round, and the one order in which the code does leak:
\* an acquire answered NOSCRIPT whose EVAL is sent after the deletion (resent).
NothingLeaks ==
  \A c \in Client, n \in Node : GivenBack(c, n) /\ ~resent[c][n] => score[n][c] = 0

\* Without the last exception, which the code does not keep.
NothingLeaksLate ==
  \A c \in Client, n \in Node : GivenBack(c, n) => score[n][c] = 0
=============================================================================
