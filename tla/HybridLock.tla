----------------------------- MODULE HybridLock -----------------------------
(***************************************************************************)
(* The toolkit's versioned locks: acquireOptimistic(), updateOptimistic()  *)
(* (OptimisticLockStrategy), and acquireHybrid() (HybridLockStrategy),     *)
(* which tries one strategy and falls back on the other, beside plain      *)
(* acquire() calls.  All of them want one resource, whose key and version  *)
(* key they share.                                                         *)
(*                                                                         *)
(* A call is a plan of one or two stages.  What Redlock models in full of  *)
(* the pessimistic stages (extensions, breakers, disconnects, clocks that  *)
(* differ) is left out here, and so is, of every stage, the EVAL that      *)
(* follows a NOSCRIPT answer.                                              *)
(***************************************************************************)
EXTENDS Consensus

CONSTANTS
  Call,        \* the calls
  Cast,        \* who they are: records of their plan, the expectedVersion they give, and
               \* (bounds of the model) the faults and the time
  NoOne,       \* what GET returns for a key that does not exist
  Empty,       \* the identifier '' of defaultOptions
  Version,     \* the versions the resource may have at first on every node; 0: no key
  Ttl, Drift   \* options.ttl (Redis takes no PX 0), and the drift acquire() subtracts

CONSTANTS      \* bounds of the model, not of the code
  MaxAttempts, \* retryCount + 1 of a pessimistic stage
  MaxUpdates   \* updateOptimistic() calls on one resource after each acquire

Strategy == {"pessimistic", "optimistic"}

ASSUME HybridAssumption ==
  /\ Cast \subseteq [plan : [Call -> {<<s>> : s \in Strategy} \union
                                     {<<s, t>> : s, t \in Strategy}],
                     expected : [Call -> Nat], faults : Nat, time : Nat]
  /\ NoOne # Empty /\ {NoOne, Empty} \intersect (Call \X {1, 2}) = {}
  /\ Version \subseteq Nat
  /\ Ttl \in Nat \ {0} /\ {Drift, MaxAttempts, MaxUpdates} \subseteq Nat

VARIABLES
  cast,        \* the calls' plans, expectedVersions and bounds
  now,         \* Date.now()
  store,       \* store[n]: the key and the version key on node n, and when they expire
  conn,        \* conn[c][n]: commands of c that node n has not executed yet
  pc,          \* pc[c]: where the call, or what it returned, stands
  stage,       \* stage[c]: the stage of its plan
  attempts,    \* attempts[c]: attempts of a pessimistic stage
  start,       \* start[c]: when the current round began
  vote,        \* vote[c][n]: outcome of the current round
  version,     \* version[c]: the currentVersion that c was told
  lease,       \* lease[c]: start of the round that granted the lock, or updated it last
  expiration,  \* expiration[c]: Lock._expiration
  updates,     \* updates[c]: updates so far
  faults,      \* faults so far
  grants       \* history: the versions granted, and when their rounds began and ended

vars == <<cast, now, store, conn, pc, stage, attempts, start, vote, version, lease,
          expiration, updates, faults, grants>>

PC == {"ready", "trying", "acquiring", "cleaning", "held", "updating", "releasing",
       "released", "failed"}
Op == {"optimistic", "update", "pessimistic", "cleanup", "release"}

Current(c) == cast.plan[c][stage[c]]
Hybrid(c) == Len(cast.plan[c]) = 2
Expected(c) == cast.expected[c]

\* acquireHybrid() merges the '' of defaultOptions into the options it passes on:
\* acquire() takes it for the caller's own, OptimisticLockStrategy replaces it.
Identifier(c, s) ==
  IF Hybrid(c) /\ cast.plan[c][s] = "pessimistic" THEN Empty ELSE <<c, s>>
Holder == {NoOne, Empty} \union (Call \X {1, 2})

Own(c) == Identifier(c, stage[c])

(***************************************************************************)
(* The scripts.                                                            *)
(***************************************************************************)
Unlocked(n, id) == store[n].holder \in {NoOne, id}

\* Mutation: nobody asks who holds the key.
AnyoneMay(n, id, expected) ==
  IF expected = 0 THEN store[n].version = 0 ELSE store[n].version \in {0, expected}
\* Mutation: an existing version does not need to be expected.
VersionNotRequired(n, id, expected) ==
  Unlocked(n, id) /\ (expected = 0 \/ store[n].version \in {0, expected})

\* OPTIMISTIC_ACQUIRE_SCRIPT: 'locked', 'version_mismatch', 'version_required'
AcquireGranted(n, id, expected) ==
  /\ Unlocked(n, id)
  /\ IF expected = 0 THEN store[n].version = 0 ELSE store[n].version \in {0, expected}

\* OPTIMISTIC_UPDATE_SCRIPT: 'not_owner', 'version_mismatch'
UpdateGranted(n, id, expected) ==
  store[n].holder = id /\ store[n].version \in {0, expected}

\* Mutation: SET without PX.
WrittenForever(id, newVersion) ==
  [holder |-> id, expiry |-> 0, version |-> newVersion, fresh |-> now + Ttl]

\* Both scripts write the key and the version, which live as long as each other.
Written(id, newVersion) ==
  [holder |-> id, expiry |-> now + Ttl, version |-> newVersion, fresh |-> now + Ttl]

\* Mutation: DEL without asking whose key it is.
DeletedAnyway(n, id) == [store[n] EXCEPT !.holder = NoOne, !.expiry = 0]

\* RELEASE_SCRIPT leaves the version alone.
Deleted(n, id) ==
  IF store[n].holder = id THEN [store[n] EXCEPT !.holder = NoOne, !.expiry = 0] ELSE store[n]

Next1(c, n, op) == conn[c][n] # <<>> /\ Head(conn[c][n]).op = op
Answer(c, n, granted) ==
  /\ vote' = IF Head(conn[c][n]).live
             THEN [vote EXCEPT ![c][n] = IF granted THEN "for" ELSE "against"] ELSE vote
  /\ conn' = [conn EXCEPT ![c][n] = Tail(@)]

Unchanged == UNCHANGED <<cast, now, pc, stage, attempts, start, version, lease, expiration,
                         updates, faults, grants>>

RunOptimistic(c, n) ==
  /\ Next1(c, n, "optimistic")
  /\ LET id == Head(conn[c][n]).id
         granted == AcquireGranted(n, id, Expected(c)) IN
       /\ store' = IF granted THEN [store EXCEPT ![n] = Written(id, Expected(c) + 1)] ELSE store
       /\ Answer(c, n, granted)
  /\ Unchanged

RunUpdate(c, n) ==
  /\ Next1(c, n, "update")
  /\ LET id == Head(conn[c][n]).id
         expected == Head(conn[c][n]).expected
         granted == UpdateGranted(n, id, expected) IN
       /\ store' = IF granted THEN [store EXCEPT ![n] = Written(id, expected + 1)] ELSE store
       /\ Answer(c, n, granted)
  /\ Unchanged

\* ACQUIRE_SCRIPT knows nothing of versions.
RunPessimistic(c, n) ==
  /\ Next1(c, n, "pessimistic")
  /\ LET id == Head(conn[c][n]).id IN
       /\ store' = IF Unlocked(n, id)
                   THEN [store EXCEPT ![n].holder = id, ![n].expiry = now + Ttl] ELSE store
       /\ Answer(c, n, Unlocked(n, id))
  /\ Unchanged

RunRelease(c, n) ==
  /\ Next1(c, n, "release") \/ Next1(c, n, "cleanup")
  /\ LET id == Head(conn[c][n]).id IN
       /\ store' = [store EXCEPT ![n] = Deleted(n, id)]
       /\ Answer(c, n, store[n].holder = id)
  /\ Unchanged

(***************************************************************************)
(* Rounds.                                                                 *)
(***************************************************************************)
\* executeWithConsensus sends one command to every node.
Round(c, op) ==
  /\ start' = [start EXCEPT ![c] = now]
  /\ vote' = [vote EXCEPT ![c] = Opening({})]
  /\ conn' = [conn EXCEPT ![c] =
       Send(@, [op |-> op, id |-> Own(c), expected |-> version[c], live |-> TRUE], {})]

\* The round is decided, and abandons what it still waits for.
Decided(c) ==
  /\ vote' = [vote EXCEPT ![c] = NoVotes]
  /\ start' = [start EXCEPT ![c] = 0]
  /\ conn' = [conn EXCEPT ![c] = AbandonAll(@, Op)]

Goes(c, where) == pc' = [pc EXCEPT ![c] = where]

\* operationTimeout: the command stays in the connection, nobody hears the answer.
Timeout(c, n) ==
  /\ vote[c][n] = "pending"
  /\ faults < cast.faults /\ faults' = faults + 1
  /\ vote' = [vote EXCEPT ![c][n] = "error"]
  /\ conn' = [conn EXCEPT ![c][n] = Abandon(@, Op)]
  /\ UNCHANGED <<cast, now, store, pc, stage, attempts, start, version, lease, expiration,
                 updates, grants>>

\* HybridLockStrategy.acquire: the strategy threw, and there may be another.
StageFails(c) ==
  /\ Goes(c, IF stage[c] < Len(cast.plan[c]) THEN "ready" ELSE "failed")
  /\ stage' = [stage EXCEPT ![c] = IF @ < Len(cast.plan[c]) THEN @ + 1 ELSE @]
  /\ attempts' = [attempts EXCEPT ![c] = 0]

(***************************************************************************)
(* The optimistic stage.                                                   *)
(***************************************************************************)
StartOptimistic(c) ==
  /\ pc[c] = "ready" /\ Current(c) = "optimistic"
  /\ Goes(c, "trying")
  /\ Round(c, "optimistic")
  /\ UNCHANGED <<cast, now, store, stage, attempts, version, lease, expiration, updates,
                 faults, grants>>

Granted(c, from) ==
  grants' = grants \union {[call |-> c, to |-> from + 1, start |-> start[c], end |-> now]}

\* createLockFromOptimistic counts the lock's ttl from the END of the round.
OptimisticSucceeds(c) ==
  /\ pc[c] = "trying" /\ Quorum(vote[c])
  /\ Goes(c, "held") /\ Decided(c)
  /\ version' = [version EXCEPT ![c] = Expected(c) + 1]
  /\ lease' = [lease EXCEPT ![c] = start[c]]
  /\ expiration' = [expiration EXCEPT ![c] = now + Ttl]
  /\ Granted(c, Expected(c))
  /\ UNCHANGED <<cast, now, store, stage, attempts, updates, faults>>

\* A conflict, or no quorum: nothing is cleaned up.
OptimisticFails(c) ==
  /\ pc[c] = "trying" /\ NoQuorum(vote[c])
  /\ StageFails(c) /\ Decided(c)
  /\ UNCHANGED <<cast, now, store, version, lease, expiration, updates, faults, grants>>

\* updateOptimistic() with the identifier and the version that the acquire returned.
StartUpdate(c) ==
  /\ pc[c] = "held" /\ cast.plan[c] = <<"optimistic">>
  /\ updates[c] < MaxUpdates /\ updates' = [updates EXCEPT ![c] = @ + 1]
  /\ Goes(c, "updating")
  /\ Round(c, "update")
  /\ UNCHANGED <<cast, now, store, stage, attempts, version, lease, expiration, faults, grants>>

UpdateSucceeds(c) ==
  /\ pc[c] = "updating" /\ Quorum(vote[c])
  /\ Goes(c, "held") /\ Decided(c)
  /\ version' = [version EXCEPT ![c] = @ + 1]
  /\ lease' = [lease EXCEPT ![c] = start[c]]
  /\ Granted(c, version[c])
  /\ UNCHANGED <<cast, now, store, stage, attempts, expiration, updates, faults>>

UpdateFails(c) ==
  /\ pc[c] = "updating" /\ NoQuorum(vote[c])
  /\ Goes(c, "held") /\ Decided(c)
  /\ UNCHANGED <<cast, now, store, stage, attempts, version, lease, expiration, updates,
                 faults, grants>>

(***************************************************************************)
(* The pessimistic stage, as in Redlock.                                   *)
(***************************************************************************)
StartPessimistic(c) ==
  /\ pc[c] = "ready" /\ Current(c) = "pessimistic"
  /\ Goes(c, "acquiring")
  /\ attempts' = [attempts EXCEPT ![c] = @ + 1]
  /\ Round(c, "pessimistic")
  /\ UNCHANGED <<cast, now, store, stage, version, lease, expiration, updates, faults, grants>>

InTime(c) == now < start[c] + Ttl - Drift

PessimisticSucceeds(c) ==
  /\ pc[c] = "acquiring" /\ Quorum(vote[c])
  /\ InTime(c)
  /\ Goes(c, "held") /\ Decided(c)
  /\ lease' = [lease EXCEPT ![c] = start[c]]
  /\ expiration' = [expiration EXCEPT ![c] = start[c] + Ttl - Drift]
  /\ UNCHANGED <<cast, now, store, stage, attempts, version, updates, faults, grants>>

\* The lease is used up already: the stage throws, the keys stay.
PessimisticLate(c) ==
  /\ pc[c] = "acquiring" /\ Quorum(vote[c])
  /\ ~InTime(c)
  /\ StageFails(c) /\ Decided(c)
  /\ UNCHANGED <<cast, now, store, version, lease, expiration, updates, faults, grants>>

PessimisticFails(c) ==
  /\ pc[c] = "acquiring" /\ NoQuorum(vote[c])
  /\ Goes(c, "cleaning")
  /\ start' = [start EXCEPT ![c] = 0]
  /\ vote' = [vote EXCEPT ![c] = Opening({})]
  /\ conn' = [conn EXCEPT ![c] = Send(AbandonAll(@, Op),
       [op |-> "cleanup", id |-> Own(c), expected |-> 0, live |-> TRUE], {})]
  /\ UNCHANGED <<cast, now, store, stage, attempts, version, lease, expiration, updates,
                 faults, grants>>

CleanupDone(c) ==
  /\ pc[c] = "cleaning" /\ With(vote[c], "pending") = {}
  /\ IF attempts[c] < MaxAttempts
     THEN Goes(c, "ready") /\ UNCHANGED <<stage, attempts>>
     ELSE StageFails(c)
  /\ Decided(c)
  /\ UNCHANGED <<cast, now, store, version, lease, expiration, updates, faults, grants>>

(***************************************************************************)
(* Lock.release(), and the environment.                                    *)
(***************************************************************************)
\* acquireOptimistic() returns no Lock to release.
StartRelease(c) ==
  /\ pc[c] = "held" /\ cast.plan[c] # <<"optimistic">>
  /\ Goes(c, "releasing")
  /\ Round(c, "release")
  /\ UNCHANGED <<cast, now, store, stage, attempts, version, lease, expiration, updates,
                 faults, grants>>

\* Whether it reports success, a lost lock or an error: see Redlock.
ReleaseDone(c) ==
  /\ pc[c] = "releasing"
  /\ Quorum(vote[c]) \/ NoQuorum(vote[c])
  /\ Goes(c, "released") /\ Decided(c)
  /\ UNCHANGED <<cast, now, store, stage, attempts, version, lease, expiration, updates,
                 faults, grants>>

\* Keys whose PX has run out are gone.
Expired(s, t) ==
  [holder |-> IF s.expiry <= t THEN NoOne ELSE s.holder,
   expiry |-> IF s.expiry <= t THEN 0 ELSE s.expiry,
   version |-> IF s.fresh <= t THEN 0 ELSE s.version,
   fresh |-> IF s.fresh <= t THEN 0 ELSE s.fresh]

Tick ==
  /\ now < cast.time
  /\ now' = now + 1
  /\ store' = [n \in Node |-> Expired(store[n], now + 1)]
  /\ UNCHANGED <<cast, conn, pc, stage, attempts, start, vote, version, lease, expiration,
                 updates, faults, grants>>

(***************************************************************************)
(* The specification.                                                      *)
(***************************************************************************)
Init ==
  /\ cast \in Cast
  /\ now = 0
  /\ \E v \in Version :
       store = [n \in Node |-> [holder |-> NoOne, expiry |-> 0, version |-> v,
                               fresh |-> IF v = 0 THEN 0 ELSE Ttl]]
  /\ conn = [c \in Call |-> [n \in Node |-> <<>>]]
  /\ pc = [c \in Call |-> "ready"]
  /\ stage = [c \in Call |-> 1]
  /\ vote = [c \in Call |-> NoVotes]
  /\ attempts = [c \in Call |-> 0] /\ start = attempts /\ version = attempts
  /\ lease = attempts /\ expiration = attempts /\ updates = attempts
  /\ faults = 0
  /\ grants = {}

Next ==
  \/ \E c \in Call : \/ StartOptimistic(c) \/ OptimisticSucceeds(c) \/ OptimisticFails(c)
                     \/ StartUpdate(c) \/ UpdateSucceeds(c) \/ UpdateFails(c)
                     \/ StartPessimistic(c) \/ PessimisticSucceeds(c) \/ PessimisticLate(c)
                     \/ PessimisticFails(c) \/ CleanupDone(c)
                     \/ StartRelease(c) \/ ReleaseDone(c)
  \/ \E c \in Call, n \in Node : \/ RunOptimistic(c, n) \/ RunUpdate(c, n)
                                \/ RunPessimistic(c, n) \/ RunRelease(c, n)
                                \/ Timeout(c, n)
  \/ Tick

Spec == Init /\ [][Next]_vars

(***************************************************************************)
(* Properties.                                                             *)
(***************************************************************************)
\* Every variable has its type; a key exists on a node as long as it has an owner.
TypeOK ==
  /\ now \in Nat
  /\ \A n \in Node :
       /\ store[n].holder \in Holder
       /\ store[n].holder = NoOne <=> store[n].expiry = 0
       /\ store[n].version = 0 <=> store[n].fresh = 0
  /\ conn \in [Call -> [Node -> Seq([op : Op, id : Holder, expected : Nat, live : BOOLEAN])]]
  /\ pc \in [Call -> PC]
  /\ \A c \in Call : stage[c] \in 1..Len(cast.plan[c])
  /\ vote \in [Call -> [Node -> Vote]]
  /\ \A f \in {attempts, start, version, lease, expiration, updates} : f \in [Call -> Nat]
  /\ faults \in Nat

\* What c owns, it owns until the ttl after the round that gave it began.
Holds(c) == pc[c] \in {"held", "updating"} /\ now < lease[c] + Ttl

\* At most one call can write the identifier ''.
WritesEmpty(c) == Hybrid(c) /\ "pessimistic" \in {cast.plan[c][1], cast.plan[c][2]}
OneEmpty == \A c, d \in Call : WritesEmpty(c) /\ WritesEmpty(d) => c = d

\* Locks of either strategy exclude each other on the key they share, for the ttl of the
\* round that granted them, as long as their identifiers differ.
StrategiesExclude ==
  OneEmpty => \A c, d \in Call : Holds(c) /\ Holds(d) => c = d

\* What a call holds is on a quorum of nodes: its key, and a version no older than the
\* one it was told.  No cleanup, release or leftover of another call takes it away.
HoldingBacked ==
  OneEmpty => \A c \in Call : Holds(c) =>
    Cardinality({n \in Node : store[n].holder = Own(c) /\ store[n].version >= version[c]}) >= QuorumSize

\* No version is granted to two calls, unless the ttl has run out between: the
\* later round ended when the earlier one's keys could be gone.
VersionGrantedOnce ==
  \A g, h \in grants : g.call # h.call /\ g.to = h.to =>
    g.end >= h.start + Ttl \/ h.end >= g.start + Ttl

\* !released && !isExpired
Valid(c) == pc[c] = "held" /\ Len(cast.plan[c]) = 2 /\ now < expiration[c]

\* "An empty identifier must never reach Redis: every lock written with '' would match
\* every other one" (OptimisticLockStrategy.acquire): locks of acquireHybrid() exclude each other.
HybridExclusive == \A c, d \in Call : Valid(c) /\ Valid(d) => c = d
=============================================================================
