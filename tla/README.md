# redlock-toolkit in TLA+

A verification development for redlock-toolkit: TLA+ modules translated from the TypeScript
source and the Lua scripts it embeds, TLC configurations that check them on small instances, and
TLAPS proofs of the results that matter most for every instance. Paths below are relative to the
repository; line numbers are in `PROJECT.json` ("map").

## 1. Inventory

| Component | Source | State it keeps | Operations | What makes it correct |
|---|---|---|---|---|
| Pessimistic lock | `src/strategies/pessimistic-strategy.ts`, `src/core/lock.ts`, `src/index.ts` | `_expiration`, `_released`, `_releasePromise`; attempts and start of the attempt while acquiring | `acquire`, `extend`, `release` | two valid locks never overlap in a resource; answers of `release` tell the truth; failed calls leave no keys |
| Consensus rounds | `src/utils/consensus-manager.ts`, `executeWithConsensus` in `src/index.ts` | votes and pending commands of one round | `execute`, cleanup | early exit only with a quorum; a failed round is drained before its cleanup; every round ends |
| Lua scripts | `src/utils/scripts.ts` | keys of one Redis node | lock, versioned, semaphore and latch scripts | each is atomic on one node and touches only what its caller owns |
| Circuit breaker | `src/patterns/circuit-breaker.ts` | state, consecutive failures, half-open probes, last open time | `execute`, `onSuccess`, `onFailure`, `reset` | opens after consecutive failures only; a bounded number of probes; recovers |
| Auto extension | `src/utils/auto-extension-manager.ts`, `Lock.using` | timer, extension under way, signal, own copy of the expiration | `start`, `stop`, `schedule`, `perform`, `updateExpiration` | the routine is told when its lock is lost; nothing runs after `stop` |
| Semaphore | `src/strategies/semaphore-strategy.ts`, `src/primitives/semaphore.ts` | a sorted set of permits per node; permit expiration | `acquire`, `extend`, `release`, `getStatus` | the number of valid permits is bounded; failed and released permits take no place |
| Latch | `src/strategies/countdown-latch-strategy.ts`, `src/primitives/countdown-latch.ts` | count, target and events per node | `create`, `countDown`, `await`, `getStatus` | counts an event once; opens when the target is reached and not before; `await` returns |
| Pub/sub | `src/pubsub/` | listeners per channel, subscriptions, a shared connection | subscribe, unsubscribe, wait, shutdown | who listens is subscribed; a waiter is woken or times out |
| Optimistic and hybrid locks | `src/strategies/optimistic-strategy.ts`, `hybrid-strategy.ts`, `src/index.ts` | key, version and lock of a resource per node | `acquireOptimistic`, `updateOptimistic`, `acquireHybrid` | one winner per version; the strategies exclude each other on the key they share |
| InternalRedlock | `src/algorithms/redlock.ts` | `validity` of the lock object | `acquire`, `extend`, `release` | as the pessimistic lock |
| OptimisticRedlock | `src/algorithms/optimistic-redlock.ts` | value and version per node; `_currentVersion` | read, write, compare-and-swap, delete, rollback, `transaction` | no lost update; what a transaction reported stays |
| Cache | `src/managers/cache.ts` | cached lock states | set, get, invalidate, evict | bounded; never read by the toolkit |
| Metrics, logger, types, facade | `src/utils/metrics.ts`, `src/core/` | counters | none that a decision reads | - |

How they interact. A call of the toolkit (`acquire`, `extend`, `release`, and their kin for permits, latches and
versions) runs one consensus round: the same script is sent to every node at once, each command through
`executeScript`, i.e. through the circuit breaker of that node, which may refuse it (open) or stop waiting for it
(`operationTimeout`). Answers are consumed one by one; the round ends with its quorum, or, when the quorum is out of
reach, after every node has settled. A failed acquire then runs the release script everywhere and may try again,
woken by a timer or by pub/sub. Reads (`getStatus` of a semaphore or a latch) ask the first node only. `acquireHybrid`
calls one strategy and then the other. The two classes under `algorithms/` are a second implementation with rounds of their
own (`Promise.all`, no breaker, no timeout); `transaction()` composes them: a versioned value inside a lock.
`Lock.using` runs the manager's timer beside the routine. Nodes forget keys on their own clock.

What is hard: commands outlive the rounds that sent them (timeouts, the early exit, the
NOSCRIPT fallback), so a round's side effects land during later rounds of the same call; several
calls race for overlapping keys node by node; nodes' clocks differ; a lock may run out while its
extension, its release or its transaction is under way; rollbacks and cleanups undo by name or by version what they
think they did; waiters share one subscription. `PROJECT.json` lists these hazards with their lines.

## 2. Modules

| Module | Content |
|---|---|
| `Consensus` | votes, quorums and the commands of a round, shared by all modules below that run rounds |
| `Redlock` | the pessimistic lock: calls, consensus rounds, scripts, connections, nodes, faults |
| `LeaseLock` | what it promises: a lease, granted once and exclusively |
| `RedlockInv` | the inductive invariant, the assumption on ttls and skew, the refinement mapping to `LeaseLock` |
| `RedlockProofs`, `RedlockSafety` | type correctness; keys and leases under every step; mutual exclusion; refinement; keys of finished calls; the theft alarm |
| `CircuitBreaker`, `CircuitBreakerProofs` | the breaker of one node; its invariant, the bound on probes, what trips it |
| `AutoExtension`, `AutoExtensionProofs` | `Lock.using`: the manager's timer and rounds, the routine's own calls, `stop` and the final release; what is proved of it |
| `Semaphore` | permits on sorted sets: acquire with retries and cleanup, extend, release, status |
| `InternalRedlock` | the lock of `algorithms/redlock.ts`; its operators and actions, no specification of its own |
| `OptimisticRedlock` | extends `InternalRedlock`: the versioned value, its rounds and rollbacks, and transactions that hold the lock around them |
| `OptimisticRedlockProofs` | types of both; mutual exclusion of the locks, whatever goes on around them; updates that are not lost; commits that stay |
| `SemaphoreProofs` | types and node limits; places given back; counting the permits |
| `LatchProofs` | types; subscriptions; opening on the target; events counted on a quorum; nodes that catch up |
| `HybridLockProofs` | types; what a call holds; exclusion of the strategies; versions granted once |
| `PubSub` | `PubSubManager`: listeners and subscription of one channel of one process |
| `Latch` | extends `Consensus` and `PubSub`: create, count down and await |
| `HybridLock` | versioned, hybrid and plain calls on one resource |
| `MC...` | small instances for TLC |

### Redlock

A `Client` is one `acquire()` call and the `Lock` it returns. Both are identified by the random
identifier the call draws, so the client's name doubles as the value of its keys.

| Variable | Code |
|---|---|
| `pc`, `attempts`, `start` | program point of the call or lock, `attempts`, `lastAttemptStart` in `PessimisticLockStrategy.acquire` |
| `vote` | `votesFor`, `votesAgainst`, `pending` of the current acquire, cleanup or release round |
| `ext` | the `extend()` call under way: `startTime`, `ttl`, its round |
| `expiration` | `Lock._expiration` |
| `calls` | how often `extend()` and `release()` reached Redis (bounds only) |
| `conn[c][n]` | commands sent for `c` that node `n` has not executed: ioredis keeps their order |
| `store[n][k]` | holder and expiry of key `k` on node `n` |
| `now` | `Date.now()`; clients share one clock |
| `faults` | number of injected faults (bound only) |
| `overtaken` | history: a conflicting lock was granted while this one had not been released |

| Action | Code |
|---|---|
| `StartAttempt` | an iteration of the retry loop up to the round's commands |
| `RunAcquire`, `RunExtend`, `RunRelease` | a script on a node; the answer is consumed if a round still waits for it |
| `NoScript` | EVALSHA answered NOSCRIPT, EVAL sent instead |
| `AcquireSucceeds` | quorum, drift, expiry check, creation of the `Lock` or `LockTimeoutError` |
| `AcquireRefused` | every breaker open: not retryable, no cleanup |
| `AcquireFails`, `CleanupDone` | the round is drained, cleaned up on all nodes, and retried or given up |
| `StartExtend`, `ExtendSucceeds`, `ExtendFails` | `Lock.extend` and `extendLock` |
| `StartRelease`, `ReleaseSucceeds`, `ReleaseNotHeld`, `ReleaseFails` | `Lock.release` and `releaseLockInternal` |
| `Timeout`, `ExtendTimeout` | `executeWithTimeout`: the wait ends, the command does not |
| `Disconnect`, `Expire`, `Tick` | external: connection loss, key expiry on the node's clock, time |

Consumption of an answer and execution of the script are one step: the messages of one round do not
depend on each other, so an answer delayed on its way back is a command executed later. What such a
delay cannot express, an answer lost after the script ran, is `Timeout` before the script runs:
in both cases the side effect stays and the round counts an error. A round's end clears its votes and
makes its remaining commands dead (`live = FALSE`); they still execute.

A node's clock may run up to `ClockSkew` ahead of the clients over one lease and arbitrarily behind
(`Expire` is never forced). Clock jumps of a client, restarts of nodes without persistence
and calls that reuse an identifier (`options.identifier`) are outside the model: the first two are
outside what the algorithm tolerates, the third is a choice of the caller. `extend()` calls on one lock
do not overlap in `Redlock`, although the code does not serialise them; `AutoExtension` lets a manual
call of the routine overlap the automatic one, over an abstract quorum.

### CircuitBreaker

| Variable or action | Code |
|---|---|
| `state`, `consecutiveFailures`, `halfOpenProbes` | the fields of the same name |
| `sinceOpen` | `Date.now() - lastOpenTime`, as far as `resetTimeout` |
| `pc[c]`, `elapsed[c]` | an operation passed to `execute()`: running, or settled with its handler still a queued microtask; its age |
| `up`, `outages` | external: whether the node answers |
| `probes`, `streak` | history: the operations `halfOpenProbes` counts; failures handled since the last success or `reset()` |
| `Execute` | `execute` up to the await, with `checkCircuitState`; a refused call changes nothing |
| `Answer`, `Fail`, `Timeout` | the three ways `executeWithTimeout` settles |
| `OnSuccess`, `OnFailure` | the handlers, with `reset` and `openCircuit` |
| `ManualReset`, `IsOperationAllowed` | the public methods |

Points in time are kept as ages, so the module has no bound on time. A caller slot is used again when its operation
is over. After a timeout the command itself may still be on its node: what is bounded is the
number of operations the breaker waits for. `Redlock` uses no state of the breaker; it lets any node refuse or
time out any command, which includes what the breaker does.

### AutoExtension

| Variable or action | Code |
|---|---|
| `phase` | where `using()` stands |
| `left`, `mgrLeft` | time left until `Lock._expiration` and `AutoExtensionManager._expiration` |
| `lease` | time for which a quorum of nodes still keeps the keys |
| `timer` | `extensionTimer` and when it is due |
| `auto`, `manual` | the manager's round and the round of the routine's own `extend()` |
| `release`, `requests`, `aborted` | `_released` and `_releasePromise`; requests in order; `signal.aborted` |
| `TimerFires` | the timer's callback and `performExtension` up to its await |
| `AutoSucceeds`, `AutoContinues`, `AutoFails` | the `extend` callback of `using()`, the rest of `performExtension` one microtask later, its catch |
| `RoutineExtends`, `ManualSucceeds`, `ManualFails` | `Lock.extend` and `updateExpiration` |
| `RoutineReleases`, `ReleaseFails` | `Lock.release`, whose promise is shared |
| `RoutineEnds`, `Stopped`, `UsingReturns` | the finally block of `using()` and `stop()` |
| `Execute` | a quorum of nodes runs the EXTEND or RELEASE script of the oldest request |

A round is one request here: `Redlock` has shown what a round does. A granted extension makes the nodes keep the
keys for its ttl from its execution; the answer comes later or, with `MayFail`, never. A request is not sent again
after NOSCRIPT, so requests stay in order.

### Semaphore

A `Client` is one `acquire()` call and its `SemaphorePermit`.

| Variable or action | Code |
|---|---|
| `score[n]`, `keyExpiry[n]` | the sorted set of permits on node `n` and its TTL, which is twice the ttl of the newest permit |
| `pc`, `calls`, `vote`, `conn`, `faults` | as in `Redlock`; the bounds and the faults are those of each call |
| `Unloaded[n]` | the scripts node `n` may have lost from its cache |
| `resent[c][n]` | history: in the current or last round of `c`, an acquire was sent to `n` again, behind the deletion meant to undo it |
| `ext`, `expiration`, `began` | the `extend()` under way; `_expiration`; history: when the round behind it began |
| `RunAcquire`, `RunExtend`, `RunRelease` | the scripts: purge, count, add; the place still held, then prolonged; removal |
| `NoScript` | EVALSHA answered NOSCRIPT: the EVAL goes to the end of the connection, also when nobody waits any more. The cleanup is EVAL at once |
| `GetStatus` | the status script, which purges on the first node |
| `StartAttempt` ... `CleanupDone` | `SemaphoreStrategy.acquire` with its retries; a round whose breakers all refuse is neither cleaned nor retried |
| `StartExtend`, `StartRelease`, ... | the permit's methods, which may overlap |

Scripts take the time from their node; only differences of times matter, so one clock that runs at one rate stands for all.
A call's `expiration` counts from the end of its round, so `Covered` speaks of a permit within the ttl of the round's
beginning. A permit whose `release()` throws keeps `isValid`, although some nodes may have removed it (`_released` is set after the round).

### InternalRedlock and OptimisticRedlock

| Variable or action | Code |
|---|---|
| `lock[n]`, `pc`, `vote`, `start`, `validity`, `tries` | key on node `n`; the call or lock object, its round, `startTime`, `validity`, attempts |
| `RunLock`, `RunExtend`, `RunUnlock`, `CommandLost`, `Reply` | a command is executed, or lost; its answer is heard, or lost: a rejected promise is a vote against |
| `LockSucceeds`, `LockFails`, `UnlockDone`, `ExtendFails` | `attemptLock`, `extend` and the release rounds behind their failures |
| `data[n]`, `seen`, `work`, `count` | value and version on a node; `OptimisticLock.value` and `_currentVersion`; the operation under way; bounds |
| `StartRead`, `RunRead`, `ReadDone` | a read: the value and version of a quorum that agrees on both, otherwise the resource does not exist |
| `StartOp`, `RunWrite`, `WriteSucceeds`, `WriteFails`, `RunDelete`, `DeleteDone`, `RefreshDone` | the methods of `OptimisticLock` |
| `StartRollback`, `RunRollback`, `RollbackDone` | `rollbackWrite` on every node, by version |
| `OperationEnds`, `Conflict` | the end of the routine, and `transaction()` after a conflict |
| `cast` | which client makes which call with which methods, and its bounds |
| `won`, `last`, `strays`, `blind`, `removed`, `late` | history, see the module |

Nothing a round sent is under way when the round ends, so there are no connections to model.

### PubSub and Latch

One latch, one process of waiters, one channel. `PubSub` has no specification of its own: `Latch` calls its actions.

| Variable or action | Code |
|---|---|
| `entry`, `listeners` | the channel's entry in `channelListeners` and who is in it |
| `subConn`, `subscribed`, `inbox` | SUBSCRIBE and UNSUBSCRIBE under way, the node's side of the subscription, messages under way |
| `Listen`, `ListenInVain`, `OrphanTimer` | `subscribeSync`; a wait after `shutdown()`, whose first caller throws and leaves its entry and timer |
| `Leave` | `localCleanup`: UNSUBSCRIBE, whoever else is listening |
| `latch[n]` | count, target and event set on node `n` |
| `Start`, `RunCreate`, `RunCountDown`, `CallSucceeds`, `CallFails` | `create()` and `countDown()` as consensus rounds, with commands that outlive them |
| `StartAwait`, `Subscribe`, `Look`, `LookFails`, `Deadline` | `awaitLatch`: status, subscription and check again, or polling; the timer |
| `Deliver` | a message: every listener is woken and leaves, in one go |

Breakers are those of a process, one per node: any subset of the nodes may refuse a round. The EVAL that follows a NOSCRIPT answer is
modelled as a command that runs late. It keeps its place on the connection, which the code's second command does not: two commands of
one process may change their order there, two of different processes in the model too.

### HybridLock

A call has a plan of one or two strategies. Extensions, breakers, disconnects and clock skew of the
pessimistic stages are left to `Redlock`, and so is, in all stages, the EVAL that follows a NOSCRIPT answer.

| Variable or action | Code |
|---|---|
| `store[n]` | key and version key on node `n`, with their expiries |
| `stage`, `attempts`, `start`, `version`, `expiration` | where `HybridLockStrategy.acquire` stands; `currentVersion`; `Lock._expiration`, counted from the end of an optimistic round |
| `StartOptimistic`, `OptimisticSucceeds`, `OptimisticFails` | `OptimisticLockStrategy.acquire`, and `createLockFromOptimistic` |
| `StageFails` | the fallback to the other strategy, or the error |
| `StartUpdate`, `UpdateSucceeds`, `UpdateFails` | `updateOptimistic` |
| `StartPessimistic`, `Pessimistic...`, `CleanupDone` | `acquire` inside or beside a hybrid call |
| `Identifier` | a pessimistic stage of a hybrid call writes `''` (`defaultOptions`), everybody else a random identifier |
| `lease`, `grants` | history: when the round behind a lock began; versions granted, and when |

What these models showed of the code, beside the runs below:

- A failed optimistic stage leaves its key on the nodes that granted it, under an identifier nobody uses again. The
  pessimistic fallback of the same call is then blocked by its own leftovers until their ttl.
- `updateOptimistic` without an identifier draws a new one and is always answered `not_owner`.
- Once the nodes' versions differ so that no quorum agrees, no read of `OptimisticRedlock` finds the value: it reports
  that the resource does not exist, and a write starts at version 1.
- `rollbackWrite` gives a version back, not the value that was there before.
- After two lost answers a transaction may read "absent", write version 1 on a minority, and
  its rollback deletes a committed version 1 on the other nodes too. A compare-and-swap over nodes whose versions differ
  reports one version although only part of its quorum has it.
- The `PEXPIRE` of a semaphore's set takes twice the ttl of the newest permit: a caller with a short ttl shortens the
  life of every permit in the set.
- `justCompleted` of a countDown is that of the first answer, whatever the other nodes say; two creators of one latch
  may both be told that they created it, on different nodes.
- `updateExpiration` moves the manager's expiration, not its timer. If `extend()` is called with a ttl below the
  automatic one, the lock may run out before the timer fires and the routine is not told.

## 3. Runs

Bounds are constants: `MaxAttempts`, `MaxExtends` and `MaxReleases` per call, `MaxTime`, and `MaxFaults` faults at any
moments. Three nodes make a quorum of two, so one may lag, fail or disagree; two calls are enough for every conflict,
since properties relate pairs. A ttl of 3 with the fixed drift of 2 leaves a lease of one time unit out of three, and
`MaxTime` lets it run out and the keys expire within the run.

| Run | Question | Bounds | Result |
|---|---|---|---|
| `lock` | one lock at a time, true theft alarms, lease refinement, with one fault of any kind | 3 nodes, 2 calls, 1 attempt and 1 release each, time 3, 1 fault | holds, 1.05 million states |
| `extend` | the same with an extension racing expiry, release and a competitor | 3 nodes, 2 calls, 1 extension, time 3, no faults | holds, 629 thousand states |
| `retry` | locks on overlapping sets of keys exclude each other, and nothing is left of a finished call although commands time out | 3 nodes, 2 keys, 2 calls, 2 attempts, time 1, 2 timeouts | holds, 284 thousand states |
| `live` | acquire, extend and release settle | 2 nodes, 1 call, 2 attempts, 1 extension, 1 release, any command may hang or be refused | holds, 42 thousand states |
| `breaker` | bounded and pending probes, trips on consecutive failures, recovery | 4 callers, threshold 3, 2 probes, timeout 2 and 1 late, reset after 4, 2 outages | holds, 95 thousand states |
| `using` | backed expiration, nothing after stop, a lost lock is told in time, `using()` returns | ttl 9, threshold 6, round trip 2, timers 1 late, 3 requests on the connection | holds, 202 thousand states |
| `semaphore` | within the ttl of their rounds as many permits as a quorum allows, no place lost | 3 nodes, 2 calls, 1 permit, 1 extension, 1 release and 1 fault of one of them, one node without the acquire script, the time of one ttl | holds, 1.81 million states |
| `transaction` | one lock at a time, no lost update, commits of transactions stay | 3 nodes, 2 clients, five casts: 2 updates each and 2 faults; all methods with 1 fault or with time 2; beside optimistic callers and plain locks | holds, 1.50 million states |
| `latch` | opens on its target, counts on a quorum, nodes agree, listeners are subscribed, `await` returns | 2 nodes, 1 creator, 2 workers with the same event or two, 2 waiters, 1 fault (or none), any nodes refusing | holds, 537 thousand states |
| `hybrid` | strategies exclude each other, what is held is on a quorum, a version is granted once | 3 nodes, 2 calls in seven casts, 1 attempt, 1 update, time and faults 2 in sum | holds, 1.15 million states |
| `short_extend` | mutual exclusion when `extend` shortens the lease | ttl 6, extension ttl 3, no skew | violated |
| `hybrid_empty` | two hybrid calls exclude each other | 3 nodes, no faults, time 0 | violated |

Symmetry is used in the safety runs only, over nodes (in `semaphore` the node that is read from is kept apart) and
over calls where their bounds are equal. `CHECK_DEADLOCK FALSE` where the calls are done and time
stands still in the end; `breaker` and `using` never stop. In `live`, `MaxFaults` equals the number of commands the
calls can send, so a timer is never prevented from firing.

In `breaker` four callers exceed the two probes allowed, and the threshold of three leaves room for a success
between failures; the timings keep the condition of theorem `Bounded`, 2 + 1 < 4. In `using` the threshold
exceeds a late timer and two round trips, and `using()` starts with the lock far from its threshold or within it.
In `semaphore` one time unit is the ttl: a round may end in the instant in which its permits lapse. In
`latch` two nodes both must count, so that one of them lagging is the interesting case; the workers are in different
processes, one of them the creator's.

Fairness. In `live`: the retry loop and the continuation of a settled round are event-loop
callbacks, and `operationTimeout` is a timer that fires while the process lives (`WF` on `StartAttempt`,
`Decide`, `Timeout`, `ExtendTimeout`). No node is assumed to answer and `extend()` and `release()` need not
be called. In `breaker` and `using`: timers, microtasks and time go on, outages end; the routine need not. In `latch`: for
each waiter, `WF` on what its own process does: it goes on after the status, its deadline passes, it looks
for the last time. Nodes, messages, subscriptions and workers need not do anything.

### What the violated runs show

- `short_extend`: the shorter TTL is effective on each node at once, but `_expiration` keeps the
  later value until the quorum is in, and for good when the extension fails. In between, the keys run
  out and a second call acquires. `LeaseAssumption` excludes this case from the proofs.
- `hybrid_empty`: two `acquireHybrid` calls that take the pessimistic stage both write the identifier `''`. A
  holder may take its key again, so both are granted it. `StrategiesExclude` and `HoldingBacked` are therefore stated
  for casts in which at most one call can write `''`.

### Further instances

Configurations of questions outside the list of runs, whose outcome a reader can reproduce; TLC finds each
of them violated.

| Configuration | Module | What it shows |
|---|---|---|
| `MCNoScript.cfg` | `MCRedlock` | the EVAL that answers NOSCRIPT is sent after the timeout has been counted: it runs after the cleanup and leaves keys |
| `MCReleaseTwice.cfg` | `MCRedlock` | nodes that a first, failed release emptied count as "not held" in the second: a false theft alarm |
| `MCExtendRelease.cfg` | `MCRedlock` | an extension granted, after NOSCRIPT, by a node that had already answered 0 to the release: "not held" although the lock has just got more time |
| `MCTheft.cfg` | `MCRedlock` | an acquire command abandoned by the early exit recreates a key after the lease ran out and the resource was granted to another call; the old lock's release then finds a quorum of its keys |
| `MCUsingLate.cfg` | `MCAutoExtension` | the timer's callback finds an expired lock and returns; the abort written for this case stands behind the same check and is never reached |
| `MCPermits.cfg` | `MCSemaphore` | with `maxPermits` 2 on three nodes, three permits are valid at once: each has a quorum, and no node is over its limit |
| `MCLatePermit.cfg` | `MCSemaphore` | with `maxPermits` 1, two permits are valid at once: the first counts its ttl from the end of its round, when its places on the nodes are already over |
| `MCLateEval.cfg` | `MCSemaphore` | the EVAL that answers NOSCRIPT runs behind the cleanup and takes the failed call's place again, until the ttl |
| `MCRollback.cfg` | `MCOptimisticRedlock` | without transactions, a rollback takes back the version that another client has been told to have written |

One disagreement has no configuration of its own: with `resetTimeout <= operationTimeout` (as in
`tests/audit-2026-06-regression.test.ts:316`) operations from before the opening are in flight beside the new
probes, so the comment at `circuit-breaker.ts:72` ("only a bounded number of probes") holds for the
probes of one half-open phase only. Theorem `Bounded` states the condition under which it holds for everything in flight.

The premises of the properties are these shortcomings, and no wider. `docs/api-reference.md:258` says of `acquireSemaphore` "Allows up to `maxPermits`
concurrent holders" (`AtMostMaxPermits`), and the code does not keep that, as two configurations show. `PermitsBounded` is what remains:
`Node * MaxPermits` places, a quorum of them for each permit, counting permits within the ttl of the round that granted them. With one permit
that is at most one such permit; it is not `AtMostMaxPermits`, since a permit stays valid beyond, for the length of its round.
`NothingLeaks` sets aside nodes whose breakers refused the last round and those where an acquire was sent again, with EVAL, behind the deletion.
`FinishedCallLeavesNoKey` sets aside calls that reached their quorum too late (`pessimistic-strategy.ts:77`): they throw without cleaning up, and
their keys stay until their ttl. `StrategiesExclude` and `HoldingBacked` count the ttl of an optimistic round from its start; the lock that
`createLockFromOptimistic` builds calls itself valid for the length of the round longer (`index.ts:523`), and in that time neither holds. `ListenersSubscribed`
says nothing of waiters whose channel another waiter has unsubscribed: they have their deadline. `NoLostUpdate` sets aside deletions (versions start
over) and rollbacks that undid what their own round had not written. `TransactionsKeepCommits` sets aside callers that go round the lock,
transactions that outlived it, reads that found nothing although a version was committed, and compare-and-swap.
`NodesAgree` sets aside nodes that were counted down before they had the latch, or that a breaker kept a command from.

## 4. Proofs

`LeaseAssumption` (module `RedlockInv`): for any two ttls `t`, `u` in use, `u - Drift(u) + ClockSkew <= t`.
With `t = u` it says that the drift allowance covers the skew of the nodes; with `t # u`
that no extension asks for a ttl so short that keys expire before a lease already given. The code checks
neither, and `short_extend` shows that the second half is needed.

| Theorem | Statement |
|---|---|
| `TypeCorrect` | `Spec => []TypeOK` |
| `Invariance` | `Spec => []IInv` |
| `Exclusion` | `Spec => []MutualExclusion` |
| `Refinement` | `Spec => LeaseSpec` |
| `FinishedCallsLeaveNoKeys` | `Spec => []FinishedCallLeavesNoKey` if `InOrderDelivery` |
| `TheftAlarmsAreReal` | `Spec => []TheftAlarmIsReal` if `OneReleaseEach` |
| `BreakerInvariance`, `BreakerTypes` | `Spec => []BreakerInv` and `Spec => []TypeOK` of `CircuitBreaker` |
| `Pending` | `Spec => []ProbesPending` |
| `Bounded` | `Spec => []ProbesBounded` if `OperationTimeout + TimerLag < ResetTimeout` |
| `Trips` | `Spec => TripsOnConsecutiveFailures` |
| `LockInvariance`, `TypeCorrect` | `Spec => []Inv` and `Spec => []TypeOK` of `OptimisticRedlock` |
| `LockExclusion` | `Spec => []MutualExclusion` of `OptimisticRedlock`, inherited from `InternalRedlock` |
| `UpdatesAreNotLost` | `Spec => []NoLostUpdate` |
| `TransactionsKeepTheirCommits` | `Spec => []TransactionsKeepCommits` |
| `ExtensionInvariance`, `ExtensionTypes` | `Spec => []ExtensionInv` and `Spec => []TypeOK` of `AutoExtension` |
| `StopLeavesNothing` | `Spec => []NothingAfterStop` |
| `ExpirationIsBacked` | `Spec => []ExpirationBacked` under `TtlAssumption` |
| `ToldBeforeExpiry` | `Spec => []ToldInTime` under `TimelyOptions` |
| `TypeCorrect` | `Spec => []TypeOK` of `Semaphore`, of `Latch` and of `HybridLock`, one theorem each |
| `PermitsDoNotLeak` | `Spec => []NothingLeaks` |
| `PermitsAreBounded` | `Spec => []PermitsBounded` if `OneTtl` and `FewAttempts` |
| `ListenersAreSubscribed` | `Spec => []ListenersSubscribed` |
| `LatchOpensOnTarget` | `Spec => []OpensOnTarget` |
| `EventsAreCounted` | `Spec => []CountedOnQuorum` |
| `NodesCatchUp` | `Spec => []NodesAgree` |
| `HoldingIsBacked` | `Spec => []HoldingBacked` |
| `StrategiesAreExclusive` | `Spec => []StrategiesExclude` |
| `VersionsAreGrantedOnce` | `Spec => []VersionGrantedOnce` |

The first four hold for every finite set of nodes, any calls, keys, bounds and fault kinds, the next two for those their premise admits. `MutualExclusion` is
not inductive: a valid lock whose keys are gone can be followed by a second grant. `IInv` adds what keeps
keys in place. `Commands`: what may be in the connections, and that no delete is queued behind a write a round still
waits for. `Leases`: expirations come from a ttl and a moment in the past. `VotesBacked`: each vote of
a running attempt or extension has the keys on its node until the expiration it would give. `LockBacked`: behind a
held lock stands a quorum of such nodes. The central step is that a node that backs a lease
keeps backing it (`BackedStep`): foreign scripts fail their ownership check, own writes push the expiry
further (`LeaseMargin`, the one use of `LeaseAssumption`), expiry comes too late, and no delete of the lock itself is under way
(`NoDeleteStep`). Two quorums share a node, and a key has one holder. For the refinement, `AcquireSucceeds`
grants or finishes, `ExtendSucceeds` renews or is forgotten, releases finish, and the guard of `Grant` and `Renew` is
mutual exclusion in the next state.

`FinishedCallsLeaveNoKeys` assumes that the only faults are timeouts (`InOrderDelivery`): a command that is lost, refused by a breaker or
sent again after NOSCRIPT may leave keys until their TTL, as `MCNoScript.cfg` shows for the last. `CleanInv` says that from the failure
of an attempt to the next one, and from `release()` on, each node has either a delete under way that no acquire of the call follows,
or neither an acquire under way nor a key.

`TheftAlarmsAreReal` assumes that each lock is released once (a second release counts the nodes that the first one emptied,
`MCReleaseTwice.cfg`), that it has a resource, and that NOSCRIPT does not occur beside extensions (`OneReleaseEach`): an acquire sent again
may take the key back on a node that has already answered 0, and an extension queued behind it then counts that node
(`MCExtendRelease.cfg`). Clients, faults and timing are free. `AlarmInv` carries the quorum of `LockBacked` over into the release: `Standing` says that until the
expiration a node has not answered 0, and that a node still asked keeps the keys and has no cleanup queued. The same
holds for the nodes that granted an extension which ends during the release. So a quorum of zeros meets a quorum that stood,
and the lease is over. After the alarm, a quorum of nodes is `Gone`, without keys and without an acquire under way: it
refuses an extension that is still running, so that no late success moves the expiration ahead again.

The breaker's theorems hold for any finite number of callers and any options. `BreakerInv` says that `halfOpenProbes` is the number
of operations admitted since the circuit became half-open, that none of them is over (its end would have closed or
reopened the circuit), and that everything else running is at least as old as the opening (`OldCallsAreOld`): half-open
comes `ResetTimeout` later, when under the condition of `Bounded` no such operation is left.

Transactions. `LockExclusion` holds for any finite set of nodes, any clients, casts, ttl and drift, and any number of lost commands and
answers; no assumption on the length of a round is needed, since `Won` compares the time it took with the ttl. `LockInv` has
four parts: types; `Timely`, a running round began in the past; `VotesBacked`, a node that voted for a round keeps the
caller's key until the ttl after the round's start; and `LockBacked`, behind a lock object that is still valid stands a quorum of such nodes.
What happens to the versioned value does not touch the lock's variables, and the actions of a transaction that begin
or end its lock are steps of the lock, so the proof treats every action as one of a few moves of the lock
(`AnyMove`). `DataInv` types the values: an answer, a version written and a version seen are versions of some node.

`UpdatesAreNotLost` sees the versions on a node as a stack. A command that changes it adds the level above the top or takes the top away (`LevelMove`), and
a level whose round is not over (`MayUndo`) belongs to that round alone (`Levels`). A rollback that takes back what its round wrote therefore takes its own level;
the premise of `NoLostUpdate` excludes the others. A node that voted for an update wrote the version after the one the caller saw
(`WroteNext`), so a round that succeeds leaves that level on a quorum for good (`Kept`). A second success from the same version would
need it on a quorum too, and on the node they share the level cannot belong to both. This holds with and without locks, and whatever
commands and answers are lost.

`TransactionsKeepTheirCommits` is about the value, and there the lock is needed. `TransactionInv` says that a transaction works on the value only while it holds its lock
(`RoleKept`), and that, unless it is late, it owns an unexpired key on a quorum of nodes (`Covered`); so no two work at once (`Alone`). `Committed` then
says that a quorum has at least the last committed version, that what the one active transaction has read is no older (`AgreedCommit`: the
quorum that agrees meets the quorum that keeps), and that its rollback goes back to no older version either.

Automatic extension. `ExtensionInv` has the types and `OneAtATime`: a request on the connection whose caller still
waits belongs to the one round of its kind, with that round's ttl, and the timer is set only while the routine runs and no automatic round is
under way. That is why `stop()`, which waits for the round, leaves nothing behind. For `ExpirationBacked`, `Backed` adds that
every round's ttl, once granted, is covered by the lease, and that the expiration is below each ttl that may still
be executed. `TtlAssumption` states what this needs: two ttls in use differ by the drift allowance at most, and the lock is
not taken for longer than its extensions ask for. It is the abstract form of `LeaseAssumption`; the
code checks neither. `ToldInTime` rests on `Ahead`: while the routine runs and the signal is not aborted, the timer is set or a
round is under way, and what is left outlasts the timer's lag and the round trip that follow. `TimelyOptions` is what this
needs: `Latency`, the lag plus one round trip, is less than the threshold, than what the lock starts with and than what an extension gives
at worst; and an extension of the routine's own, which updates the expiration but does not move the timer, lasts until the timer's
round is over. The instance of `MCUsing.cfg` satisfies it and that of `MCUsingLate.cfg` does not. Neither do the defaults, a
threshold of 500 ms and an operation timeout of 5000 ms (`src/src/index.ts:54`, `:63`): there, an extension that takes longer than the
threshold may end after the lock did.

Semaphore. The theorems hold for any nodes, callers, ttls, limits, attempts and faults. That no node exceeds `MaxPermits` is part of
`TypeOK` and inductive with the types. `NothingLeaks` rests on the order of the connections (`LeakInv`): `Commands` says what may be
in them (`Plain`: no deletion of a caller that still asks for a permit, or holds one, is sent again), and `Cleared` that a call that has given up or been released has on each node either no score or a delete under way
that nothing of its own follows, or that an acquire was `resent` there. A release sent again only moves further back, and an extension sent again
finds no permit to prolong; any scripts may be missing on any nodes (`Unloaded`). `PermitsBounded` is a counting argument. `PermitBacked` gives each covered
permit a quorum of nodes whose sets contain it, with score and set alive until its ttl is over, and `CountPlaces` counts pairs of permit and
node in two ways: at least `QuorumSize` per permit, at most `MaxPermits` per node. Two premises are needed to keep a set alive as long as
its permits, and TLC refutes the theorem without either. `OneTtl`: with different ttls, the `PEXPIRE` of a short permit
cuts the set's TTL below the score of a long one. `FewAttempts`, two attempts per call: taking a permit one holds
already renews its score but not the set's TTL, and with three attempts, whose cleanups a breaker refuses, a permit may be renewed twice and outlive its set
(`Renewals` counts this). The code enforces neither: `ttl` is the caller's, and `retryCount`, 0 by default, is unbounded.

Latch. Any nodes, processes, workers, events and waiters. `TypeOK` needs the link between count and
events (a node still counts its target less the events it has), which is inductive with the types. `Listening` strengthens `ListenersSubscribed` to
every state of the connection: its last command is the SUBSCRIBE. `OpensOnTarget` goes through `OpenedIsComplete`: only a look at a complete
node opens, completeness is for good, and each event on a node has been reported by a worker. `CountedOnQuorum` needs `Backed`, a vote for
means that the node has the event, which no step takes back; `NodesAgree` needs `Underway`, every reported event is in the connection or on
the node, so that in silence all nodes have the same events.

Versioned, hybrid and plain locks. Any nodes, calls, plans, ttl, drift, updates and faults. `HoldInv` has `Commands` (what is awaited is the last of its
queue and belongs to the round; a node whose vote counts has executed all it was sent), `Timely`, `VotesBacked` (a vote for is worth key and version until the
ttl after the round began) and `LockBacked`: behind what a call holds stands a quorum of nodes that back it, to which nothing
is under way but the call's own updates of a version up to its own. The central lemma is `BacksStays`: foreign identifiers are refused,
and the leftovers of a call's own failed updates raise the version or fail. That needs identifiers to differ (`IdsDiffer`), hence
`OneEmpty`, which `hybrid_empty` shows to be necessary. `VersionGrantedOnce` needs no such premise, since the version key is
written under anybody's identifier. `VersionInv` says that a node that voted for a version remembers it for its ttl (`RemembersStays`:
scripts only raise a version that exists), that it votes for one version twice only if one of the rounds is older than its ttl, and that
each grant has a quorum of nodes that have settled this with every round still open (`Settled`). The property itself is a part of it.

The invariants `IInv`, `CleanInv`, `AlarmInv`, `Inv`, `ExtensionInv`, `Ahead`, `LeakInv`, `PermitInv`, `HoldInv`, `VersionInv`, `UpdateInv`, and `TransactionInv` with `Committed`, were checked with TLC on the instances of the runs before
they were proved; `IInv` is in the run `lock`.

Every safety property of the passing runs is proved. Only model-checked are the liveness properties (`AcquireSettles`, `ExtendSettles`,
`ReleaseSettles`, `Recovers`, `UsingSettles`, `AwaitSettles`): liveness under fairness is out of the prover's reach. The theorems with
a premise beside the assumptions on constants are those marked "if" above; the runs' instances satisfy the premises, and the
configurations at the end of section 3 show what happens without them.

## 5. Plan and limits

Next, in this order:

1. More than one `extend()` at a time in `Redlock`; extensions of hybrid locks.
2. The facade's table of active locks and `shutdown()`.

Not modelled, and why:

- Metrics, logging, option validation, configuration: no decision of the protocol reads them. `CacheManager`: it is written
  and invalidated, but nothing reads it. (Its `evict()` removes a tenth of the entries rounded down, none when there are fewer than ten.)
- `CircuitBreakerManager`: a table of independent breakers.
- The `:data` and `:value` keys of the scripts, `expectedValue` of a versioned lock and the TTL of a versioned value.
- `forceRelease`, the compatibility methods of the facade, and identifiers chosen by the caller, which may repeat: they
  give exclusion up on purpose. (`''`, which the library itself chooses, is modelled.)
- `using()` of a permit and of an `InternalRedlock` lock: the manager of `AutoExtension` once more.
- The public `subscribe()` and `unsubscribe()` of `PubSubManager`, which the toolkit does not call.
- Restarts of nodes without persistence and jumps of a client's clock: outside what the algorithm tolerates.
