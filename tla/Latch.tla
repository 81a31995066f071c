------------------------------- MODULE Latch -------------------------------
(***************************************************************************)
(* The distributed countdown latch: CountDownLatchStrategy, its Lua        *)
(* scripts, and the waiters, which look at the FIRST node only and are     *)
(* woken through PubSub or by polling.                                     *)
(*                                                                         *)
(* A creator is one call of create(), a worker one call of countDown(), a  *)
(* waiter one call of await(), all on one name.  The latch outlives them:  *)
(* its TTL does not run out.  A command that is answered NOSCRIPT and sent *)
(* again with EVAL is here a command that its node executes late, which    *)
(* keeps its order among the commands of one process.                      *)
(***************************************************************************)
EXTENDS Consensus, PubSub

CONSTANTS
  Creator, Worker, Waiter,
  Process,     \* where creators and workers run: one connection to each node
  Proc,        \* Proc[c]: the process of call c
  Count,       \* Count[k]: options.count of create() call k
  Setup,       \* the instances to check: the workers' eventIds, whether the waiters have a
               \* PubSubManager, and (a bound of the model) how many commands time out, are
               \* refused or fail, or PubSubManagers are shut down
  ReadNode     \* getClientForRead(): the first node

Call == Creator \union Worker

ASSUME LatchAssumption ==
  /\ IsFiniteSet(Waiter) /\ Creator \intersect Worker = {}
  /\ Proc \in [Call -> Process]
  /\ Count \in [Creator -> Nat \ {0}]
  /\ \A s \in Setup : DOMAIN s.event = Worker /\ s.pubSub \in BOOLEAN /\ s.faults \in Nat
  /\ ReadNode \in Node

VARIABLES
  latch,   \* latch[n]: the keys on node n
  conn,    \* conn[p][n]: commands of process p that node n has not executed yet
  pc,      \* pc[c]: where the call stands
  vote,    \* vote[c][n]: what node n answered
  first,   \* first[c]: what the call will return
  event,   \* event[w]: the eventId of worker w
  pubSub,  \* whether the waiters have a PubSubManager
  waiter,  \* waiter[w]: where await() stands
  faults,  \* faults still to come
  skipped  \* history: a node was counted down before it had the latch, or kept back by its breaker

latchVars == <<latch, conn, pc, vote, first, event, pubSub, waiter, faults, skipped>>
vars == <<latchVars, subVars>>

Missing == [count |-> -1, target |-> 0, events |-> {}]
Exists(n) == latch[n] # Missing
Completed(n) == Exists(n) /\ latch[n].count = 0

PC == {"idle", "running", "done", "exists", "failed"}
WaiterPC == {"idle", "subscribing", "waiting", "verifying", "final", "polling",
             "opened", "timedOut", "notFound", "failed"}
Settled == {"opened", "timedOut", "notFound", "failed"}

(***************************************************************************)
(* The rounds of create() and countDown().                                 *)
(***************************************************************************)
Start(c) ==
  \E refused \in SUBSET Node :
    /\ pc[c] = "idle"
    /\ refused = {} \/ faults > 0
    /\ faults' = IF refused = {} THEN faults ELSE faults - 1
    /\ pc' = [pc EXCEPT ![c] = "running"]
    /\ vote' = [vote EXCEPT ![c] = Opening(refused)]
    /\ conn' = [conn EXCEPT ![Proc[c]] = Send(@, c, refused)]
    /\ skipped' = (skipped \/ refused # {})
    /\ UNCHANGED <<latch, first, event, pubSub, waiter, subVars>>

\* An answer counts until the round is over.  The first one decides what the caller is
\* told; a create() remembers whether any node did create the latch.
Answer(c, n, for, effect) ==
  IF pc[c] = "running" /\ vote[c][n] = "pending"
  THEN /\ vote' = [vote EXCEPT ![c][n] = IF for THEN "for" ELSE "against"]
       /\ first' = [first EXCEPT ![c] =
            IF @ = "none" \/ (c \in Creator /\ effect) THEN IF effect THEN "done" ELSE "exists" ELSE @]
  ELSE UNCHANGED <<vote, first>>

Pop(p, n) == conn' = [conn EXCEPT ![p][n] = Tail(@)]

\* LATCH_CREATE_SCRIPT; an existing latch is a vote for, too.
RunCreate(p, n) ==
  /\ conn[p][n] # <<>> /\ Head(conn[p][n]) \in Creator
  /\ LET k == Head(conn[p][n]) IN
       /\ latch' = IF Exists(n) THEN latch
                   ELSE [latch EXCEPT ![n] = [count |-> Count[k], target |-> Count[k], events |-> {}]]
       /\ Answer(k, n, TRUE, ~Exists(n))
  /\ Pop(p, n)
  /\ UNCHANGED <<pc, event, pubSub, waiter, faults, skipped, subVars>>

\* Mutation: an event counts as often as it is reported.
NeverSeen(c, n) == FALSE

Seen(c, n) == event[c] \in latch[n].events

CountDownStatus(c, n) ==
  CASE ~Exists(n) -> "missing"
    [] Completed(n) -> "over"
    [] Exists(n) /\ ~Completed(n) /\ Seen(c, n) -> "again"
    [] OTHER -> IF latch[n].count = 1 THEN "completed" ELSE "counted"

\* LATCH_COUNTDOWN_SCRIPT.  Every node publishes its own completion, the waiters
\* are subscribed to the first.
RunCountDown(p, n) ==
  /\ conn[p][n] # <<>> /\ Head(conn[p][n]) \in Worker
  /\ LET c == Head(conn[p][n])
         status == CountDownStatus(c, n) IN
       /\ latch' = IF status \in {"counted", "completed"}
                   THEN [latch EXCEPT ![n].count = @ - 1, ![n].events = @ \union {event[c]}]
                   ELSE latch
       /\ IF status = "completed" /\ n = ReadNode
          THEN Published /\ UNCHANGED <<entry, listeners, subConn, subscribed, manager, stranded>>
          ELSE UNCHANGED subVars
       /\ Answer(c, n, status # "missing", status \in {"counted", "completed", "again"})
       /\ skipped' = (skipped \/ status = "missing")
  /\ Pop(p, n)
  /\ UNCHANGED <<pc, event, pubSub, waiter, faults>>

\* Mutation: a command that timed out is withdrawn.
TimeoutWithdraws(c, n) ==
  /\ pc[c] = "running" /\ vote[c][n] = "pending"
  /\ faults > 0 /\ faults' = faults - 1
  /\ vote' = [vote EXCEPT ![c][n] = "error"]
  /\ conn' = [conn EXCEPT ![Proc[c]][n] = SelectSeq(@, LAMBDA d : d # c)]
  /\ UNCHANGED <<latch, pc, first, event, pubSub, waiter, skipped, subVars>>

\* operationTimeout passes: the command stays in the connection.
Timeout(c, n) ==
  /\ pc[c] = "running" /\ vote[c][n] = "pending"
  /\ faults > 0 /\ faults' = faults - 1
  /\ vote' = [vote EXCEPT ![c][n] = "error"]
  /\ UNCHANGED <<latch, conn, pc, first, event, pubSub, waiter, skipped, subVars>>

\* The round is decided: its late answers no longer matter.
Outcome(c, outcome) ==
  /\ pc' = [pc EXCEPT ![c] = outcome]
  /\ vote' = [vote EXCEPT ![c] = NoVotes]
  /\ first' = [first EXCEPT ![c] = "none"]
  /\ UNCHANGED <<latch, conn, event, pubSub, waiter, faults, skipped, subVars>>

\* Mutation: successPolicy "any".
AnyVote(c) ==
  /\ pc[c] = "running"
  /\ With(vote[c], "for") # {}
  /\ Outcome(c, "done")

\* The caller learns what the node said that answered first.
CallSucceeds(c) ==
  /\ pc[c] = "running"
  /\ Quorum(vote[c])
  /\ Outcome(c, first[c])

CallFails(c) ==
  /\ pc[c] = "running"
  /\ NoQuorum(vote[c])
  /\ Outcome(c, "failed")

(***************************************************************************)
(* awaitLatch().                                                           *)
(***************************************************************************)
Goes(w, stage) == waiter' = [waiter EXCEPT ![w] = stage]
KeepLatch == UNCHANGED <<latch, conn, pc, vote, first, event, pubSub, faults, skipped>>

\* getStatus of the first node, and what the waiter does about it.
StartAwait(w) ==
  /\ waiter[w] = "idle"
  /\ Goes(w, CASE Completed(ReadNode) -> "opened"
               [] ~Exists(ReadNode) -> "notFound"
               [] OTHER -> IF pubSub THEN "subscribing" ELSE "polling")
  /\ KeepLatch /\ UNCHANGED subVars

\* The latch may complete between the status and the subscription.
Subscribe(w) ==
  /\ waiter[w] = "subscribing"
  /\ \/ Listen(w) /\ Goes(w, "waiting")
     \/ ListenInVain(w) /\ Goes(w, IF entry THEN "waiting" ELSE "failed")
  /\ KeepLatch

\* messageHandler: every listener of the channel.
Deliver ==
  /\ inbox > 0
  /\ waiter' = [w \in Waiter |-> IF w \in listeners THEN "verifying" ELSE waiter[w]]
  /\ listeners' = {} /\ entry' = FALSE
  /\ subConn' = subConn \o [i \in 1..Cardinality(listeners) |-> "unsubscribe"]
  /\ inbox' = inbox - 1
  /\ UNCHANGED <<subscribed, manager, stranded>>
  /\ KeepLatch

\* Mutation: the timer of a waiter goes with its listener.
DeadlineOfListeners(w) ==
  /\ waiter[w] = "waiting" /\ w \in listeners
  /\ Leave({w}) /\ Goes(w, "final")
  /\ KeepLatch

\* The deadline: the remaining time is used up before or while the waiter waits.
Deadline(w) ==
  /\ \/ waiter[w] = "subscribing" /\ Goes(w, "timedOut") /\ UNCHANGED subVars
     \/ waiter[w] = "waiting" /\ Goes(w, "final") /\ Leave({w})
     \/ waiter[w] = "polling" /\ Goes(w, "final") /\ UNCHANGED subVars
  /\ KeepLatch

\* A poll, the look after a message, and the last look.
Look(w) ==
  /\ \/ waiter[w] = "polling" /\ Goes(w, CASE Completed(ReadNode) -> "opened"
                                           [] ~Exists(ReadNode) -> "notFound"
                                           [] OTHER -> "polling")
     \/ waiter[w] = "verifying" /\ Goes(w, IF Completed(ReadNode) THEN "opened" ELSE "final")
     \/ waiter[w] = "final" /\ Goes(w, IF Completed(ReadNode) THEN "opened" ELSE "timedOut")
  /\ KeepLatch /\ UNCHANGED subVars

\* The status command fails, and await() with it.
LookFails(w) ==
  /\ waiter[w] \in {"idle", "polling", "verifying", "final"}
  /\ faults > 0 /\ faults' = faults - 1
  /\ Goes(w, "failed")
  /\ UNCHANGED <<latch, conn, pc, vote, first, event, pubSub, skipped, subVars>>

Subscription ==
  \/ (RunSubscription \/ OrphanTimer) /\ UNCHANGED latchVars
  \/ /\ SubscribeFails
     /\ faults > 0 /\ faults' = faults - 1
     /\ UNCHANGED <<latch, conn, pc, vote, first, event, pubSub, waiter, skipped>>
  \/ /\ Shutdown
     /\ faults > 0 /\ faults' = faults - 1
     /\ UNCHANGED <<latch, conn, pc, vote, first, event, pubSub, waiter, skipped>>

(***************************************************************************)
(* The specification.                                                      *)
(***************************************************************************)
Init ==
  /\ latch = [n \in Node |-> Missing]
  /\ conn = [p \in Process |-> [n \in Node |-> <<>>]]
  /\ pc = [c \in Call |-> "idle"]
  /\ vote = [c \in Call |-> NoVotes]
  /\ first = [c \in Call |-> "none"]
  /\ \E s \in Setup : event = s.event /\ pubSub = s.pubSub /\ faults = s.faults
  /\ waiter = [w \in Waiter |-> "idle"]
  /\ skipped = FALSE
  /\ PubSubInit

Next ==
  \/ \E c \in Call : Start(c) \/ CallSucceeds(c) \/ CallFails(c) \/ \E n \in Node : Timeout(c, n)
  \/ \E p \in Process, n \in Node : RunCreate(p, n) \/ RunCountDown(p, n)
  \/ \E w \in Waiter : StartAwait(w) \/ Subscribe(w) \/ Deadline(w) \/ Look(w) \/ LookFails(w)
  \/ Deliver \/ Subscription

Spec == Init /\ [][Next]_vars

\* Timers fire, what follows a settled promise runs, and the node that is read answers or
\* the command fails.  No other node has to do anything.
Fairness ==
  \A w \in Waiter :
    WF_vars(Subscribe(w) \/ Deadline(w) \/ (waiter[w] \in {"verifying", "final"} /\ Look(w)))

FairSpec == Spec /\ Fairness

(***************************************************************************)
(* Properties.                                                             *)
(***************************************************************************)
\* Every variable has its type, and a node's count is what its events leave of the target.
TypeOK ==
  /\ \A n \in Node : Exists(n) =>
       /\ latch[n].count \in Nat /\ latch[n].events \subseteq {event[c] : c \in Worker}
       /\ latch[n].count + Cardinality(latch[n].events) = latch[n].target
  /\ conn \in [Process -> [Node -> Seq(Call)]]
  /\ pc \in [Call -> PC]
  /\ vote \in [Call -> [Node -> Vote]]
  /\ first \in [Call -> {"none", "done", "exists"}]
  /\ event \in {s.event : s \in Setup} /\ pubSub \in BOOLEAN
  /\ waiter \in [Waiter -> WaiterPC]
  /\ faults \in Nat /\ skipped \in BOOLEAN
  /\ PubSubTypeOK(Waiter)

\* await() returns only when as many different events have been reported as some create()
\* asked for: repeating an event, or its command, opens nothing.
OpensOnTarget ==
  (\E w \in Waiter : waiter[w] = "opened") =>
    \E k \in Creator : Cardinality({event[c] : c \in {d \in Worker : pc[d] # "idle"}}) >= Count[k]

\* An event whose countDown() went through is counted on a quorum of nodes, unless
\* they were complete without it.
CountedOnQuorum ==
  \A c \in Worker : pc[c] \in {"done", "exists"} =>
    Cardinality({n \in Node : Completed(n) \/ Seen(c, n)}) >= QuorumSize

\* Nothing of any call is under way.
Quiet ==
  /\ \A c \in Call : pc[c] # "running"
  /\ \A p \in Process, n \in Node : conn[p][n] = <<>>

\* A command that is merely late is not lost: once everything has run, all nodes
\* that have the latch of the same create() show the same count, unless a node was
\* counted down before it had the latch, or a breaker kept a command back.
NodesAgree ==
  Quiet /\ ~skipped =>
    \A m, n \in Node : latch[m].target = latch[n].target => latch[m].count = latch[n].count

\* await() always comes back.
AwaitSettles == \A w \in Waiter : waiter[w] \notin Settled \union {"idle"} ~> waiter[w] \in Settled
=============================================================================
