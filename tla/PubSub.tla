------------------------------- MODULE PubSub -------------------------------
(***************************************************************************)
(* PubSubManager: the subscriber connection of one process, and the        *)
(* waiters that share one channel on it (waitForMessage).                  *)
(***************************************************************************)
EXTENDS Integers, FiniteSets, Sequences

VARIABLES
  entry,      \* channelListeners has the channel
  listeners,  \* channelListeners.get(channel)
  subConn,    \* commands on their way to the node
  subscribed, \* the node sends the channel's messages to this connection
  inbox,      \* messages under way to the process
  manager,    \* "new" before the first wait, "down" after shutdown()
  stranded    \* history: somebody has been listening on a subscription that ended

subVars == <<entry, listeners, subConn, subscribed, inbox, manager, stranded>>

PubSubInit ==
  /\ entry = FALSE /\ listeners = {}
  /\ subConn = <<>> /\ subscribed = FALSE /\ inbox = 0
  /\ manager = "new" /\ stranded = FALSE

\* subscribeSync: the first listener of the channel subscribes.
Listen(w) ==
  /\ manager # "down" /\ manager' = "up"
  /\ entry' = TRUE
  /\ listeners' = listeners \union {w}
  /\ subConn' = IF entry THEN subConn ELSE Append(subConn, "subscribe")
  /\ UNCHANGED <<subscribed, inbox, stranded>>

\* After shutdown() there is no subscriber, but initPromise says there is: the first to
\* come throws, with the channel's entry made and its timer set; the next ones wait.
ListenInVain(w) ==
  /\ manager = "down"
  /\ listeners' = IF entry THEN listeners \union {w} ELSE {}
  /\ entry' = TRUE
  /\ stranded' = TRUE
  /\ UNCHANGED <<subConn, subscribed, inbox, manager>>

\* The timer of the one that threw.
OrphanTimer ==
  /\ manager = "down" /\ entry /\ listeners = {}
  /\ entry' = FALSE
  /\ UNCHANGED <<listeners, subConn, subscribed, inbox, manager, stranded>>

\* Mutation: the channel's entry outlives its last listener.
StaleEntry(left) == entry

EntryAfter(left) == entry /\ left # {}

\* localCleanup of each w in W: it sends UNSUBSCRIBE whoever else is listening.
Leave(W) ==
  /\ listeners' = listeners \ W
  /\ entry' = EntryAfter(listeners \ W)
  /\ subConn' = IF manager = "down" THEN subConn ELSE subConn \o [i \in 1..Cardinality(W) |-> "unsubscribe"]
  /\ stranded' = (stranded \/ listeners \ W # {})
  /\ UNCHANGED <<subscribed, inbox, manager>>

RunSubscription ==
  /\ subConn # <<>>
  /\ subscribed' = (Head(subConn) = "subscribe")
  /\ subConn' = Tail(subConn)
  /\ UNCHANGED <<entry, listeners, inbox, manager, stranded>>

\* The catch of subscribeSync drops the channel, and whoever listens by then.
SubscribeFails ==
  /\ subConn # <<>> /\ Head(subConn) = "subscribe"
  /\ subConn' = Tail(subConn)
  /\ entry' = FALSE /\ listeners' = {}
  /\ stranded' = TRUE
  /\ UNCHANGED <<subscribed, inbox, manager>>

\* shutdown() does nothing before the first wait.  Nobody is told; the listeners' timers
\* run on.
Shutdown ==
  /\ manager = "up" /\ manager' = "down"
  /\ entry' = FALSE /\ listeners' = {}
  /\ subConn' = <<>> /\ subscribed' = FALSE /\ inbox' = 0
  /\ UNCHANGED stranded

Published == inbox' = IF subscribed THEN inbox + 1 ELSE inbox

PubSubTypeOK(Waiters) ==
  /\ listeners \subseteq Waiters
  /\ subConn \in Seq({"subscribe", "unsubscribe"})
  /\ inbox \in Nat /\ manager \in {"new", "up", "down"}
  /\ {entry, subscribed, stranded} \subseteq BOOLEAN

\* Who listens is subscribed, or about to be, as long as nobody ended the subscription
\* under the others: leaving and coming back leaves no dead entry behind.
ListenersSubscribed ==
  listeners # {} /\ subConn = <<>> /\ ~stranded => subscribed
=============================================================================
