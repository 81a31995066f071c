-------------------------- MODULE HybridLockProofs --------------------------
(***************************************************************************)
(* Proofs about versioned, hybrid and plain locks on one resource, for     *)
(* every number of nodes and calls, every plan, any timeouts and any       *)
(* delays: what a call holds is on a quorum of nodes, locks of either      *)
(* strategy exclude each other, and no version is granted twice.           *)
(***************************************************************************)
EXTENDS HybridLock, FiniteSetTheorems, SequenceTheorems, TLAPS

(***************************************************************************)
(* Types.                                                                  *)
(***************************************************************************)
Entry == [holder : Holder, expiry : Nat, version : Nat, fresh : Nat]
Command == [op : Op, id : Holder \ {NoOne}, expected : Nat, live : BOOLEAN]

StoreOK ==
  /\ store \in [Node -> Entry]
  /\ \A n \in Node : store[n].holder = NoOne <=> store[n].expiry = 0
  /\ \A n \in Node : store[n].version = 0 <=> store[n].fresh = 0

CallsOK ==
  /\ pc \in [Call -> PC] /\ vote \in [Call -> [Node -> Vote]]
  /\ stage \in [Call -> {1, 2}] /\ \A c \in Call : stage[c] <= Len(cast.plan[c])
  /\ attempts \in [Call -> Nat] /\ start \in [Call -> Nat] /\ version \in [Call -> Nat]
  /\ lease \in [Call -> Nat] /\ expiration \in [Call -> Nat] /\ updates \in [Call -> Nat]

Types ==
  /\ cast \in Cast /\ now \in Nat /\ faults \in Nat
  /\ StoreOK /\ CallsOK
  /\ conn \in [Call -> [Node -> Seq(Command)]]

\* The identifiers a call writes.
Ids(c) == {Identifier(c, s) : s \in 1..Len(cast.plan[c])}

\* What the assumption on the constants says.
LEMMA Constants ==
  /\ NoOne # Empty /\ NoOne \notin Call \X {1, 2} /\ Empty \notin Call \X {1, 2}
  /\ Version \subseteq Nat /\ Ttl \in Nat /\ Ttl > 0 /\ Drift \in Nat
  /\ MaxAttempts \in Nat /\ MaxUpdates \in Nat
  BY HybridAssumption

\* Every plan has one or two stages, each of one of the two strategies.
LEMMA Plans ==
  ASSUME cast \in Cast
  PROVE  /\ \A c \in Call : /\ Len(cast.plan[c]) \in {1, 2}
                            /\ \A s \in 1..Len(cast.plan[c]) : cast.plan[c][s] \in Strategy
                            /\ Expected(c) \in Nat
         /\ cast.faults \in Nat /\ cast.time \in Nat
  <1>1. cast \in [plan : [Call -> {<<s>> : s \in Strategy} \union {<<s, t>> : s, t \in Strategy}],
                  expected : [Call -> Nat], faults : Nat, time : Nat]
    BY HybridAssumption
  <1>2. ASSUME NEW c \in Call
        PROVE  /\ Len(cast.plan[c]) \in {1, 2}
               /\ \A s \in 1..Len(cast.plan[c]) : cast.plan[c][s] \in Strategy
    <2>1. CASE \E s \in Strategy : cast.plan[c] = <<s>>
      BY <2>1
    <2>2. CASE \E s, t \in Strategy : cast.plan[c] = <<s, t>>
      BY <2>2
    <2> QED
      BY <1>1, <2>1, <2>2
  <1> QED
    BY <1>1, <1>2 DEF Expected

\* A plan has one or two stages.
LEMMA Stages ==
  ASSUME cast \in Cast, NEW c \in Call
  PROVE  /\ Len(cast.plan[c]) \in {1, 2} /\ 1 <= Len(cast.plan[c])
         /\ \A s \in 1..Len(cast.plan[c]) : s \in {1, 2}
         /\ \A s \in {1, 2} : s <= Len(cast.plan[c]) => s \in 1..Len(cast.plan[c])
  <1>1. PICK l \in {1, 2} : Len(cast.plan[c]) = l
    BY Plans
  <1>2. 1 <= l /\ \A s \in 1..l : s \in {1, 2}
    OBVIOUS
  <1>3. \A s \in {1, 2} : s <= l => s \in 1..l
    OBVIOUS
  <1> QED
    BY <1>1, <1>2, <1>3

\* What a call writes is an identifier, never what GET returns for no key.
LEMMA IdsType ==
  ASSUME cast \in Cast, NEW c \in Call
  PROVE  Ids(c) \subseteq Holder \ {NoOne}
  <1>1. ASSUME NEW s \in 1..Len(cast.plan[c])
        PROVE  Identifier(c, s) \in Holder \ {NoOne}
    <2>1. s \in {1, 2}
      BY Plans
    <2> QED
      BY <2>1, Constants DEF Identifier, Holder
  <1> QED
    BY <1>1 DEF Ids

\* As long as only one call can write '', what one call writes no other call does.
LEMMA IdsDiffer ==
  ASSUME cast \in Cast, OneEmpty, NEW c \in Call, NEW d \in Call, c # d
  PROVE  Ids(c) \intersect Ids(d) = {}
  <1> SUFFICES ASSUME NEW s \in 1..Len(cast.plan[c]), NEW t \in 1..Len(cast.plan[d]),
                      Identifier(c, s) = Identifier(d, t)
               PROVE  FALSE
    BY DEF Ids
  <1>1. s \in {1, 2} /\ t \in {1, 2}
    BY Stages
  <1>2. \A b \in Call, r \in {1, 2} : <<b, r>> # Empty
    BY Constants
  <1>3. Identifier(c, s) = Empty /\ Identifier(d, t) = Empty
    BY <1>1, <1>2 DEF Identifier
  <1>4. WritesEmpty(c) /\ WritesEmpty(d)
    BY <1>1, <1>2, <1>3 DEF Identifier, WritesEmpty
  <1> QED
    BY <1>4 DEF OneEmpty

\* The identifier of the current stage is one of those the call writes.
LEMMA OwnId ==
  ASSUME Types, NEW c \in Call
  PROVE  Own(c) \in Ids(c) /\ Own(c) \in Holder /\ Own(c) # NoOne
  <1>1. stage[c] \in 1..Len(cast.plan[c])
    BY Stages DEF Types, CallsOK
  <1> QED
    BY <1>1, IdsType DEF Own, Ids, Types

\* Types says of every record what TypeOK says, and more.
LEMMA TypesImplyTypeOK == Types => TypeOK
  <1> SUFFICES ASSUME Types
               PROVE  TypeOK
    OBVIOUS
  <1>1. \A c \in Call : stage[c] \in 1..Len(cast.plan[c])
    BY Stages DEF Types, CallsOK
  <1>2. \A n \in Node : store[n].holder \in Holder
    BY DEF Types, StoreOK, Entry
  <1> DEFINE Wide == [op : Op, id : Holder, expected : Nat, live : BOOLEAN]
  <1>3. conn \in [Call -> [Node -> Seq(Wide)]]
    <2>1. \A q \in Seq(Command) : q \in [1..Len(q) -> Wide] /\ Len(q) \in Nat
      <3>1. Command \subseteq Wide
        BY DEF Command
      <3> QED
        BY <3>1, SeqDef, LenProperties
    <2>2. ASSUME NEW q \in Seq(Command)
          PROVE  q \in Seq(Wide)
      <3>1. Seq(Wide) = UNION {[1..k -> Wide] : k \in Nat}
        BY SeqDef
      <3> QED
        BY <2>1, <3>1
    <2>3. Seq(Command) \subseteq Seq(Wide)
      BY <2>2
    <2> HIDE DEF Wide
    <2> QED
      BY <2>3 DEF Types
  <1> QED
    BY <1>1, <1>2, <1>3 DEF Types, StoreOK, CallsOK, TypeOK

\* At first nothing is held, nothing is under way, and every node has the same version.
LEMMA TypesInit == Init => Types
  <1> SUFFICES ASSUME Init
               PROVE  Types
    OBVIOUS
  <1>1. cast \in Cast /\ now \in Nat /\ faults \in Nat
    BY DEF Init
  <1>2. StoreOK
    <2>1. PICK v \in Version :
            store = [n \in Node |-> [holder |-> NoOne, expiry |-> 0, version |-> v,
                                     fresh |-> IF v = 0 THEN 0 ELSE Ttl]]
      BY DEF Init
    <2>2. v \in Nat
      BY Constants
    <2>3. store \in [Node -> Entry]
      BY <2>1, <2>2, Constants DEF Entry, Holder
    <2> QED
      BY <2>1, <2>2, <2>3, Constants DEF StoreOK
  <1>3. CallsOK
    <2>1. NoVotes \in [Node -> Vote]
      BY DEF NoVotes, Vote
    <2>2. \A c \in Call : 1 <= Len(cast.plan[c])
      BY <1>1, Stages
    <2>3. attempts = [c \in Call |-> 0] /\ start = attempts /\ version = attempts
          /\ lease = attempts /\ expiration = attempts /\ updates = attempts
      BY DEF Init
    <2>4. attempts \in [Call -> Nat]
      BY <2>3
    <2>5. pc \in [Call -> PC] /\ stage = [c \in Call |-> 1] /\ vote = [c \in Call |-> NoVotes]
      BY DEF Init, PC
    <2> QED
      BY <2>1, <2>2, <2>3, <2>4, <2>5 DEF CallsOK
  <1>4. conn \in [Call -> [Node -> Seq(Command)]]
    BY DEF Init
  <1> QED
    BY <1>1, <1>2, <1>3, <1>4 DEF Types

(***************************************************************************)
(* Kinds of steps.                                                         *)
(***************************************************************************)
\* A call opens a round.
Starts(c) ==
  StartOptimistic(c) \/ StartUpdate(c) \/ StartPessimistic(c) \/ StartRelease(c) \/ PessimisticFails(c)
\* A call is done with one.
Ends(c) ==
  \/ OptimisticSucceeds(c) \/ OptimisticFails(c) \/ UpdateSucceeds(c) \/ UpdateFails(c)
  \/ PessimisticSucceeds(c) \/ PessimisticLate(c) \/ CleanupDone(c) \/ ReleaseDone(c)
\* A node executes a command.
Runs(c, n) == RunOptimistic(c, n) \/ RunUpdate(c, n) \/ RunPessimistic(c, n) \/ RunRelease(c, n)

\* A step opens a round, ends one, runs a command, times one out or lets time pass.
LEMMA StepCases ==
  ASSUME [Next]_vars
  PROVE  \/ UNCHANGED vars
         \/ \E c \in Call : Starts(c) \/ Ends(c)
         \/ \E c \in Call, n \in Node : Runs(c, n) \/ Timeout(c, n)
         \/ Tick
  BY DEF Next, Starts, Ends, Runs

\* The round a call is in.
Doing(where) ==
  CASE where = "trying" -> "optimistic"
    [] where = "acquiring" -> "pessimistic"
    [] where = "cleaning" -> "cleanup"
    [] where = "updating" -> "update"
    [] where = "releasing" -> "release"
    [] OTHER -> "none"

\* What a round sends.
Request(c, where) ==
  [op |-> Doing(where), id |-> Own(c),
   expected |-> IF where = "cleaning" THEN 0 ELSE version[c], live |-> TRUE]
Opened(c, q, where) ==
  /\ vote' = [vote EXCEPT ![c] = Opening({})]
  /\ conn' = [conn EXCEPT ![c] = Send(q, Request(c, where), {})]
  /\ Goes(c, where)

\* What opening a round changes: the vote, the connections, the call's pc and start.
LEMMA StartEffect ==
  ASSUME NEW c \in Call, Starts(c)
  PROVE  /\ UNCHANGED <<cast, now, store, stage, version, lease, expiration, faults, grants>>
         /\ \/ /\ start' = [start EXCEPT ![c] = now]
               /\ \/ pc[c] = "ready" /\ \E where \in {"trying", "acquiring"} : Opened(c, conn[c], where)
                  \/ pc[c] = "held" /\ \E where \in {"updating", "releasing"} : Opened(c, conn[c], where)
            \/ /\ start' = [start EXCEPT ![c] = 0]
               /\ pc[c] = "acquiring" /\ Opened(c, AbandonAll(conn[c], Op), "cleaning")
  <1>1. CASE StartOptimistic(c)
    BY <1>1 DEF StartOptimistic, Round, Opened, Request, Doing
  <1>2. CASE StartUpdate(c)
    BY <1>2 DEF StartUpdate, Round, Opened, Request, Doing
  <1>3. CASE StartPessimistic(c)
    BY <1>3 DEF StartPessimistic, Round, Opened, Request, Doing
  <1>4. CASE StartRelease(c)
    BY <1>4 DEF StartRelease, Round, Opened, Request, Doing
  <1>5. CASE PessimisticFails(c)
    BY <1>5 DEF PessimisticFails, Opened, Request, Doing
  <1> QED
    BY <1>1, <1>2, <1>3, <1>4, <1>5 DEF Starts

\* What a command does to the key and the version key of its node.
Writes(n, id, expected) ==
  /\ Unlocked(n, id) /\ store[n].version \in {0, expected}
  /\ store' = [store EXCEPT ![n] = Written(id, expected + 1)]
Takes(n, id) ==
  /\ Unlocked(n, id)
  /\ store' = [store EXCEPT ![n].holder = id, ![n].expiry = now + Ttl]
Drops(n, id) ==
  /\ store[n].holder = id
  /\ store' = [store EXCEPT ![n].holder = NoOne, ![n].expiry = 0]

\* What a script does to its node, and what it answers.
LEMMA RunEffect ==
  ASSUME Types, NEW c \in Call, NEW n \in Node, Runs(c, n)
  PROVE  /\ conn[c][n] # <<>> /\ Unchanged
         /\ LET cmd == Head(conn[c][n]) IN
              \/ /\ cmd.op = "optimistic"
                 /\ \/ Writes(n, cmd.id, Expected(c)) /\ Answer(c, n, TRUE)
                    \/ store' = store /\ Answer(c, n, FALSE)
              \/ /\ cmd.op = "update"
                 /\ \/ Writes(n, cmd.id, cmd.expected) /\ Answer(c, n, TRUE)
                    \/ store' = store /\ Answer(c, n, FALSE)
              \/ /\ cmd.op = "pessimistic"
                 /\ \/ Takes(n, cmd.id) /\ Answer(c, n, TRUE)
                    \/ store' = store /\ Answer(c, n, FALSE)
              \/ /\ cmd.op \in {"release", "cleanup"}
                 /\ Drops(n, cmd.id) \/ store' = store
                 /\ \E granted \in BOOLEAN : Answer(c, n, granted)
  <1>0. store \in [Node -> Entry]
    BY DEF Types, StoreOK
  <1>1. CASE RunOptimistic(c, n)
    BY <1>1 DEF RunOptimistic, Next1, AcquireGranted, Writes
  <1>2. CASE RunUpdate(c, n)
    BY <1>2 DEF RunUpdate, Next1, UpdateGranted, Writes, Unlocked
  <1>3. CASE RunPessimistic(c, n)
    <2> DEFINE id == Head(conn[c][n]).id
    <2>1. /\ conn[c][n] # <<>> /\ Head(conn[c][n]).op = "pessimistic" /\ Unchanged
          /\ Answer(c, n, Unlocked(n, id))
      BY <1>3 DEF RunPessimistic, Next1
    <2>2. CASE Unlocked(n, id)
      <3>1. Takes(n, id) /\ Answer(c, n, TRUE)
        BY <1>3, <2>1, <2>2 DEF RunPessimistic, Takes
      <3> QED
        BY <2>1, <3>1
    <2>3. CASE ~Unlocked(n, id)
      <3>1. store' = store /\ Answer(c, n, FALSE)
        BY <1>3, <2>3 DEF RunPessimistic, Answer
      <3> QED
        BY <2>1, <3>1
    <2> QED
      BY <2>2, <2>3
  <1>4. CASE RunRelease(c, n)
    <2>1. /\ conn[c][n] # <<>> /\ Head(conn[c][n]).op \in {"release", "cleanup"} /\ Unchanged
          /\ store' = [store EXCEPT ![n] = Deleted(n, Head(conn[c][n]).id)]
          /\ Answer(c, n, store[n].holder = Head(conn[c][n]).id)
      BY <1>4 DEF RunRelease, Next1
    <2>2. CASE store[n].holder = Head(conn[c][n]).id
      <3>1. store' = [store EXCEPT ![n].holder = NoOne, ![n].expiry = 0]
        BY <1>0, <2>1, <2>2 DEF Deleted, Entry
      <3> QED
        BY <2>1, <2>2, <3>1 DEF Drops
    <2>3. CASE store[n].holder # Head(conn[c][n]).id
      <3>1. store' = store
        BY <1>0, <2>1, <2>3 DEF Deleted
      <3> QED
        BY <2>1, <3>1
    <2> QED
      BY <2>2, <2>3
  <1> QED
    BY <1>1, <1>2, <1>3, <1>4 DEF Runs

\* The version a round is for, if it is for one.
Gains(c) ==
  CASE pc[c] = "trying" -> Expected(c) + 1
    [] pc[c] = "updating" -> version[c] + 1
    [] OTHER -> 0

Wins(c) ==
  /\ Quorum(vote[c]) /\ Goes(c, "held")
  /\ lease' = [lease EXCEPT ![c] = start[c]] /\ stage' = stage
  /\ \/ /\ pc[c] \in {"trying", "updating"}
        /\ version' = [version EXCEPT ![c] = Gains(c)] /\ Granted(c, Gains(c) - 1)
     \/ /\ pc[c] = "acquiring"
        /\ version' = version /\ grants' = grants

\* The other ends: a failed update changes nothing, and what fails otherwise holds nothing.
Loses(c) ==
  /\ UNCHANGED <<version, lease, grants>>
  /\ \/ pc[c] = "updating" /\ Goes(c, "held") /\ stage' = stage
     \/ \E where \in {"ready", "failed", "released"} :
          /\ pc[c] \in {"trying", "acquiring", "cleaning", "releasing"} /\ Goes(c, where)
          /\ where = "ready" => pc[c] # "releasing"

\* The end of a round is won or lost, and abandons what it still waits for.
LEMMA EndEffect ==
  ASSUME Types, NEW c \in Call, Ends(c)
  PROVE  Decided(c) /\ UNCHANGED <<cast, now, store, faults>> /\ (Wins(c) \/ Loses(c))
  <1>0. Expected(c) \in Nat /\ version[c] \in Nat /\ Expected(c) + 1 - 1 = Expected(c)
        /\ version[c] + 1 - 1 = version[c]
    BY Plans DEF Types, CallsOK
  <1>1. CASE OptimisticSucceeds(c)
    BY <1>0, <1>1 DEF OptimisticSucceeds, Wins, Gains
  <1>2. CASE UpdateSucceeds(c)
    BY <1>0, <1>2 DEF UpdateSucceeds, Wins, Gains, Types, CallsOK
  <1>3. CASE PessimisticSucceeds(c)
    BY <1>3 DEF PessimisticSucceeds, Wins
  <1>4. CASE OptimisticFails(c)
    BY <1>4 DEF OptimisticFails, StageFails, Goes, Loses
  <1>5. CASE UpdateFails(c)
    BY <1>5 DEF UpdateFails, Loses
  <1>6. CASE PessimisticLate(c)
    BY <1>6 DEF PessimisticLate, StageFails, Goes, Loses
  <1>7. CASE CleanupDone(c)
    BY <1>7 DEF CleanupDone, StageFails, Goes, Loses
  <1>8. CASE ReleaseDone(c)
    BY <1>8 DEF ReleaseDone, Goes, Loses
  <1> QED
    BY <1>1, <1>2, <1>3, <1>4, <1>5, <1>6, <1>7, <1>8 DEF Ends

\* Nobody changes the plans, and time does not run backwards.
LEMMA TimePasses ==
  ASSUME Types, [Next]_vars
  PROVE  cast' = cast /\ now' \in Nat /\ (now' = now \/ (now' = now + 1 /\ Tick))
  <1>0. now \in Nat
    BY DEF Types
  <1>1. ASSUME NEW c \in Call, Starts(c) \/ Ends(c)
        PROVE  cast' = cast /\ now' = now
    BY <1>1, StartEffect, EndEffect
  <1>2. ASSUME NEW c \in Call, NEW n \in Node, Runs(c, n) \/ Timeout(c, n)
        PROVE  cast' = cast /\ now' = now
    BY <1>2, RunEffect DEF Timeout, Unchanged
  <1>3. CASE Tick
    BY <1>0, <1>3 DEF Tick
  <1>4. CASE UNCHANGED vars
    BY <1>0, <1>4 DEF vars
  <1> QED
    BY <1>0, <1>1, <1>2, <1>3, <1>4, StepCases

\* The first of a queue of commands, and the rest.
LEMMA HeadCommand ==
  ASSUME NEW q \in Seq(Command), q # <<>>
  PROVE  /\ Head(q) \in Command /\ Head(q) = q[1] /\ 1 \in 1..Len(q)
         /\ Head(q).op \in Op /\ Head(q).id \in Holder /\ Head(q).id # NoOne
         /\ Head(q).expected \in Nat /\ Head(q).live \in BOOLEAN
         /\ Tail(q) \in Seq(Command) /\ Len(Tail(q)) = Len(q) - 1 /\ Len(q) \in Nat
         /\ \A i \in 1..Len(Tail(q)) : i + 1 \in 1..Len(q) /\ Tail(q)[i] = q[i + 1]
         /\ Len(q) = 1 => Tail(q) = <<>>
  <1>1. /\ Len(q) \in Nat /\ Len(q) > 0 /\ Len(Tail(q)) = Len(q) - 1
        /\ Tail(q) \in Seq(Command) /\ Head(q) = q[1]
        /\ \A i \in 1..Len(Tail(q)) : Tail(q)[i] = q[i + 1]
    BY HeadTailProperties, EmptySeq, LenProperties
  <1>2. 1 \in 1..Len(q) /\ q[1] \in Command
    BY <1>1, ElementOfSeq
  <1>3. \A i \in 1..Len(Tail(q)) : i + 1 \in 1..Len(q) /\ Tail(q)[i] = q[i + 1]
    BY <1>1
  <1>4. /\ q[1].op \in Op /\ q[1].id \in Holder /\ q[1].id # NoOne
        /\ q[1].expected \in Nat /\ q[1].live \in BOOLEAN
    BY <1>2 DEF Command
  <1>5. Len(q) = 1 => Tail(q) = <<>>
    <2> DEFINE t == Tail(q)
    <2>1. t \in Seq(Command) /\ (Len(q) = 1 => Len(t) = 0)
      BY <1>1
    <2> HIDE DEF t
    <2>2. Len(t) = 0 => t = <<>>
      BY <2>1, EmptySeq, LenProperties
    <2> QED
      BY <2>1, <2>2 DEF t
  <1> QED
    BY <1>1, <1>2, <1>3, <1>4, <1>5

\* What a node keeps has its type, and keys live as long as somebody owns them.
LEMMA StoreStep ==
  ASSUME Types, [Next]_vars
  PROVE  StoreOK'
  <1>0. /\ store \in [Node -> Entry] /\ now \in Nat /\ cast \in Cast
        /\ \A n \in Node : store[n].holder = NoOne <=> store[n].expiry = 0
        /\ \A n \in Node : store[n].version = 0 <=> store[n].fresh = 0
        /\ NoOne \in Holder /\ Ttl \in Nat /\ Ttl > 0
    BY Constants DEF Types, StoreOK, Holder
  <1>1. CASE store' = store
    BY <1>0, <1>1 DEF StoreOK
  <1>2. ASSUME NEW n \in Node, NEW x \in Entry, store' = [store EXCEPT ![n] = x],
               x.holder = NoOne <=> x.expiry = 0, x.version = 0 <=> x.fresh = 0
        PROVE  StoreOK'
    BY <1>0, <1>2 DEF StoreOK
  <1>3. ASSUME NEW c \in Call, NEW n \in Node, Runs(c, n)
        PROVE  StoreOK'
    <2> DEFINE cmd == Head(conn[c][n])
    <2>1. cmd.id \in Holder /\ cmd.id # NoOne /\ cmd.expected \in Nat /\ Expected(c) \in Nat
      <3>1. conn[c][n] \in Seq(Command) /\ conn[c][n] # <<>>
        BY <1>3, RunEffect DEF Types
      <3> QED
        BY <1>0, <3>1, HeadCommand, Plans
    <2> HIDE DEF cmd
    <2>2. ASSUME NEW expected \in Nat, Writes(n, cmd.id, expected)
          PROVE  StoreOK'
      <3> DEFINE x == [holder |-> cmd.id, expiry |-> now + Ttl, version |-> expected + 1,
                       fresh |-> now + Ttl]
      <3>1. store' = [store EXCEPT ![n] = x]
        BY <2>2 DEF Writes, Written
      <3>2. x \in Entry /\ (x.holder = NoOne <=> x.expiry = 0) /\ (x.version = 0 <=> x.fresh = 0)
        <4>1. now + Ttl # 0 /\ expected + 1 # 0
          BY <1>0
        <4> QED
          BY <1>0, <2>1, <4>1 DEF Entry
      <3> HIDE DEF x
      <3> QED
        BY <1>2, <3>1, <3>2
    <2>3. ASSUME Takes(n, cmd.id)
          PROVE  StoreOK'
      <3> DEFINE x == [holder |-> cmd.id, expiry |-> now + Ttl, version |-> store[n].version,
                       fresh |-> store[n].fresh]
      <3>1. store' = [store EXCEPT ![n].holder = cmd.id, ![n].expiry = now + Ttl]
        BY <2>3 DEF Takes
      <3>2. store[n] \in Entry
        BY <1>0
      <3>3. store'[n] = x
        BY <1>0, <3>1, <3>2 DEF Entry
      <3>4. store' = [store EXCEPT ![n] = x]
        BY <1>0, <3>1, <3>3
      <3>5. x \in Entry /\ (x.holder = NoOne <=> x.expiry = 0) /\ (x.version = 0 <=> x.fresh = 0)
        <4>1. now + Ttl # 0
          BY <1>0
        <4> QED
          BY <1>0, <2>1, <3>2, <4>1 DEF Entry
      <3> HIDE DEF x
      <3> QED
        BY <1>2, <3>4, <3>5
    <2>4. ASSUME Drops(n, cmd.id)
          PROVE  StoreOK'
      <3> DEFINE x == [holder |-> NoOne, expiry |-> 0, version |-> store[n].version,
                       fresh |-> store[n].fresh]
      <3>1. store' = [store EXCEPT ![n].holder = NoOne, ![n].expiry = 0]
        BY <2>4 DEF Drops
      <3>2. store[n] \in Entry
        BY <1>0
      <3>3. store'[n] = x
        BY <1>0, <3>1, <3>2 DEF Entry
      <3>4. store' = [store EXCEPT ![n] = x]
        BY <1>0, <3>1, <3>3
      <3>5. x \in Entry /\ x.holder = NoOne /\ x.expiry = 0 /\ (x.version = 0 <=> x.fresh = 0)
        BY <1>0, <3>2 DEF Entry
      <3> HIDE DEF x
      <3> QED
        BY <1>2, <3>4, <3>5
    <2> QED
      BY <1>1, <1>3, <2>1, <2>2, <2>3, <2>4, RunEffect DEF cmd
  <1>4. CASE Tick
    <2>1. store' = [n \in Node |-> Expired(store[n], now + 1)]
      BY <1>4 DEF Tick
    <2>2. ASSUME NEW n \in Node
          PROVE  /\ Expired(store[n], now + 1) \in Entry
                 /\ Expired(store[n], now + 1).holder = NoOne <=> Expired(store[n], now + 1).expiry = 0
                 /\ Expired(store[n], now + 1).version = 0 <=> Expired(store[n], now + 1).fresh = 0
      BY <1>0 DEF Expired, Entry
    <2> QED
      BY <2>1, <2>2 DEF StoreOK
  <1>5. ASSUME NEW c \in Call, Starts(c) \/ Ends(c) \/ \E n \in Node : Timeout(c, n)
        PROVE  store' = store
    BY <1>5, StartEffect, EndEffect DEF Timeout
  <1> QED
    BY <1>1, <1>3, <1>4, <1>5, StepCases DEF vars

(***************************************************************************)
(* The connections.                                                        *)
(***************************************************************************)
\* A step is one of one call, or nobody's.
Same(d) ==
  /\ conn'[d] = conn[d] /\ vote'[d] = vote[d] /\ pc'[d] = pc[d] /\ stage'[d] = stage[d]
  /\ version'[d] = version[d] /\ lease'[d] = lease[d] /\ start'[d] = start[d]

Acts(c) == Starts(c) \/ Ends(c) \/ \E n \in Node : Runs(c, n) \/ Timeout(c, n)

\* A step of one call leaves the others as they are.
LEMMA OthersSame ==
  ASSUME Types, NEW c \in Call, Acts(c), NEW d \in Call, d # c
  PROVE  Same(d)
  <1>0. /\ pc \in [Call -> PC] /\ stage \in [Call -> {1, 2}] /\ vote \in [Call -> [Node -> Vote]]
        /\ version \in [Call -> Nat] /\ lease \in [Call -> Nat] /\ start \in [Call -> Nat]
        /\ conn \in [Call -> [Node -> Seq(Command)]]
    BY DEF Types, CallsOK
  <1>1. CASE Starts(c)
    <2>1. UNCHANGED <<stage, version, lease>> /\ start'[d] = start[d]
      BY <1>0, <1>1, StartEffect
    <2>2. \E q, where : Opened(c, q, where)
      BY <1>1, StartEffect
    <2> QED
      BY <1>0, <2>1, <2>2 DEF Opened, Goes, Same
  <1>2. CASE Ends(c)
    <2>1. Decided(c) /\ (Wins(c) \/ Loses(c))
      BY <1>2, EndEffect
    <2>2. conn'[d] = conn[d] /\ vote'[d] = vote[d] /\ start'[d] = start[d]
      BY <1>0, <2>1 DEF Decided
    <2>3. version'[d] = version[d] /\ lease'[d] = lease[d] /\ pc'[d] = pc[d]
      BY <1>0, <2>1 DEF Wins, Loses, Goes
    <2>4. stage'[d] = stage[d]
      BY <1>0, <1>2 DEF Ends, OptimisticSucceeds, OptimisticFails, UpdateSucceeds, UpdateFails,
                        PessimisticSucceeds, PessimisticLate, CleanupDone, ReleaseDone, StageFails
    <2> QED
      BY <2>2, <2>3, <2>4 DEF Same
  <1>3. ASSUME NEW n \in Node, Runs(c, n)
        PROVE  Same(d)
    <2>1. Unchanged /\ \E granted : Answer(c, n, granted)
      BY <1>3, RunEffect
    <2> QED
      BY <1>0, <2>1 DEF Unchanged, Answer, Same
  <1>4. ASSUME NEW n \in Node, Timeout(c, n)
        PROVE  Same(d)
    BY <1>0, <1>4 DEF Timeout, Same
  <1> QED
    BY <1>1, <1>2, <1>3, <1>4 DEF Acts

\* A step is one of some call, or of the clock, or none.
LEMMA ActCases ==
  ASSUME [Next]_vars
  PROVE  \/ \E c \in Call : Acts(c)
         \/ Tick \/ UNCHANGED vars
  BY StepCases DEF Acts

\* The clock changes no call.
LEMMA TickSame ==
  ASSUME Tick \/ UNCHANGED vars
  PROVE  /\ UNCHANGED <<conn, vote, pc, stage, attempts, start, version, lease, expiration,
                        updates, grants, cast>>
         /\ \A d \in Call : Same(d)
  BY DEF Tick, vars, Same

\* Commands nobody waits for.
Dead(q) == \A i \in 1..Len(q) : ~q[i].live

\* Abandoned commands keep their place and their content; nobody waits for them.
LEMMA Abandoned ==
  ASSUME NEW q \in Seq(Command)
  PROVE  /\ Abandon(q, Op) \in Seq(Command) /\ Len(Abandon(q, Op)) = Len(q) /\ Len(q) \in Nat
         /\ Dead(Abandon(q, Op))
         /\ \A i \in 1..Len(q) : /\ Abandon(q, Op)[i].id = q[i].id
                                 /\ Abandon(q, Op)[i].op = q[i].op
                                 /\ Abandon(q, Op)[i].expected = q[i].expected
  <1> DEFINE r == Abandon(q, Op)
  <1>1. Len(q) \in Nat /\ \A i \in 1..Len(q) : q[i] \in Command
    BY LenProperties, ElementOfSeq
  <1>2. r = [i \in 1..Len(q) |-> [q[i] EXCEPT !.live = FALSE]]
    BY <1>1 DEF Abandon, Command
  <1>3. ASSUME NEW i \in 1..Len(q)
        PROVE  /\ [q[i] EXCEPT !.live = FALSE] \in Command
               /\ [q[i] EXCEPT !.live = FALSE].id = q[i].id
               /\ [q[i] EXCEPT !.live = FALSE].op = q[i].op
               /\ [q[i] EXCEPT !.live = FALSE].expected = q[i].expected
               /\ ~[q[i] EXCEPT !.live = FALSE].live
    BY <1>1 DEF Command
  <1>4. r \in [1..Len(q) -> Command]
    BY <1>2, <1>3
  <1>5. r \in Seq(Command)
    BY <1>1, <1>4, SeqDef
  <1>6. Len(r) = Len(q)
    BY <1>1, <1>4, <1>5, LenProperties
  <1>7. Dead(r)
    BY <1>2, <1>3, <1>6 DEF Dead
  <1>8. \A i \in 1..Len(q) : r[i].id = q[i].id /\ r[i].op = q[i].op /\ r[i].expected = q[i].expected
    BY <1>2, <1>3
  <1> QED
    BY <1>1, <1>5, <1>6, <1>7, <1>8

\* A request is a command with an identifier of the call that sends it.
LEMMA RequestType ==
  ASSUME Types, NEW c \in Call,
         NEW where \in {"trying", "acquiring", "cleaning", "updating", "releasing"}
  PROVE  Request(c, where) \in Command /\ Request(c, where).id \in Ids(c)
  <1>1. Doing(where) \in Op
    BY DEF Doing, Op
  <1>2. Own(c) \in Ids(c) /\ Own(c) \in Holder /\ Own(c) # NoOne
    BY OwnId
  <1>3. version[c] \in Nat
    BY DEF Types, CallsOK
  <1> QED
    BY <1>1, <1>2, <1>3 DEF Request, Command

\* Sending appends at the end of the connection.
LEMMA Appended ==
  ASSUME NEW q \in Seq(Command), NEW cmd \in Command
  PROVE  /\ Append(q, cmd) \in Seq(Command) /\ Len(Append(q, cmd)) = Len(q) + 1 /\ Len(q) \in Nat
         /\ \A i \in 1..Len(q) : Append(q, cmd)[i] = q[i]
         /\ Append(q, cmd)[Len(q) + 1] = cmd
         /\ \A i \in 1..Len(Append(q, cmd)) : i \in 1..Len(q) \/ i = Len(q) + 1
  <1>1. /\ Append(q, cmd) \in Seq(Command) /\ Len(Append(q, cmd)) = Len(q) + 1 /\ Len(q) \in Nat
        /\ \A i \in 1..Len(q) : Append(q, cmd)[i] = q[i]
        /\ Append(q, cmd)[Len(q) + 1] = cmd
    BY AppendProperties, LenProperties
  <1>2. \A i \in 1..Len(Append(q, cmd)) : i \in 1..Len(q) \/ i = Len(q) + 1
    BY <1>1
  <1> QED
    BY <1>1, <1>2

\* What a step does to one connection: nothing, or a request is sent, or what is under way
\* is abandoned, or the first command is executed.
Requested(c, n) ==
  /\ \E q \in {conn[c][n], Abandon(conn[c][n], Op)} : conn'[c][n] = Append(q, Request(c, pc'[c]))
  /\ vote'[c][n] = "pending" /\ stage' = stage /\ version' = version
  /\ pc'[c] \in {"trying", "acquiring", "cleaning", "updating", "releasing"} /\ pc'[c] # pc[c]
GivenUp(c, n) ==
  conn'[c][n] = Abandon(conn[c][n], Op) /\ vote'[c][n] \in {"none", "error"}
Executed(c, n) ==
  /\ conn[c][n] # <<>> /\ conn'[c][n] = Tail(conn[c][n])
  /\ pc' = pc /\ stage' = stage /\ version' = version
  /\ IF Head(conn[c][n]).live THEN vote'[c][n] \in {"for", "against"} ELSE vote'[c][n] = vote[c][n]
Untouched(c, n) ==
  /\ conn'[c][n] = conn[c][n] /\ vote'[c][n] = vote[c][n]
  /\ pc'[c] = pc[c] /\ stage'[c] = stage[c] /\ version'[c] = version[c]

\* What one step does to one connection.
LEMMA QueueCases ==
  ASSUME Types, [Next]_vars, NEW c \in Call, NEW n \in Node
  PROVE  Untouched(c, n) \/ Requested(c, n) \/ GivenUp(c, n) \/ Executed(c, n)
  <1>0. /\ vote \in [Call -> [Node -> Vote]] /\ conn \in [Call -> [Node -> Seq(Command)]]
        /\ pc \in [Call -> PC]
    BY DEF Types, CallsOK
  <1>1. CASE Same(c)
    BY <1>1 DEF Same, Untouched
  <1>2. CASE Starts(c)
    <2>1. UNCHANGED <<stage, version>>
      BY <1>2, StartEffect
    <2>2. PICK q \in {conn[c], AbandonAll(conn[c], Op)},
               where \in {"trying", "acquiring", "cleaning", "updating", "releasing"} :
            Opened(c, q, where) /\ pc[c] # where
      BY <1>2, StartEffect
    <2>3. pc'[c] = where /\ pc'[c] # pc[c]
      BY <1>0, <2>2 DEF Opened, Goes
    <2>4. vote'[c][n] = "pending"
      BY <1>0, <2>2 DEF Opened, Opening
    <2>5. conn'[c][n] = Append(q[n], Request(c, where))
      BY <1>0, <2>2 DEF Opened, Send
    <2>6. q[n] \in {conn[c][n], Abandon(conn[c][n], Op)}
      BY <2>2 DEF AbandonAll
    <2> QED
      BY <2>1, <2>3, <2>4, <2>5, <2>6 DEF Requested
  <1>3. CASE Ends(c)
    <2>1. Decided(c)
      BY <1>3, EndEffect
    <2> QED
      BY <1>0, <2>1 DEF Decided, AbandonAll, NoVotes, GivenUp
  <1>4. ASSUME NEW m \in Node, Timeout(c, m)
        PROVE  Untouched(c, n) \/ GivenUp(c, n)
    <2>1. /\ vote' = [vote EXCEPT ![c][m] = "error"] /\ conn' = [conn EXCEPT ![c][m] = Abandon(@, Op)]
          /\ UNCHANGED <<pc, stage, version>>
      BY <1>4 DEF Timeout
    <2> QED
      BY <1>0, <2>1 DEF Untouched, GivenUp
  <1>5. ASSUME NEW m \in Node, Runs(c, m)
        PROVE  Untouched(c, n) \/ Executed(c, n)
    <2>1. conn[c][m] # <<>> /\ UNCHANGED <<pc, stage, version>> /\ \E granted : Answer(c, m, granted)
      BY <1>5, RunEffect DEF Unchanged
    <2>2. CASE m = n
      <3>1. conn'[c][n] = Tail(conn[c][n])
        BY <1>0, <2>1, <2>2 DEF Answer
      <3>2. IF Head(conn[c][n]).live THEN vote'[c][n] \in {"for", "against"} ELSE vote'[c][n] = vote[c][n]
        BY <1>0, <2>1, <2>2 DEF Answer
      <3> QED
        BY <2>1, <2>2, <3>1, <3>2 DEF Executed
    <2>3. CASE m # n
      BY <1>0, <2>1, <2>3 DEF Answer, Untouched
    <2> QED
      BY <2>2, <2>3
  <1>6. ASSUME NEW d \in Call, d # c, Acts(d)
        PROVE  Untouched(c, n)
    BY <1>1, <1>6, OthersSame DEF Same, Untouched
  <1>7. ASSUME Tick \/ UNCHANGED vars
        PROVE  Untouched(c, n)
    BY <1>7, TickSame DEF Same, Untouched
  <1> QED
    BY <1>2, <1>3, <1>4, <1>5, <1>6, <1>7, ActCases DEF Acts

\* What is under way of a call's round is the last of its queue, and a node whose vote
\* counts has executed all that the call sent it.
CommandsOK(c, n) ==
  /\ vote[c][n] = "for" => conn[c][n] = <<>>
  /\ \A i \in 1..Len(conn[c][n]) : conn[c][n][i].id \in Ids(c)
  /\ \A i \in 1..Len(conn[c][n]) : conn[c][n][i].live =>
       /\ i = Len(conn[c][n]) /\ conn[c][n][i].id = Own(c)
       /\ conn[c][n][i].op = Doing(pc[c]) /\ conn[c][n][i].expected = version[c]

\* A call that holds nothing yet knows no version.
Unversioned ==
  \A c \in Call : pc[c] \in {"ready", "trying", "acquiring", "cleaning"} => version[c] = 0

Commands == Unversioned /\ \A c \in Call : \A n \in Node : CommandsOK(c, n)

\* Between rounds, nothing is waited for.
LEMMA NoneLive ==
  ASSUME Types, Commands, NEW c \in Call, NEW n \in Node, pc[c] \in {"ready", "held"}
  PROVE  Dead(conn[c][n])
  <1>1. Doing(pc[c]) = "none"
    BY DEF Doing
  <1>2. ASSUME NEW i \in 1..Len(conn[c][n]), conn[c][n][i].live
        PROVE  FALSE
    <2>1. conn[c][n][i].op = "none"
      BY <1>1, <1>2 DEF Commands, CommandsOK
    <2>2. conn[c][n] \in Seq(Command)
      BY DEF Types
    <2>3. conn[c][n][i] \in Command
      BY <2>2, ElementOfSeq
    <2> QED
      BY <2>1, <2>3 DEF Command, Op
  <1> QED
    BY <1>2 DEF Dead

\* Connections hold commands.
LEMMA ConnStep ==
  ASSUME Types, [Next]_vars
  PROVE  conn' \in [Call -> [Node -> Seq(Command)]]
  <1>0. conn \in [Call -> [Node -> Seq(Command)]] /\ pc \in [Call -> PC]
    BY DEF Types, CallsOK
  <1>1. ASSUME NEW c \in Call, Starts(c)
        PROVE  conn' \in [Call -> [Node -> Seq(Command)]]
    <2>1. PICK q \in {conn[c], AbandonAll(conn[c], Op)},
               where \in {"trying", "acquiring", "cleaning", "updating", "releasing"} :
            Opened(c, q, where)
      BY <1>1, StartEffect
    <2>2. conn' = [conn EXCEPT ![c] = [n \in Node |-> Append(q[n], Request(c, where))]]
      BY <2>1 DEF Opened, Send
    <2>3. ASSUME NEW n \in Node
          PROVE  Append(q[n], Request(c, where)) \in Seq(Command)
      <3>1. q[n] \in Seq(Command)
        BY <1>0, <2>1, Abandoned DEF AbandonAll
      <3> QED
        BY <3>1, RequestType, Appended
    <2> QED
      BY <1>0, <2>2, <2>3
  <1>2. ASSUME NEW c \in Call, Ends(c)
        PROVE  conn' \in [Call -> [Node -> Seq(Command)]]
    <2>1. Decided(c)
      BY <1>2, EndEffect
    <2>2. \A n \in Node : Abandon(conn[c][n], Op) \in Seq(Command)
      BY <1>0, Abandoned
    <2> QED
      BY <1>0, <2>1, <2>2 DEF Decided, AbandonAll
  <1>3. ASSUME NEW c \in Call, NEW n \in Node, Timeout(c, n)
        PROVE  conn' \in [Call -> [Node -> Seq(Command)]]
    <2>1. Abandon(conn[c][n], Op) \in Seq(Command)
      BY <1>0, Abandoned
    <2> QED
      BY <1>0, <1>3, <2>1 DEF Timeout
  <1>4. ASSUME NEW c \in Call, NEW n \in Node, Runs(c, n)
        PROVE  conn' \in [Call -> [Node -> Seq(Command)]]
    <2>1. conn[c][n] # <<>> /\ conn' = [conn EXCEPT ![c][n] = Tail(@)]
      BY <1>4, RunEffect DEF Answer
    <2>2. Tail(conn[c][n]) \in Seq(Command)
      BY <1>0, <2>1, HeadCommand
    <2> QED
      BY <1>0, <2>1, <2>2
  <1> QED
    BY <1>0, <1>1, <1>2, <1>3, <1>4, ActCases, TickSame DEF Acts

\* How the calls' own state changes.
LEMMA CallsStep ==
  ASSUME Types, [Next]_vars
  PROVE  CallsOK' /\ faults' \in Nat
  <1>0. /\ pc \in [Call -> PC] /\ vote \in [Call -> [Node -> Vote]]
        /\ stage \in [Call -> {1, 2}] /\ \A c \in Call : stage[c] <= Len(cast.plan[c])
        /\ attempts \in [Call -> Nat] /\ start \in [Call -> Nat] /\ version \in [Call -> Nat]
        /\ lease \in [Call -> Nat] /\ expiration \in [Call -> Nat] /\ updates \in [Call -> Nat]
        /\ now \in Nat /\ faults \in Nat /\ cast' = cast
        /\ Ttl \in Nat /\ Drift \in Nat
    BY Constants, TimePasses DEF Types, CallsOK
  <1>1. faults' \in Nat
    <2>1. ASSUME NEW c \in Call, Starts(c) \/ Ends(c)
          PROVE  faults' = faults
      BY <2>1, StartEffect, EndEffect
    <2>2. ASSUME NEW c \in Call, NEW n \in Node, Runs(c, n) \/ Timeout(c, n)
          PROVE  faults' \in {faults, faults + 1}
      BY <2>2, RunEffect DEF Unchanged, Timeout
    <2>3. ASSUME Tick \/ UNCHANGED vars
          PROVE  faults' = faults
      BY <2>3 DEF Tick, vars
    <2> QED
      BY <1>0, <2>1, <2>2, <2>3, StepCases
  <1>2. vote' \in [Call -> [Node -> Vote]]
    <2>1. Opening({}) \in [Node -> Vote] /\ NoVotes \in [Node -> Vote]
      BY DEF Opening, NoVotes, Vote
    <2>2. ASSUME NEW c \in Call, Starts(c) \/ Ends(c)
          PROVE  vote' \in [Call -> [Node -> Vote]]
      BY <1>0, <2>1, <2>2, StartEffect, EndEffect DEF Opened, Decided
    <2>3. ASSUME NEW c \in Call, NEW n \in Node, Runs(c, n)
          PROVE  vote' \in [Call -> [Node -> Vote]]
      <3>1. vote' = vote \/ \E v \in {"for", "against"} : vote' = [vote EXCEPT ![c][n] = v]
        <4>1. PICK granted : Answer(c, n, granted)
          BY <2>3, RunEffect
        <4> QED
          BY <4>1 DEF Answer
      <3>2. vote \in [Call -> [Node -> Vote]] /\ "for" \in Vote /\ "against" \in Vote
        BY <1>0 DEF Vote
      <3>3. CASE vote' = vote
        BY <3>2, <3>3
      <3>4. ASSUME NEW v \in Vote, vote' = [vote EXCEPT ![c][n] = v]
            PROVE  vote' \in [Call -> [Node -> Vote]]
        BY <3>2, <3>4
      <3> QED
        BY <3>1, <3>2, <3>3, <3>4
    <2>4. ASSUME NEW c \in Call, NEW n \in Node, Timeout(c, n)
          PROVE  vote' \in [Call -> [Node -> Vote]]
      BY <1>0, <2>4 DEF Timeout, Vote
    <2> QED
      BY <1>0, <2>2, <2>3, <2>4, StepCases, TickSame
  <1>3. pc' \in [Call -> PC]
    <2>1. ASSUME NEW c \in Call, NEW where \in PC, Goes(c, where)
          PROVE  pc' \in [Call -> PC]
      BY <1>0, <2>1 DEF Goes
    <2>2. ASSUME NEW c \in Call, Starts(c)
          PROVE  pc' \in [Call -> PC]
      <3>1. \E q, where : where \in PC /\ Opened(c, q, where)
        BY <2>2, StartEffect DEF PC
      <3> QED
        BY <2>1, <3>1 DEF Opened
    <2>3. ASSUME NEW c \in Call, Ends(c)
          PROVE  pc' \in [Call -> PC]
      <3>1. \E where \in PC : Goes(c, where)
        BY <2>3, EndEffect DEF Wins, Loses, PC
      <3> QED
        BY <2>1, <3>1
    <2>4. ASSUME NEW c \in Call, NEW n \in Node, Runs(c, n) \/ Timeout(c, n)
          PROVE  pc' = pc
      BY <2>4, RunEffect DEF Unchanged, Timeout
    <2> QED
      BY <1>0, <2>2, <2>3, <2>4, StepCases, TickSame
  <1>4. stage' \in [Call -> {1, 2}] /\ \A c \in Call : stage'[c] <= Len(cast'.plan[c])
    <2>1. CASE stage' = stage
      BY <1>0, <2>1
    <2>2. ASSUME NEW c \in Call, StageFails(c)
          PROVE  stage' \in [Call -> {1, 2}] /\ \A d \in Call : stage'[d] <= Len(cast'.plan[d])
      <3>1. PICK l \in {1, 2} : Len(cast.plan[c]) = l
        BY Plans DEF Types
      <3>2. stage' = [stage EXCEPT ![c] = IF stage[c] < l THEN stage[c] + 1 ELSE stage[c]]
        BY <2>2, <3>1 DEF StageFails
      <3>3. stage[c] \in {1, 2} /\ stage[c] <= l
        BY <1>0, <3>1
      <3>4. /\ (IF stage[c] < l THEN stage[c] + 1 ELSE stage[c]) \in {1, 2}
            /\ (IF stage[c] < l THEN stage[c] + 1 ELSE stage[c]) <= l
        BY <3>3
      <3>5. stage' \in [Call -> {1, 2}]
        BY <1>0, <3>2, <3>4
      <3>6. stage'[c] <= Len(cast'.plan[c]) /\ \A d \in Call \ {c} : stage'[d] = stage[d]
        BY <1>0, <3>1, <3>2, <3>4
      <3> QED
        BY <1>0, <3>5, <3>6
    <2>3. ASSUME NEW c \in Call, Ends(c)
          PROVE  stage' = stage \/ StageFails(c)
      BY <2>3 DEF Ends, OptimisticSucceeds, OptimisticFails, UpdateSucceeds, UpdateFails,
                  PessimisticSucceeds, PessimisticLate, CleanupDone, ReleaseDone
    <2>4. ASSUME NEW c \in Call, NEW n \in Node, Runs(c, n) \/ Timeout(c, n)
          PROVE  stage' = stage
      BY <2>4, RunEffect DEF Unchanged, Timeout
    <2> QED
      BY <2>1, <2>2, <2>3, <2>4, StepCases, StartEffect, TickSame
  <1>5. start' \in [Call -> Nat]
    <2>1. ASSUME NEW c \in Call, Starts(c) \/ Ends(c)
          PROVE  start' \in [Call -> Nat]
      <3>1. \E t \in {0, now} : start' = [start EXCEPT ![c] = t]
        BY <2>1, StartEffect, EndEffect DEF Decided
      <3> QED
        BY <1>0, <3>1
    <2>2. ASSUME NEW c \in Call, NEW n \in Node, Runs(c, n) \/ Timeout(c, n)
          PROVE  start' = start
      BY <2>2, RunEffect DEF Unchanged, Timeout
    <2> QED
      BY <1>0, <2>1, <2>2, StepCases, TickSame
  <1>6. version' \in [Call -> Nat] /\ lease' \in [Call -> Nat]
    <2>1. ASSUME NEW c \in Call, Ends(c)
          PROVE  version' \in [Call -> Nat] /\ lease' \in [Call -> Nat]
      <3>1. Gains(c) \in Nat
        BY <1>0, Plans DEF Gains, Types
      <3>2. Wins(c) \/ Loses(c)
        BY <2>1, EndEffect
      <3> QED
        BY <1>0, <3>1, <3>2 DEF Wins, Loses
    <2>2. ASSUME NEW c \in Call, NEW n \in Node, Runs(c, n) \/ Timeout(c, n)
          PROVE  version' = version /\ lease' = lease
      BY <2>2, RunEffect DEF Unchanged, Timeout
    <2> QED
      BY <1>0, <2>1, <2>2, StepCases, StartEffect, TickSame
  <1>7. attempts' \in [Call -> Nat] /\ updates' \in [Call -> Nat]
    <2>1. ASSUME NEW c \in Call, Starts(c)
          PROVE  attempts' \in [Call -> Nat] /\ updates' \in [Call -> Nat]
      <3>1. attempts' = attempts \/ attempts' = [attempts EXCEPT ![c] = @ + 1]
        BY <2>1 DEF Starts, StartOptimistic, StartUpdate, StartPessimistic, StartRelease, PessimisticFails
      <3>2. updates' = updates \/ updates' = [updates EXCEPT ![c] = @ + 1]
        BY <2>1 DEF Starts, StartOptimistic, StartUpdate, StartPessimistic, StartRelease, PessimisticFails
      <3>3. attempts \in [Call -> Nat] /\ updates \in [Call -> Nat]
        BY <1>0
      <3>4. attempts' \in [Call -> Nat]
        BY <3>1, <3>3
      <3>5. updates' \in [Call -> Nat]
        BY <3>2, <3>3
      <3> QED
        BY <3>4, <3>5
    <2>2. ASSUME NEW c \in Call, Ends(c)
          PROVE  attempts' \in [Call -> Nat] /\ updates' \in [Call -> Nat]
      <3>1. attempts' = attempts \/ attempts' = [attempts EXCEPT ![c] = 0]
        BY <2>2 DEF Ends, OptimisticSucceeds, OptimisticFails, UpdateSucceeds, UpdateFails,
                    PessimisticSucceeds, PessimisticLate, CleanupDone, ReleaseDone, StageFails
      <3>2. updates' = updates
        BY <2>2 DEF Ends, OptimisticSucceeds, OptimisticFails, UpdateSucceeds, UpdateFails,
                    PessimisticSucceeds, PessimisticLate, CleanupDone, ReleaseDone
      <3>3. attempts \in [Call -> Nat] /\ updates \in [Call -> Nat]
        BY <1>0
      <3>4. attempts' \in [Call -> Nat]
        BY <3>1, <3>3
      <3>5. updates' \in [Call -> Nat]
        BY <3>2, <3>3
      <3> QED
        BY <3>4, <3>5
    <2>3. ASSUME NEW c \in Call, NEW n \in Node, Runs(c, n) \/ Timeout(c, n)
          PROVE  attempts' = attempts /\ updates' = updates
      BY <2>3, RunEffect DEF Unchanged, Timeout
    <2> QED
      BY <1>0, <2>1, <2>2, <2>3, StepCases, TickSame
  <1>8. expiration' \in [Call -> Nat]
    <2>1. ASSUME NEW c \in Call, Ends(c)
          PROVE  expiration' = expiration \/ \E t \in Nat : expiration' = [expiration EXCEPT ![c] = t]
      <3>1. CASE OptimisticSucceeds(c)
        <4>1. expiration' = [expiration EXCEPT ![c] = now + Ttl] /\ now + Ttl \in Nat
          BY <1>0, <3>1 DEF OptimisticSucceeds
        <4> QED
          BY <4>1
      <3>2. CASE PessimisticSucceeds(c)
        <4>1. /\ now < start[c] + Ttl - Drift
              /\ expiration' = [expiration EXCEPT ![c] = start[c] + Ttl - Drift]
          BY <3>2 DEF PessimisticSucceeds, InTime
        <4>2. start[c] + Ttl - Drift \in Nat
          BY <1>0, <4>1
        <4> QED
          BY <4>1, <4>2
      <3>3. CASE ~OptimisticSucceeds(c) /\ ~PessimisticSucceeds(c)
        BY <2>1, <3>3 DEF Ends, OptimisticFails, UpdateSucceeds, UpdateFails, PessimisticLate,
                          CleanupDone, ReleaseDone
      <3> QED
        BY <3>1, <3>2, <3>3
    <2>2. ASSUME NEW c \in Call, NEW n \in Node, Runs(c, n) \/ Timeout(c, n)
          PROVE  expiration' = expiration
      BY <2>2, RunEffect DEF Unchanged, Timeout
    <2> QED
      BY <1>0, <2>1, <2>2, StepCases, StartEffect, TickSame
  <1> QED
    BY <1>1, <1>2, <1>3, <1>4, <1>5, <1>6, <1>7, <1>8 DEF CallsOK

\* Every step keeps the types.
LEMMA TypesStep ==
  Types /\ [Next]_vars => Types'
  BY TimePasses, StoreStep, CallsStep, ConnStep DEF Types

\* The types are an invariant.
LEMMA TypesInvariant == Spec => []Types
  BY TypesInit, TypesStep, PTL DEF Spec

\* Every variable keeps its type, and the key and the version key of a node live exactly
\* as long as somebody owns them and some version was written (the optimistic scripts).
THEOREM TypeCorrect == Spec => []TypeOK
  BY TypesInvariant, TypesImplyTypeOK, PTL

(***************************************************************************)
(* Rounds and their commands.                                              *)
(***************************************************************************)
\* A call's identifiers, and what it expects, do not change.
LEMMA IdsSame ==
  ASSUME Types, [Next]_vars, NEW c \in Call
  PROVE  /\ Ids(c)' = Ids(c) /\ Expected(c)' = Expected(c) /\ (OneEmpty' <=> OneEmpty)
         /\ stage'[c] = stage[c] => Own(c)' = Own(c)
  BY TimePasses DEF Ids, Own, Identifier, Hybrid, Expected, OneEmpty, WritesEmpty

\* Who knows a version is holding, updating or done.
LEMMA UnversionedStep ==
  ASSUME Types, Unversioned, [Next]_vars
  PROVE  Unversioned'
  <1> SUFFICES ASSUME NEW c \in Call, pc'[c] \in {"ready", "trying", "acquiring", "cleaning"}
               PROVE  version'[c] = 0
    BY DEF Unversioned
  <1>0. pc \in [Call -> PC] /\ version \in [Call -> Nat]
    BY DEF Types, CallsOK
  <1>1. CASE Same(c)
    BY <1>1 DEF Same, Unversioned
  <1>2. CASE Starts(c)
    <2>1. version' = version
      BY <1>2, StartEffect
    <2>2. pc[c] \in {"ready", "acquiring"} \/ pc'[c] \in {"updating", "releasing"}
      BY <1>0, <1>2, StartEffect DEF Opened, Goes
    <2> QED
      BY <2>1, <2>2 DEF Unversioned
  <1>3. CASE Ends(c)
    <2>1. pc'[c] = "held" \/ Loses(c)
      BY <1>0, <1>3, EndEffect DEF Wins, Goes
    <2>2. version' = version /\ pc[c] \in {"trying", "acquiring", "cleaning"}
      BY <1>0, <2>1 DEF Loses, Goes
    <2> QED
      BY <2>2 DEF Unversioned
  <1>4. ASSUME NEW n \in Node, Runs(c, n) \/ Timeout(c, n)
        PROVE  version'[c] = 0
    <2>1. version' = version /\ pc' = pc
      BY <1>4, RunEffect DEF Unchanged, Timeout
    <2> QED
      BY <2>1 DEF Unversioned
  <1>5. ASSUME NEW d \in Call, d # c, Acts(d)
        PROVE  Same(c)
    BY <1>5, OthersSame
  <1> QED
    BY <1>1, <1>2, <1>3, <1>4, <1>5, ActCases, TickSame DEF Acts

\* A round is opened by a call of which nothing is awaited, or given up.
LEMMA RequestAfterDead ==
  ASSUME Types, Commands, [Next]_vars, NEW c \in Call, NEW n \in Node, Requested(c, n)
  PROVE  \E q \in Seq(Command) :
           /\ conn'[c][n] = Append(q, Request(c, pc'[c])) /\ Dead(q) /\ Len(q) = Len(conn[c][n])
           /\ \A i \in 1..Len(q) : q[i].id = conn[c][n][i].id
  <1>0. conn[c][n] \in Seq(Command) /\ pc \in [Call -> PC] /\ pc'[c] # pc[c]
    BY DEF Types, CallsOK, Requested
  <1>1. PICK q \in {conn[c][n], Abandon(conn[c][n], Op)} : conn'[c][n] = Append(q, Request(c, pc'[c]))
    BY DEF Requested
  <1>2. CASE q = Abandon(conn[c][n], Op)
    <2>1. /\ q \in Seq(Command) /\ Dead(q) /\ Len(q) = Len(conn[c][n])
          /\ \A i \in 1..Len(q) : q[i].id = conn[c][n][i].id
      BY <1>0, <1>2, Abandoned
    <2> QED
      BY <1>1, <2>1
  <1>3. CASE q = conn[c][n]
    <2>1. CASE pc[c] \in {"ready", "held"}
      <3>1. Dead(q)
        BY <1>3, <2>1, NoneLive
      <3> QED
        BY <1>0, <1>1, <1>3, <3>1
    <2>2. CASE pc[c] \notin {"ready", "held"}
      <3>1. Starts(c)
        <4>1. ~Same(c)
          BY <1>0 DEF Same
        <4>2. Acts(c)
          BY <4>1, ActCases, OthersSame, TickSame
        <4>3. ~Ends(c)
          <5>1. ASSUME Ends(c)
                PROVE  vote'[c][n] = "none"
            <6>1. Decided(c) /\ vote \in [Call -> [Node -> Vote]]
              BY <5>1, EndEffect DEF Types, CallsOK
            <6> QED
              BY <6>1 DEF Decided, NoVotes
          <5> QED
            BY <5>1 DEF Requested
        <4>4. \A m \in Node : ~Runs(c, m) /\ ~Timeout(c, m)
          BY <1>0, RunEffect DEF Unchanged, Timeout
        <4> QED
          BY <4>2, <4>3, <4>4 DEF Acts
      <3>2. Opened(c, AbandonAll(conn[c], Op), "cleaning")
        BY <2>2, <3>1, StartEffect
      <3>3. conn'[c][n] = Append(Abandon(conn[c][n], Op), Request(c, pc'[c]))
        BY <1>0, <3>2 DEF Types, Opened, Send, AbandonAll, Goes
      <3> QED
        BY <1>0, <3>3, Abandoned
    <2> QED
      BY <2>1, <2>2
  <1> QED
    BY <1>1, <1>2, <1>3

\* Every step keeps the connections in order.
LEMMA CommandsStep ==
  ASSUME Types, Commands, [Next]_vars
  PROVE  Commands'
  <1> SUFFICES ASSUME NEW c \in Call, NEW n \in Node
               PROVE  CommandsOK(c, n)'
    BY UnversionedStep DEF Commands
  <1>0. /\ conn[c][n] \in Seq(Command) /\ Ids(c)' = Ids(c) /\ Len(conn[c][n]) \in Nat
        /\ \A i \in 1..Len(conn[c][n]) : conn[c][n][i].id \in Ids(c)
        /\ vote[c][n] = "for" => conn[c][n] = <<>>
        /\ \A i \in 1..Len(conn[c][n]) : conn[c][n][i].live =>
             /\ i = Len(conn[c][n]) /\ conn[c][n][i].id = Own(c)
             /\ conn[c][n][i].op = Doing(pc[c]) /\ conn[c][n][i].expected = version[c]
    BY IdsSame, LenProperties DEF Types, Commands, CommandsOK
  <1>1. CASE Untouched(c, n)
    <2>1. Own(c)' = Own(c)
      BY <1>1, IdsSame DEF Untouched
    <2> QED
      BY <1>0, <1>1, <2>1 DEF Untouched, CommandsOK, Doing
  <1>2. CASE GivenUp(c, n)
    <2>1. Dead(conn'[c][n]) /\ Len(conn'[c][n]) = Len(conn[c][n])
          /\ \A i \in 1..Len(conn[c][n]) : conn'[c][n][i].id = conn[c][n][i].id
      BY <1>0, <1>2, Abandoned DEF GivenUp
    <2>2. vote'[c][n] # "for"
      BY <1>2 DEF GivenUp
    <2> QED
      BY <1>0, <2>1, <2>2 DEF Dead, CommandsOK
  <1>3. CASE Requested(c, n)
    <2> DEFINE cmd == Request(c, pc'[c])
    <2>1. PICK q \in Seq(Command) :
            /\ conn'[c][n] = Append(q, cmd) /\ Dead(q) /\ Len(q) = Len(conn[c][n])
            /\ \A i \in 1..Len(q) : q[i].id = conn[c][n][i].id
      BY <1>3, RequestAfterDead
    <2>2. /\ cmd.live /\ cmd.id = Own(c) /\ cmd.op = Doing(pc'[c]) /\ cmd.id \in Ids(c)
          /\ cmd.expected = (IF pc'[c] = "cleaning" THEN 0 ELSE version[c]) /\ cmd \in Command
      BY <1>3, RequestType DEF Requested, Request
    <2>3. /\ vote'[c][n] = "pending" /\ stage' = stage /\ version' = version
      BY <1>3 DEF Requested
    <2>4. Own(c)' = Own(c) /\ (pc'[c] = "cleaning" => version'[c] = 0)
      BY <2>3, IdsSame, UnversionedStep DEF Commands, Unversioned
    <2> HIDE DEF cmd
    <2>5. /\ Len(Append(q, cmd)) = Len(q) + 1 /\ Append(q, cmd)[Len(q) + 1] = cmd
          /\ \A i \in 1..Len(q) : Append(q, cmd)[i] = q[i]
          /\ \A i \in 1..Len(Append(q, cmd)) : i \in 1..Len(q) \/ i = Len(q) + 1
      BY <2>1, <2>2, Appended
    <2>6. \A i \in 1..Len(conn'[c][n]) : conn'[c][n][i].id \in Ids(c)'
      BY <1>0, <2>1, <2>2, <2>5
    <2>7. ASSUME NEW i \in 1..Len(conn'[c][n]), conn'[c][n][i].live
          PROVE  i = Len(conn'[c][n]) /\ conn'[c][n][i] = cmd
      BY <2>1, <2>5, <2>7 DEF Dead
    <2>8. cmd.op = Doing(pc[c])' /\ cmd.expected = version'[c] /\ cmd.id = Own(c)'
      BY <2>2, <2>3, <2>4 DEF Doing
    <2> QED
      BY <2>3, <2>6, <2>7, <2>8 DEF CommandsOK
  <1>4. CASE Executed(c, n)
    <2>1. /\ conn[c][n] # <<>> /\ conn'[c][n] = Tail(conn[c][n])
          /\ pc' = pc /\ stage' = stage /\ version' = version /\ Own(c)' = Own(c)
      BY <1>4, IdsSame DEF Executed
    <2>2. /\ Head(conn[c][n]) = conn[c][n][1] /\ 1 \in 1..Len(conn[c][n])
          /\ Len(Tail(conn[c][n])) = Len(conn[c][n]) - 1
          /\ \A i \in 1..Len(Tail(conn[c][n])) :
               i + 1 \in 1..Len(conn[c][n]) /\ Tail(conn[c][n])[i] = conn[c][n][i + 1]
          /\ Len(conn[c][n]) = 1 => Tail(conn[c][n]) = <<>>
      BY <1>0, <2>1, HeadCommand
    <2>3. vote'[c][n] = "for" => Tail(conn[c][n]) = <<>>
      <3>1. CASE Head(conn[c][n]).live
        BY <1>0, <2>2, <3>1
      <3>2. CASE ~Head(conn[c][n]).live
        BY <1>0, <1>4, <2>1, <3>2 DEF Executed
      <3> QED
        BY <3>1, <3>2
    <2> DEFINE q == conn[c][n]
               t == Tail(q)
    <2>4. \A i \in 1..Len(t) : t[i].id \in Ids(c)
      BY <1>0, <2>2
    <2>5. \A i \in 1..Len(t) : t[i].live =>
            i = Len(t) /\ t[i].id = Own(c) /\ t[i].op = Doing(pc[c]) /\ t[i].expected = version[c]
      BY <1>0, <2>2
    <2> HIDE DEF t
    <2>6. conn'[c][n] = t /\ (vote'[c][n] = "for" => t = <<>>)
      BY <2>1, <2>3 DEF t
    <2> QED
      BY <1>0, <2>1, <2>4, <2>5, <2>6 DEF CommandsOK, Doing
  <1> QED
    BY <1>1, <1>2, <1>3, <1>4, QueueCases

\* Rounds begin before now, and so did the leases they gave.
Timely == \A c \in Call : start[c] <= now /\ lease[c] <= now

\* Every step keeps rounds and leases from beginning in the future.
LEMMA TimelyStep ==
  ASSUME Types, Timely, [Next]_vars
  PROVE  Timely'
  <1> SUFFICES ASSUME NEW c \in Call
               PROVE  start'[c] <= now' /\ lease'[c] <= now'
    BY DEF Timely
  <1>0. /\ start \in [Call -> Nat] /\ lease \in [Call -> Nat] /\ now \in Nat /\ now' \in Nat
        /\ start[c] <= now /\ lease[c] <= now /\ now <= now'
    <2>1. start \in [Call -> Nat] /\ lease \in [Call -> Nat] /\ now \in Nat
      BY DEF Types, CallsOK
    <2>2. start[c] <= now /\ lease[c] <= now
      BY DEF Timely
    <2>3. now' = now \/ now' = now + 1
      BY TimePasses
    <2> QED
      BY <2>1, <2>2, <2>3
  <1>1. start'[c] \in {0, start[c], now} /\ lease'[c] \in {start[c], lease[c]}
    <2>1. CASE Same(c)
      BY <2>1 DEF Same
    <2>2. CASE Starts(c)
      BY <1>0, <2>2, StartEffect
    <2>3. CASE Ends(c)
      BY <1>0, <2>3, EndEffect DEF Decided, Wins, Loses
    <2>4. ASSUME NEW n \in Node, Runs(c, n) \/ Timeout(c, n)
          PROVE  start' = start /\ lease' = lease
      BY <2>4, RunEffect DEF Unchanged, Timeout
    <2>5. ASSUME NEW d \in Call, d # c, Acts(d)
          PROVE  Same(c)
      BY <2>5, OthersSame
    <2> QED
      BY <2>1, <2>2, <2>3, <2>4, <2>5, ActCases, TickSame DEF Acts
  <1> QED
    BY <1>0, <1>1

(***************************************************************************)
(* What is on a node stays there for its ttl.                              *)
(***************************************************************************)
\* The node has the key of id, and a version of at least v, until the ttl after t.
Backs(n, id, t, v) ==
  /\ store[n].holder = id /\ store[n].expiry >= t + Ttl
  /\ store[n].version >= v
  /\ v > 0 => store[n].fresh >= t + Ttl
BacksNext(n, id, t, v) ==
  /\ store'[n].holder = id /\ store'[n].expiry >= t + Ttl
  /\ store'[n].version >= v
  /\ v > 0 => store'[n].fresh >= t + Ttl

\* Nothing but updates of a version up to v is on its way from c to the node.
Harmless(c, n, v) ==
  \A i \in 1..Len(conn[c][n]) : conn[c][n][i].op = "update" /\ conn[c][n][i].expected <= v

\* What can happen to a node.
WrittenBy(d, n, expected) ==
  /\ Head(conn[d][n]).op \in {"optimistic", "update"}
  /\ Head(conn[d][n]).op = "update" => expected = Head(conn[d][n]).expected
  /\ Head(conn[d][n]).op = "optimistic" => expected = Expected(d)
  /\ Unlocked(n, Head(conn[d][n]).id) /\ store[n].version \in {0, expected}
  /\ store'[n] = Written(Head(conn[d][n]).id, expected + 1)
TakenBy(d, n) ==
  /\ Head(conn[d][n]).op = "pessimistic" /\ Unlocked(n, Head(conn[d][n]).id)
  /\ store'[n] = [holder |-> Head(conn[d][n]).id, expiry |-> now + Ttl,
                  version |-> store[n].version, fresh |-> store[n].fresh]
DroppedBy(d, n) ==
  /\ Head(conn[d][n]).op \in {"release", "cleanup"} /\ store[n].holder = Head(conn[d][n]).id
  /\ store'[n] = [holder |-> NoOne, expiry |-> 0,
                  version |-> store[n].version, fresh |-> store[n].fresh]

\* What one step does to one node.
LEMMA NodeCases ==
  ASSUME Types, [Next]_vars, NEW n \in Node
  PROVE  \/ store'[n] = store[n]
         \/ now' = now + 1 /\ store'[n] = Expired(store[n], now + 1)
         \/ /\ now' = now
            /\ \E d \in Call : /\ conn[d][n] # <<>> /\ Runs(d, n)
                               /\ \/ \E expected \in Nat : WrittenBy(d, n, expected)
                                  \/ TakenBy(d, n) \/ DroppedBy(d, n)
  <1>0. store \in [Node -> Entry] /\ store[n] \in Entry
    BY DEF Types, StoreOK
  <1>1. ASSUME NEW c \in Call, Starts(c) \/ Ends(c)
        PROVE  store' = store
    BY <1>1, StartEffect, EndEffect
  <1>2. ASSUME NEW c \in Call, NEW m \in Node, Timeout(c, m)
        PROVE  store' = store
    BY <1>2 DEF Timeout
  <1>3. ASSUME NEW c \in Call, NEW m \in Node, Runs(c, m), m # n
        PROVE  store'[n] = store[n]
    <2>1. \/ store' = store
          \/ \E id, expected : Writes(m, id, expected)
          \/ \E id : Takes(m, id) \/ Drops(m, id)
      BY <1>3, RunEffect
    <2>2. ASSUME NEW id, NEW expected, Writes(m, id, expected)
          PROVE  store'[n] = store[n]
      BY <1>0, <1>3, <2>2 DEF Writes
    <2>3. ASSUME NEW id, Takes(m, id)
          PROVE  store'[n] = store[n]
      BY <1>0, <1>3, <2>3 DEF Takes
    <2>4. ASSUME NEW id, Drops(m, id)
          PROVE  store'[n] = store[n]
      BY <1>0, <1>3, <2>4 DEF Drops
    <2> QED
      BY <2>1, <2>2, <2>3, <2>4
  <1>4. ASSUME NEW c \in Call, Runs(c, n)
        PROVE  \/ store'[n] = store[n]
               \/ /\ now' = now /\ conn[c][n] # <<>>
                  /\ \/ \E expected \in Nat : WrittenBy(c, n, expected)
                     \/ TakenBy(c, n) \/ DroppedBy(c, n)
    <2> DEFINE cmd == Head(conn[c][n])
    <2>0. conn[c][n] # <<>> /\ now' = now /\ conn[c][n] \in Seq(Command)
      BY <1>4, RunEffect DEF Unchanged, Types
    <2>1. cmd.expected \in Nat /\ Expected(c) \in Nat
      BY <2>0, HeadCommand, Plans DEF Types
    <2>2. CASE store' = store
      BY <2>2
    <2>3. ASSUME NEW expected \in Nat, Writes(n, cmd.id, expected), cmd.op \in {"optimistic", "update"},
                 cmd.op = "update" => expected = cmd.expected,
                 cmd.op = "optimistic" => expected = Expected(c)
          PROVE  WrittenBy(c, n, expected)
      BY <1>0, <2>3 DEF Writes, WrittenBy
    <2>4. ASSUME Takes(n, cmd.id), cmd.op = "pessimistic"
          PROVE  TakenBy(c, n)
      <3>1. store'[n] = [holder |-> cmd.id, expiry |-> now + Ttl,
                         version |-> store[n].version, fresh |-> store[n].fresh]
        BY <1>0, <2>4 DEF Takes, Entry
      <3> QED
        BY <2>4, <3>1 DEF Takes, TakenBy
    <2>5. ASSUME Drops(n, cmd.id), cmd.op \in {"release", "cleanup"}
          PROVE  DroppedBy(c, n)
      <3>1. store'[n] = [holder |-> NoOne, expiry |-> 0,
                         version |-> store[n].version, fresh |-> store[n].fresh]
        BY <1>0, <2>5 DEF Drops, Entry
      <3> QED
        BY <2>5, <3>1 DEF Drops, DroppedBy
    <2> HIDE DEF cmd
    <2>6. \/ store' = store
          \/ \E expected \in {cmd.expected, Expected(c)} :
               /\ Writes(n, cmd.id, expected) /\ cmd.op \in {"optimistic", "update"}
               /\ cmd.op = "update" => expected = cmd.expected
               /\ cmd.op = "optimistic" => expected = Expected(c)
          \/ Takes(n, cmd.id) /\ cmd.op = "pessimistic"
          \/ Drops(n, cmd.id) /\ cmd.op \in {"release", "cleanup"}
      BY <1>4, RunEffect DEF cmd
    <2> QED
      BY <2>0, <2>1, <2>2, <2>3, <2>4, <2>5, <2>6
  <1>5. CASE Tick
    BY <1>5 DEF Tick
  <1> QED
    BY <1>1, <1>2, <1>3, <1>4, <1>5, StepCases DEF vars

\* What backs a call stays for its ttl: only the call's own updates touch it.
LEMMA BacksStays ==
  ASSUME Types, Commands, OneEmpty, [Next]_vars, NEW c \in Call, NEW n \in Node,
         NEW id \in Ids(c), NEW t \in Nat, NEW v \in Nat, Backs(n, id, t, v),
         t <= now, now' < t + Ttl, Harmless(c, n, v)
  PROVE  BacksNext(n, id, t, v)
  <1>0. /\ store[n] \in Entry /\ now \in Nat /\ Ttl \in Nat /\ id # NoOne /\ now' \in Nat
        /\ store[n].holder = id /\ store[n].expiry >= t + Ttl
        /\ store[n].version >= v /\ (v > 0 => store[n].fresh >= t + Ttl)
    <2>1. id # NoOne /\ now \in Nat /\ store[n] \in Entry
      BY IdsType DEF Types, StoreOK
    <2>2. now' \in Nat /\ Ttl \in Nat
      BY TimePasses, Constants
    <2> QED
      BY <2>1, <2>2 DEF Backs
  <1>1. CASE store'[n] = store[n]
    BY <1>0, <1>1 DEF BacksNext
  <1>2. CASE now' = now + 1 /\ store'[n] = Expired(store[n], now + 1)
    BY <1>0, <1>2 DEF Expired, Entry, BacksNext
  <1>3. ASSUME NEW d \in Call, conn[d][n] # <<>>, Head(conn[d][n]).id = id
        PROVE  Head(conn[d][n]).op = "update" /\ Head(conn[d][n]).expected <= v
    <2>1. /\ conn[d][n] \in Seq(Command)
          /\ \A i \in 1..Len(conn[d][n]) : conn[d][n][i].id \in Ids(d)
      BY DEF Types, Commands, CommandsOK
    <2>2. Head(conn[d][n]) = conn[d][n][1] /\ 1 \in 1..Len(conn[d][n])
      BY <1>3, <2>1, HeadCommand
    <2>3. id \in Ids(d)
      BY <1>3, <2>1, <2>2
    <2>4. d = c
      BY <2>3, IdsDiffer DEF Types
    <2> QED
      BY <2>2, <2>4 DEF Harmless
  <1>4. ASSUME NEW d \in Call, NEW expected \in Nat, conn[d][n] # <<>>, WrittenBy(d, n, expected)
        PROVE  BacksNext(n, id, t, v)
    <2>1. Head(conn[d][n]).id = id
      BY <1>0, <1>4 DEF WrittenBy, Unlocked
    <2>2. expected <= v
      BY <1>3, <1>4, <2>1 DEF WrittenBy
    <2>3. store[n].version \in {0, expected} /\ store[n].version \in Nat
      BY <1>0, <1>4 DEF WrittenBy, Entry
    <2>4. expected + 1 >= v
      BY <1>0, <2>2, <2>3
    <2>5. store'[n] = [holder |-> id, expiry |-> now + Ttl, version |-> expected + 1, fresh |-> now + Ttl]
      BY <1>4, <2>1 DEF WrittenBy, Written
    <2>6. now + Ttl >= t + Ttl
      BY <1>0
    <2> QED
      BY <2>4, <2>5, <2>6 DEF BacksNext
  <1>5. ASSUME NEW d \in Call, conn[d][n] # <<>>, TakenBy(d, n)
        PROVE  FALSE
    <2>1. Head(conn[d][n]).id = id
      BY <1>0, <1>5 DEF TakenBy, Unlocked
    <2> QED
      BY <1>3, <1>5, <2>1 DEF TakenBy
  <1>6. ASSUME NEW d \in Call, conn[d][n] # <<>>, DroppedBy(d, n)
        PROVE  FALSE
    <2>1. Head(conn[d][n]).id = id
      BY <1>0, <1>6 DEF DroppedBy
    <2> QED
      BY <1>3, <1>6, <2>1 DEF DroppedBy
  <1> QED
    BY <1>1, <1>2, <1>4, <1>5, <1>6, NodeCases

(***************************************************************************)
(* Votes, and what they are worth.                                         *)
(***************************************************************************)
Granting == {"trying", "updating", "acquiring"}

\* The call's own state after a step that its round outlives.
RoundGoesOn(c) ==
  /\ pc'[c] = pc[c] /\ stage'[c] = stage[c] /\ version'[c] = version[c]
  /\ start'[c] = start[c] /\ lease'[c] = lease[c]

\* A vote for has been there, or its node executes the command of the round now.
VotesNow(c, n) ==
  /\ RoundGoesOn(c) /\ now' = now
  /\ \/ /\ pc[c] \in {"trying", "updating"} /\ WrittenBy(c, n, Gains(c) - 1)
        /\ store'[n] = Written(Own(c), Gains(c))
     \/ /\ pc[c] = "acquiring" /\ TakenBy(c, n)
        /\ store'[n].holder = Own(c) /\ store'[n].expiry = now + Ttl
        /\ store'[n].version = store[n].version

\* A round of the optimistic strategy is for a version above 0.
LEMMA GainsType ==
  ASSUME Types, NEW c \in Call
  PROVE  Gains(c) \in Nat /\ (pc[c] \in {"trying", "updating"} => Gains(c) > 0)
  <1>1. Expected(c) \in Nat /\ version[c] \in Nat
    BY Plans DEF Types, CallsOK
  <1> QED
    BY <1>1 DEF Gains

\* A round that goes on is for the version it was for.
LEMMA GainsSame ==
  ASSUME Types, [Next]_vars, NEW c \in Call, RoundGoesOn(c)
  PROVE  Gains(c)' = Gains(c) /\ Own(c)' = Own(c)
  BY IdsSame DEF RoundGoesOn, Gains

\* A vote for was there, or its script runs in this step and says what is on the node.
LEMMA VoteCases ==
  ASSUME Types, Commands, [Next]_vars, NEW c \in Call, NEW n \in Node,
         vote'[c][n] = "for", pc'[c] \in Granting
  PROVE  \/ vote[c][n] = "for" /\ RoundGoesOn(c)
         \/ VotesNow(c, n)
  <1>0. /\ vote \in [Call -> [Node -> Vote]] /\ store \in [Node -> Entry]
        /\ conn \in [Call -> [Node -> Seq(Command)]]
    BY DEF Types, CallsOK, StoreOK
  <1>1. CASE Same(c)
    BY <1>1 DEF Same, RoundGoesOn
  <1>2. CASE Starts(c)
    <2>1. \E q, where : Opened(c, q, where)
      BY <1>2, StartEffect
    <2> QED
      BY <1>0, <2>1 DEF Opened, Opening
  <1>3. CASE Ends(c)
    BY <1>0, <1>3, EndEffect DEF Decided, NoVotes
  <1>4. ASSUME NEW m \in Node, Timeout(c, m)
        PROVE  vote[c][n] = "for" /\ RoundGoesOn(c)
    BY <1>0, <1>4 DEF Timeout, RoundGoesOn
  <1>5. ASSUME NEW m \in Node, Runs(c, m)
        PROVE  (vote[c][n] = "for" /\ RoundGoesOn(c)) \/ VotesNow(c, n)
    <2> DEFINE cmd == Head(conn[c][m])
    <2>1. RoundGoesOn(c) /\ pc'[c] = pc[c] /\ now' = now /\ conn[c][m] # <<>>
      BY <1>5, RunEffect DEF Unchanged, RoundGoesOn
    <2>2. ASSUME NEW granted, Answer(c, m, granted), m # n \/ ~cmd.live \/ ~granted
          PROVE  vote[c][n] = "for"
      BY <1>0, <2>2 DEF Answer
    <2>3. ASSUME m = n, cmd.live, Answer(c, n, TRUE)
          PROVE  VotesNow(c, n)
      <3>1. conn[c][n] \in Seq(Command) /\ CommandsOK(c, n)
        BY <1>0 DEF Commands
      <3>2. cmd = conn[c][n][1] /\ 1 \in 1..Len(conn[c][n])
        BY <2>1, <2>3, <3>1, HeadCommand
      <3>3. cmd.id = Own(c) /\ cmd.op = Doing(pc[c]) /\ cmd.expected = version[c]
        BY <2>3, <3>1, <3>2 DEF CommandsOK
      <3>4. pc[c] \in Granting /\ vote'[c][n] = "for"
        BY <2>1
      <3>5. version[c] \in Nat /\ Expected(c) \in Nat
        BY Plans DEF Types, CallsOK
      <3>6. store[n] \in Entry
        BY <1>0
      <3>7. CASE pc[c] = "trying"
        <4>1. cmd.op = "optimistic" /\ Gains(c) = Expected(c) + 1 /\ Gains(c) - 1 = Expected(c)
          BY <3>3, <3>5, <3>7 DEF Doing, Gains
        <4>2. Writes(n, cmd.id, Expected(c)) \/ Answer(c, n, FALSE)
          BY <1>5, <2>3, <4>1, RunEffect
        <4>3. ~Answer(c, n, FALSE)
          BY <1>0, <2>3, <3>4 DEF Answer
        <4>4. Writes(n, Own(c), Expected(c))
          BY <3>3, <4>2, <4>3
        <4>5. store'[n] = Written(Own(c), Gains(c))
          BY <1>0, <4>1, <4>4 DEF Writes
        <4>6. WrittenBy(c, n, Gains(c) - 1)
          BY <2>3, <3>3, <4>1, <4>4, <4>5 DEF WrittenBy, Writes
        <4> QED
          BY <2>1, <3>7, <4>5, <4>6 DEF VotesNow
      <3>8. CASE pc[c] = "updating"
        <4>1. cmd.op = "update" /\ Gains(c) = version[c] + 1 /\ Gains(c) - 1 = version[c]
          BY <3>3, <3>5, <3>8 DEF Doing, Gains
        <4>2. Writes(n, cmd.id, cmd.expected) \/ Answer(c, n, FALSE)
          BY <1>5, <2>3, <4>1, RunEffect
        <4>3. ~Answer(c, n, FALSE)
          BY <1>0, <2>3, <3>4 DEF Answer
        <4>4. Writes(n, Own(c), version[c])
          BY <3>3, <4>2, <4>3
        <4>5. store'[n] = Written(Own(c), Gains(c))
          BY <1>0, <4>1, <4>4 DEF Writes
        <4>6. WrittenBy(c, n, Gains(c) - 1)
          BY <2>3, <3>3, <4>1, <4>4, <4>5 DEF WrittenBy, Writes
        <4> QED
          BY <2>1, <3>8, <4>5, <4>6 DEF VotesNow
      <3>9. CASE pc[c] = "acquiring"
        <4>1. cmd.op = "pessimistic"
          BY <3>3, <3>9 DEF Doing
        <4>2. Takes(n, cmd.id) \/ Answer(c, n, FALSE)
          BY <1>5, <2>3, <4>1, RunEffect
        <4>3. ~Answer(c, n, FALSE)
          BY <1>0, <2>3, <3>4 DEF Answer
        <4>4. Takes(n, Own(c))
          BY <3>3, <4>2, <4>3
        <4>5. store'[n] = [holder |-> Own(c), expiry |-> now + Ttl,
                           version |-> store[n].version, fresh |-> store[n].fresh]
          BY <1>0, <3>6, <4>4 DEF Takes, Entry
        <4>6. TakenBy(c, n)
          BY <2>3, <3>3, <4>1, <4>4, <4>5 DEF TakenBy, Takes
        <4> QED
          BY <2>1, <3>9, <4>5, <4>6 DEF VotesNow
      <3> QED
        BY <3>4, <3>7, <3>8, <3>9 DEF Granting
    <2>4. \E granted \in BOOLEAN : Answer(c, m, granted)
      BY <1>5, RunEffect
    <2> HIDE DEF cmd
    <2> QED
      BY <2>1, <2>2, <2>3, <2>4
  <1>6. ASSUME NEW d \in Call, d # c, Acts(d)
        PROVE  Same(c)
    BY <1>6, OthersSame
  <1> QED
    BY <1>1, <1>2, <1>3, <1>4, <1>5, <1>6, ActCases, TickSame DEF Acts

\* A vote for is worth the key, and the version, until the ttl after the round began.
VotesBacked ==
  \A c \in Call : \A n \in Node :
    vote[c][n] = "for" /\ pc[c] \in Granting /\ now < start[c] + Ttl =>
      Backs(n, Own(c), start[c], Gains(c))

\* Nothing is under way to a node whose vote counts.
LEMMA NothingUnderWay ==
  ASSUME Commands, NEW c \in Call, NEW n \in Node, vote[c][n] = "for", NEW v
  PROVE  Harmless(c, n, v)
  <1>1. conn[c][n] = <<>>
    BY DEF Commands, CommandsOK
  <1> QED
    BY <1>1 DEF Harmless

\* Every step keeps the votes backed.
LEMMA VotesBackedStep ==
  ASSUME Types, Commands, Timely, OneEmpty, VotesBacked, [Next]_vars
  PROVE  VotesBacked'
  <1> SUFFICES ASSUME NEW c \in Call, NEW n \in Node,
                      vote'[c][n] = "for", pc'[c] \in Granting, now' < start'[c] + Ttl
               PROVE  Backs(n, Own(c), start[c], Gains(c))'
    BY DEF VotesBacked
  <1>0. /\ start[c] \in Nat /\ now \in Nat /\ Ttl \in Nat /\ start[c] <= now /\ now <= now'
        /\ now' \in Nat
    BY Constants, TimePasses DEF Types, CallsOK, Timely
  <1>1. RoundGoesOn(c)
    BY VoteCases DEF VotesNow
  <1>2. Own(c)' = Own(c) /\ Gains(c)' = Gains(c) /\ start'[c] = start[c] /\ pc'[c] = pc[c]
    BY <1>1, GainsSame DEF RoundGoesOn
  <1>3. SUFFICES BacksNext(n, Own(c), start[c], Gains(c))
    BY <1>2 DEF Backs, BacksNext
  <1>4. CASE vote[c][n] = "for"
    <2>1. Backs(n, Own(c), start[c], Gains(c))
      BY <1>0, <1>2, <1>4 DEF VotesBacked
    <2>2. Harmless(c, n, Gains(c))
      BY <1>4, NothingUnderWay
    <2> QED
      BY <1>0, <1>2, <2>1, <2>2, BacksStays, OwnId, GainsType
  <1>5. CASE VotesNow(c, n)
    <2>1. now + Ttl >= start[c] + Ttl /\ store[n].version \in Nat
      BY <1>0 DEF Types, StoreOK, Entry
    <2>2. CASE pc[c] = "acquiring"
      <3>1. Gains(c) = 0
        BY <2>2 DEF Gains
      <3> QED
        BY <1>5, <2>1, <2>2, <3>1 DEF VotesNow, BacksNext
    <2>3. CASE pc[c] # "acquiring"
      <3>1. store'[n] = [holder |-> Own(c), expiry |-> now + Ttl, version |-> Gains(c),
                         fresh |-> now + Ttl]
        BY <1>5, <2>3 DEF VotesNow, Written
      <3>2. Gains(c) >= Gains(c)
        BY GainsType
      <3> QED
        BY <2>1, <3>1, <3>2 DEF BacksNext
    <2> QED
      BY <2>2, <2>3
  <1> QED
    BY <1>4, <1>5, VoteCases

(***************************************************************************)
(* What a call holds.                                                      *)
(***************************************************************************)
\* The nodes that back it, and to which nothing is on its way that could change that.
Backing(c) == {n \in Node : Backs(n, Own(c), lease[c], version[c]) /\ Harmless(c, n, version[c])}

LockBacked == \A c \in Call : Holds(c) => Cardinality(Backing(c)) >= QuorumSize

\* The nodes that back a call can be counted.
LEMMA BackingFinite ==
  ASSUME NEW c \in Call
  PROVE  /\ IsFiniteSet(Backing(c)) /\ IsFiniteSet(Backing(c)') /\ QuorumSize \in Nat
         /\ \A X : X \subseteq Backing(c)' =>
              Cardinality(X) \in Nat /\ Cardinality(X) <= Cardinality(Backing(c)')
         /\ Cardinality(Backing(c)') \in Nat
  <1>1. Backing(c) \subseteq Node /\ Backing(c)' \subseteq Node
    BY DEF Backing
  <1>2. IsFiniteSet(Backing(c)) /\ IsFiniteSet(Backing(c)')
    BY <1>1, FS_Subset, NodeAssumption
  <1>3. QuorumSize \in Nat
    BY NodeAssumption, FS_CardinalityType DEF QuorumSize
  <1> QED
    BY <1>2, <1>3, FS_Subset, FS_CardinalityType

\* A call that holds its lock sends nothing but updates of what it holds.
LEMMA HarmlessStays ==
  ASSUME Types, [Next]_vars, NEW c \in Call, NEW n \in Node, NEW v \in Nat, Harmless(c, n, v),
         version'[c] = v, pc'[c] \in {"held", "updating"}
  PROVE  \A i \in 1..Len(conn'[c][n]) :
           conn'[c][n][i].op = "update" /\ conn'[c][n][i].expected <= v
  <1>0. /\ conn[c][n] \in Seq(Command)
        /\ \A i \in 1..Len(conn[c][n]) : conn[c][n][i].op = "update" /\ conn[c][n][i].expected <= v
    BY DEF Types, Harmless
  <1>1. CASE Untouched(c, n)
    BY <1>0, <1>1 DEF Untouched
  <1>2. /\ Len(Abandon(conn[c][n], Op)) = Len(conn[c][n]) /\ Abandon(conn[c][n], Op) \in Seq(Command)
        /\ \A i \in 1..Len(conn[c][n]) : /\ Abandon(conn[c][n], Op)[i].op = conn[c][n][i].op
                                         /\ Abandon(conn[c][n], Op)[i].expected = conn[c][n][i].expected
    BY <1>0, Abandoned
  <1>3. CASE GivenUp(c, n)
    BY <1>0, <1>2, <1>3 DEF GivenUp
  <1>4. CASE Requested(c, n)
    <2> DEFINE cmd == Request(c, pc'[c])
    <2>1. pc'[c] = "updating" /\ version' = version
      BY <1>4 DEF Requested
    <2>2. PICK q \in {conn[c][n], Abandon(conn[c][n], Op)} : conn'[c][n] = Append(q, cmd)
      BY <1>4 DEF Requested
    <2>3. cmd \in Command /\ cmd.op = "update" /\ cmd.expected = v
      BY <2>1, RequestType DEF Request, Doing
    <2>4. q \in Seq(Command) /\ \A i \in 1..Len(q) : q[i].op = "update" /\ q[i].expected <= v
      BY <1>0, <1>2, <2>2
    <2> HIDE DEF cmd
    <2>5. /\ Append(q, cmd)[Len(q) + 1] = cmd
          /\ \A i \in 1..Len(q) : Append(q, cmd)[i] = q[i]
          /\ \A i \in 1..Len(Append(q, cmd)) : i \in 1..Len(q) \/ i = Len(q) + 1
      BY <2>3, <2>4, Appended
    <2>6. cmd.op = "update" /\ cmd.expected <= v
      BY <2>3
    <2> QED
      BY <2>2, <2>4, <2>5, <2>6
  <1>5. CASE Executed(c, n)
    <2>1. conn[c][n] # <<>> /\ conn'[c][n] = Tail(conn[c][n])
      BY <1>5 DEF Executed
    <2>2. \A i \in 1..Len(Tail(conn[c][n])) :
            i + 1 \in 1..Len(conn[c][n]) /\ Tail(conn[c][n])[i] = conn[c][n][i + 1]
      BY <1>0, <2>1, HeadCommand
    <2> DEFINE t == Tail(conn[c][n])
    <2>3. \A i \in 1..Len(t) : t[i].op = "update" /\ t[i].expected <= v
      BY <1>0, <2>2
    <2> HIDE DEF t
    <2>4. conn'[c][n] = t
      BY <2>1 DEF t
    <2> QED
      BY <2>3, <2>4
  <1> QED
    BY <1>1, <1>3, <1>4, <1>5, QueueCases

\* A call holds what it held, or a quorum of votes gives it something new.
LEMMA HoldCases ==
  ASSUME Types, [Next]_vars, NEW c \in Call, Holds(c)'
  PROVE  \/ /\ Holds(c)
            /\ stage'[c] = stage[c] /\ version'[c] = version[c] /\ lease'[c] = lease[c]
         \/ Ends(c) /\ Wins(c)
  <1>0. /\ pc \in [Call -> PC] /\ version \in [Call -> Nat] /\ lease \in [Call -> Nat]
        /\ now \in Nat /\ now' \in Nat /\ now <= now' /\ Ttl \in Nat
        /\ pc'[c] \in {"held", "updating"} /\ now' < lease'[c] + Ttl
    BY TimePasses, Constants DEF Types, CallsOK, Holds
  <1>1. ASSUME pc[c] \in {"held", "updating"}, lease'[c] = lease[c]
        PROVE  Holds(c)
    <2>1. lease[c] \in Nat
      BY <1>0
    <2> QED
      BY <1>0, <1>1, <2>1 DEF Holds
  <1>2. CASE Same(c)
    BY <1>0, <1>1, <1>2 DEF Same
  <1>3. CASE Starts(c)
    <2>1. stage' = stage /\ version' = version /\ lease' = lease
      BY <1>3, StartEffect
    <2>2. pc[c] = "held"
      BY <1>0, <1>3, StartEffect DEF Opened, Goes
    <2> QED
      BY <1>1, <2>1, <2>2
  <1>4. CASE Ends(c)
    <2>1. CASE Wins(c)
      BY <1>4, <2>1
    <2>2. CASE Loses(c)
      <3>1. version' = version /\ lease' = lease
        BY <2>2 DEF Loses
      <3>2. pc[c] = "updating" /\ stage' = stage
        BY <1>0, <2>2 DEF Loses, Goes
      <3> QED
        BY <1>1, <3>1, <3>2
    <2> QED
      BY <1>4, <2>1, <2>2, EndEffect
  <1>5. ASSUME NEW n \in Node, Runs(c, n) \/ Timeout(c, n)
        PROVE  pc' = pc /\ stage' = stage /\ version' = version /\ lease' = lease
    BY <1>5, RunEffect DEF Unchanged, Timeout
  <1>6. ASSUME NEW n \in Node, Runs(c, n) \/ Timeout(c, n)
        PROVE  Holds(c) /\ stage'[c] = stage[c] /\ version'[c] = version[c] /\ lease'[c] = lease[c]
    BY <1>0, <1>1, <1>5, <1>6
  <1>7. ASSUME NEW d \in Call, d # c, Acts(d)
        PROVE  Same(c)
    BY <1>7, OthersSame
  <1> QED
    BY <1>2, <1>3, <1>4, <1>6, <1>7, ActCases, TickSame DEF Acts

\* Every step keeps what is held backed.
LEMMA LockBackedStep ==
  ASSUME Types, Commands, Timely, OneEmpty, VotesBacked, LockBacked, [Next]_vars
  PROVE  LockBacked'
  <1> SUFFICES ASSUME NEW c \in Call, Holds(c)'
               PROVE  Cardinality(Backing(c)') >= QuorumSize
    BY DEF LockBacked
  <1>0. /\ lease[c] \in Nat /\ start[c] \in Nat /\ version[c] \in Nat /\ now \in Nat /\ Ttl \in Nat
        /\ now' \in Nat /\ now <= now' /\ lease[c] <= now /\ start[c] <= now
        /\ now' < lease'[c] + Ttl /\ pc'[c] \in {"held", "updating"}
        /\ lease \in [Call -> Nat] /\ version \in [Call -> Nat]
        /\ vote \in [Call -> [Node -> Vote]] /\ conn \in [Call -> [Node -> Seq(Command)]]
    <2>1. /\ lease \in [Call -> Nat] /\ start \in [Call -> Nat] /\ version \in [Call -> Nat]
          /\ vote \in [Call -> [Node -> Vote]] /\ conn \in [Call -> [Node -> Seq(Command)]]
          /\ now \in Nat
      BY DEF Types, CallsOK
    <2>2. lease[c] <= now /\ start[c] <= now
      BY DEF Timely
    <2>3. now' < lease'[c] + Ttl /\ pc'[c] \in {"held", "updating"}
      BY DEF Holds
    <2>4. Ttl \in Nat /\ (now' = now \/ now' = now + 1)
      BY Constants, TimePasses
    <2> QED
      BY <2>1, <2>2, <2>3, <2>4
  <1>1. ASSUME Holds(c), stage'[c] = stage[c], version'[c] = version[c], lease'[c] = lease[c]
        PROVE  Cardinality(Backing(c)') >= QuorumSize
    <2>1. Cardinality(Backing(c)) >= QuorumSize
      BY <1>1 DEF LockBacked
    <2>2. ASSUME NEW n \in Backing(c)
          PROVE  n \in Backing(c)'
      <3>1. n \in Node /\ Backs(n, Own(c), lease[c], version[c]) /\ Harmless(c, n, version[c])
        BY DEF Backing
      <3>2. BacksNext(n, Own(c), lease[c], version[c])
        BY <1>0, <1>1, <3>1, BacksStays, OwnId
      <3>3. Own(c)' = Own(c)
        BY <1>1, IdsSame
      <3>4. Backs(n, Own(c), lease[c], version[c])'
        BY <1>1, <3>2, <3>3 DEF Backs, BacksNext
      <3>5. Harmless(c, n, version[c])'
        BY <1>0, <1>1, <3>1, HarmlessStays DEF Harmless
      <3> QED
        BY <3>1, <3>4, <3>5 DEF Backing
    <2>3. Backing(c) \subseteq Backing(c)'
      BY <2>2
    <2> QED
      BY <2>1, <2>3, BackingFinite
  <1>2. ASSUME Ends(c), Wins(c)
        PROVE  Cardinality(Backing(c)') >= QuorumSize
    <2>1. Cardinality(With(vote[c], "for")) >= QuorumSize
      BY <1>2 DEF Wins, Quorum
    <2>2. Decided(c) /\ store' = store /\ now' = now /\ stage' = stage
      BY <1>2, EndEffect DEF Wins
    <2>3. /\ lease'[c] = start[c] /\ pc[c] \in Granting /\ version'[c] = Gains(c)
      <3>1. pc[c] = "acquiring" => version[c] = 0 /\ Gains(c) = 0
        BY DEF Commands, Unversioned, Gains
      <3> QED
        BY <1>0, <1>2, <3>1 DEF Wins, Granting
    <2>4. Own(c)' = Own(c)
      BY <2>2, IdsSame
    <2>5. ASSUME NEW n \in With(vote[c], "for")
          PROVE  n \in Backing(c)'
      <3>1. n \in Node /\ vote[c][n] = "for"
        BY DEF With
      <3>2. Backs(n, Own(c), start[c], Gains(c))
        BY <1>0, <2>2, <2>3, <3>1 DEF VotesBacked
      <3>3. Backs(n, Own(c), lease[c], version[c])'
        BY <2>2, <2>3, <2>4, <3>2 DEF Backs
      <3>4. conn[c][n] = <<>> /\ conn[c][n] \in Seq(Command)
        BY <1>0, <3>1 DEF Commands, CommandsOK
      <3>5. conn'[c][n] = Abandon(conn[c][n], Op)
        BY <1>0, <2>2, <3>1 DEF Decided, AbandonAll
      <3>6. Len(conn'[c][n]) = 0
        BY <3>4, <3>5, Abandoned
      <3>7. Harmless(c, n, version[c])'
        BY <3>6 DEF Harmless
      <3> QED
        BY <3>1, <3>3, <3>7 DEF Backing
    <2>6. With(vote[c], "for") \subseteq Backing(c)'
      BY <2>5
    <2> QED
      BY <2>1, <2>6, BackingFinite
  <1> QED
    BY <1>1, <1>2, HoldCases


(***************************************************************************)
(* The inductive invariant.                                                *)
(***************************************************************************)
HoldInv ==
  /\ Commands /\ Timely
  /\ OneEmpty => VotesBacked /\ LockBacked

\* The plans do not change, so that '' is written by one call for good or not at all.
LEMMA OneEmptyStays ==
  ASSUME Types, [Next]_vars
  PROVE  OneEmpty' <=> OneEmpty
  BY TimePasses DEF Hybrid, OneEmpty, WritesEmpty

\* The invariant holds at first.
LEMMA HoldInit == Init => HoldInv
  <1> SUFFICES ASSUME Init
               PROVE  HoldInv
    OBVIOUS
  <1>1. \A c \in Call : pc[c] = "ready" /\ vote[c] = NoVotes
    BY DEF Init
  <1>2. \A c \in Call : version[c] = 0 /\ start[c] = 0 /\ lease[c] = 0
    <2>1. attempts = [c \in Call |-> 0] /\ start = attempts /\ version = attempts /\ lease = attempts
      BY DEF Init
    <2> QED
      BY <2>1
  <1>3. \A c \in Call, n \in Node : conn[c][n] = <<>> /\ vote[c][n] = "none"
    BY <1>1 DEF Init, NoVotes
  <1>4. Commands
    BY <1>2, <1>3 DEF Commands, Unversioned, CommandsOK
  <1>5. Timely
    BY <1>2 DEF Init, Timely
  <1>6. VotesBacked /\ LockBacked
    BY <1>1, <1>3 DEF VotesBacked, LockBacked, Holds
  <1> QED
    BY <1>4, <1>5, <1>6 DEF HoldInv

\* Every step keeps the invariant.
LEMMA HoldStep == Types /\ HoldInv /\ [Next]_vars => HoldInv'
  <1> SUFFICES ASSUME Types, HoldInv, [Next]_vars
               PROVE  HoldInv'
    OBVIOUS
  <1>1. Commands' /\ Timely'
    BY CommandsStep, TimelyStep DEF HoldInv
  <1>2. ASSUME OneEmpty'
        PROVE  VotesBacked' /\ LockBacked'
    BY <1>2, OneEmptyStays, VotesBackedStep, LockBackedStep DEF HoldInv
  <1> QED
    BY <1>1, <1>2 DEF HoldInv

\* It is an invariant.
LEMMA HoldInvariant == Spec => [](Types /\ HoldInv)
  BY TypesInit, TypesStep, HoldInit, HoldStep, PTL DEF Spec

(***************************************************************************)
(* What a call holds, and that nobody else does.                           *)
(***************************************************************************)
IsQuorum(Q) == Q \subseteq Node /\ Cardinality(Q) >= QuorumSize

\* Two quorums share a node.
LEMMA QuorumsMeet ==
  ASSUME NEW Q, NEW R, IsQuorum(Q), IsQuorum(R)
  PROVE  \E n \in Node : n \in Q /\ n \in R
  <1>1. /\ IsFiniteSet(Q) /\ IsFiniteSet(R)
        /\ Cardinality(Q) \in Nat /\ Cardinality(R) \in Nat /\ Cardinality(Node) \in Nat
    BY NodeAssumption, FS_Subset, FS_CardinalityType DEF IsQuorum
  <1>2. Cardinality(Q) + Cardinality(R) > Cardinality(Node)
    BY <1>1 DEF IsQuorum, QuorumSize
  <1>3. Q \cap R # {}
    BY <1>1, <1>2, NodeAssumption, FS_MajoritiesIntersect DEF IsQuorum
  <1> QED
    BY <1>3 DEF IsQuorum

\* What a call holds is on a quorum of nodes: its key, and a version no older than the one
\* it was told.  No cleanup, release, update or leftover takes it away before its ttl is over.
THEOREM HoldingIsBacked == Spec => []HoldingBacked
  <1>1. Types /\ HoldInv => HoldingBacked
    <2> SUFFICES ASSUME Types, HoldInv, OneEmpty, NEW c \in Call, Holds(c)
                 PROVE  Cardinality({n \in Node : /\ store[n].holder = Own(c)
                                                  /\ store[n].version >= version[c]}) >= QuorumSize
      BY DEF HoldingBacked
    <2> DEFINE S == {n \in Node : store[n].holder = Own(c) /\ store[n].version >= version[c]}
    <2>1. Cardinality(Backing(c)) >= QuorumSize
      BY DEF HoldInv, LockBacked
    <2>2. Backing(c) \subseteq S /\ S \subseteq Node
      BY DEF Backing, Backs
    <2>3. IsFiniteSet(S) /\ Cardinality(Backing(c)) \in Nat /\ Cardinality(S) \in Nat
          /\ QuorumSize \in Nat
      BY <2>2, BackingFinite, NodeAssumption, FS_Subset, FS_CardinalityType
    <2>4. Cardinality(Backing(c)) <= Cardinality(S)
      BY <2>2, <2>3, FS_Subset
    <2> HIDE DEF S
    <2>5. Cardinality(S) >= QuorumSize
      BY <2>1, <2>3, <2>4
    <2> QED
      BY <2>5 DEF S
  <1> QED
    BY <1>1, HoldInvariant, PTL

\* Plain, optimistic and hybrid locks exclude each other on the key they share: two calls
\* never hold it at once, as long as at most one of them can write the identifier ''.
THEOREM StrategiesAreExclusive == Spec => []StrategiesExclude
  <1>1. Types /\ HoldInv => StrategiesExclude
    <2> SUFFICES ASSUME Types, HoldInv, OneEmpty, NEW c \in Call, NEW d \in Call,
                        Holds(c), Holds(d), c # d
                 PROVE  FALSE
      BY DEF StrategiesExclude
    <2>1. IsQuorum(Backing(c)) /\ IsQuorum(Backing(d))
      BY DEF HoldInv, LockBacked, IsQuorum, Backing
    <2>2. PICK n \in Node : n \in Backing(c) /\ n \in Backing(d)
      BY <2>1, QuorumsMeet
    <2>3. Own(c) = Own(d)
      BY <2>2 DEF Backing, Backs
    <2> QED
      BY <2>3, OwnId, IdsDiffer DEF Types
  <1> QED
    BY <1>1, HoldInvariant, PTL


(***************************************************************************)
(* Versions.                                                               *)
(***************************************************************************)
\* The version key of the node stands at v or above until the ttl after t.
Remembers(n, t, v) ==
  now < t + Ttl => store[n].version >= v /\ store[n].fresh >= t + Ttl
RemembersNext(n, t, v) ==
  now' < t + Ttl => store'[n].version >= v /\ store'[n].fresh >= t + Ttl

\* Scripts only raise a version key that exists; only its own PX removes it.
LEMMA RemembersStays ==
  ASSUME Types, [Next]_vars, NEW n \in Node, NEW t \in Nat, NEW v \in Nat, t <= now,
         Remembers(n, t, v)
  PROVE  RemembersNext(n, t, v)
  <1> SUFFICES ASSUME now' < t + Ttl
               PROVE  store'[n].version >= v /\ store'[n].fresh >= t + Ttl
    BY DEF RemembersNext
  <1>0. /\ store[n] \in Entry /\ now \in Nat /\ Ttl \in Nat /\ now' \in Nat /\ now <= now'
        /\ store[n].version \in Nat /\ store[n].fresh \in Nat
    BY TimePasses, Constants DEF Types, StoreOK, Entry
  <1>1. store[n].version >= v /\ store[n].fresh >= t + Ttl
    BY <1>0 DEF Remembers
  <1>2. CASE store'[n] = store[n]
    BY <1>1, <1>2
  <1>3. CASE now' = now + 1 /\ store'[n] = Expired(store[n], now + 1)
    BY <1>0, <1>1, <1>3 DEF Expired
  <1>4. ASSUME NEW d \in Call, NEW expected \in Nat, WrittenBy(d, n, expected)
        PROVE  store'[n].version >= v /\ store'[n].fresh >= t + Ttl
    <2>1. store[n].version \in {0, expected}
      BY <1>4 DEF WrittenBy
    <2>2. expected + 1 >= v /\ now + Ttl >= t + Ttl
      BY <1>0, <1>1, <2>1
    <2>3. store'[n].version = expected + 1 /\ store'[n].fresh = now + Ttl
      BY <1>4 DEF WrittenBy, Written
    <2> QED
      BY <2>2, <2>3
  <1>5. ASSUME NEW d \in Call, TakenBy(d, n) \/ DroppedBy(d, n)
        PROVE  store'[n].version >= v /\ store'[n].fresh >= t + Ttl
    <2>1. store'[n].version = store[n].version /\ store'[n].fresh = store[n].fresh
      BY <1>5 DEF TakenBy, DroppedBy
    <2> QED
      BY <1>1, <2>1
  <1> QED
    BY <1>2, <1>3, <1>4, <1>5, NodeCases

\* The node's vote counts for a version.
Versioned(c, n) == vote[c][n] = "for" /\ pc[c] \in {"trying", "updating"}

\* Of two calls one does nothing.
LEMMA OneActs ==
  ASSUME Types, [Next]_vars, NEW c \in Call, NEW d \in Call, c # d
  PROVE  Same(c) \/ Same(d)
  BY ActCases, OthersSame, TickSame

\* A vote for a version was there, or its script wrote the version in this step.
LEMMA VersionedCases ==
  ASSUME Types, Commands, [Next]_vars, NEW c \in Call, NEW n \in Node, Versioned(c, n)'
  PROVE  /\ RoundGoesOn(c) /\ Gains(c)' = Gains(c) /\ pc[c] \in {"trying", "updating"}
         /\ \/ Versioned(c, n)
            \/ /\ ~Same(c) /\ now' = now
               /\ store[n].version \in {0, Gains(c) - 1} /\ store'[n] = Written(Own(c), Gains(c))
  <1>1. vote'[c][n] = "for" /\ pc'[c] \in {"trying", "updating"} /\ pc'[c] \in Granting
    BY DEF Versioned, Granting
  <1>2. RoundGoesOn(c) /\ (vote[c][n] = "for" \/ VotesNow(c, n))
    BY <1>1, VoteCases DEF VotesNow
  <1>3. Gains(c)' = Gains(c) /\ pc[c] \in {"trying", "updating"}
    BY <1>1, <1>2, GainsSame DEF RoundGoesOn
  <1>4. CASE vote[c][n] = "for"
    BY <1>2, <1>3, <1>4 DEF Versioned
  <1>5. CASE VotesNow(c, n) /\ vote[c][n] # "for"
    <2>1. ~Same(c)
      BY <1>1, <1>5 DEF Same
    <2>2. /\ now' = now /\ WrittenBy(c, n, Gains(c) - 1)
          /\ store'[n] = Written(Own(c), Gains(c))
      BY <1>3, <1>5 DEF VotesNow
    <2> QED
      BY <1>2, <1>3, <2>1, <2>2 DEF WrittenBy
  <1> QED
    BY <1>2, <1>4, <1>5

\* A node whose vote counts for a version has it until the ttl after the round began.
VotesRemembered ==
  \A c \in Call : \A n \in Node : Versioned(c, n) => Remembers(n, start[c], Gains(c))

\* Every step keeps the voters' memory.
LEMMA VotesRememberedStep ==
  ASSUME Types, Commands, Timely, VotesRemembered, [Next]_vars
  PROVE  VotesRemembered'
  <1> SUFFICES ASSUME NEW c \in Call, NEW n \in Node, Versioned(c, n)'
               PROVE  Remembers(n, start[c], Gains(c))'
    BY DEF VotesRemembered
  <1>0. start[c] \in Nat /\ now \in Nat /\ Ttl \in Nat /\ start[c] <= now /\ Gains(c) \in Nat
    BY Constants, GainsType DEF Types, CallsOK, Timely
  <1>1. start'[c] = start[c] /\ Gains(c)' = Gains(c)
    BY VersionedCases DEF RoundGoesOn
  <1>2. SUFFICES RemembersNext(n, start[c], Gains(c))
    BY <1>1 DEF Remembers, RemembersNext
  <1>3. CASE Versioned(c, n)
    <2>1. Remembers(n, start[c], Gains(c))
      BY <1>3 DEF VotesRemembered
    <2> QED
      BY <1>0, <2>1, RemembersStays
  <1>4. CASE store'[n] = Written(Own(c), Gains(c))
    <2>1. store'[n].version = Gains(c) /\ store'[n].fresh = now + Ttl
      BY <1>4 DEF Written
    <2> QED
      BY <1>0, <2>1 DEF RemembersNext
  <1> QED
    BY <1>3, <1>4, VersionedCases

\* A node that remembers a version does not grant it anew.
LEMMA NotTwice ==
  ASSUME Types, NEW n \in Node, NEW t \in Nat, NEW v \in Nat, v > 0,
         Remembers(n, t, v), store[n].version \in {0, v - 1}
  PROVE  now >= t + Ttl
  <1>1. now \in Nat /\ Ttl \in Nat /\ store[n].version \in Nat
    BY Constants DEF Types, StoreOK, Entry
  <1>2. ~(store[n].version >= v)
    BY <1>1
  <1> QED
    BY <1>1, <1>2 DEF Remembers

\* One node votes for one version twice only when the ttl of one of the rounds is over.
VotesDistinct ==
  \A c, d \in Call : \A n \in Node :
    Versioned(c, n) /\ Versioned(d, n) /\ Gains(c) = Gains(d) /\ c # d =>
      now >= start[c] + Ttl \/ now >= start[d] + Ttl

\* Every step keeps the votes of one node for one version apart.
LEMMA VotesDistinctStep ==
  ASSUME Types, Commands, Timely, VotesRemembered, VotesDistinct, [Next]_vars
  PROVE  VotesDistinct'
  <1> SUFFICES ASSUME NEW c \in Call, NEW d \in Call, NEW n \in Node, Versioned(c, n)',
                      Versioned(d, n)', Gains(c)' = Gains(d)', c # d
               PROVE  now' >= start'[c] + Ttl \/ now' >= start'[d] + Ttl
    BY DEF VotesDistinct
  <1>0. /\ start[c] \in Nat /\ start[d] \in Nat /\ now \in Nat /\ now' \in Nat /\ now <= now'
        /\ Ttl \in Nat
    <2>1. start[c] \in Nat /\ start[d] \in Nat /\ now \in Nat
      BY DEF Types, CallsOK
    <2> QED
      BY <2>1, Constants, TimePasses
  <1>1. /\ start'[c] = start[c] /\ start'[d] = start[d] /\ Gains(c) = Gains(d)
        /\ pc[c] \in {"trying", "updating"} /\ pc[d] \in {"trying", "updating"}
    BY VersionedCases DEF RoundGoesOn
  <1>2. Gains(c) \in Nat /\ Gains(c) > 0
    BY <1>1, GainsType
  <1>3. CASE Versioned(c, n) /\ Versioned(d, n)
    <2>1. now >= start[c] + Ttl \/ now >= start[d] + Ttl
      BY <1>1, <1>3 DEF VotesDistinct
    <2> QED
      BY <1>0, <1>1, <2>1
  <1>4. CASE Versioned(d, n) /\ store[n].version \in {0, Gains(c) - 1}
    <2>1. Remembers(n, start[d], Gains(c))
      BY <1>1, <1>4 DEF VotesRemembered
    <2>2. now >= start[d] + Ttl
      BY <1>0, <1>2, <1>4, <2>1, NotTwice
    <2> QED
      BY <1>0, <1>1, <2>2
  <1>5. CASE Versioned(c, n) /\ store[n].version \in {0, Gains(c) - 1}
    <2>1. Remembers(n, start[c], Gains(c))
      BY <1>5 DEF VotesRemembered
    <2>2. now >= start[c] + Ttl
      BY <1>0, <1>2, <1>5, <2>1, NotTwice
    <2> QED
      BY <1>0, <1>1, <2>2
  <1> QED
    <2>1. Versioned(c, n) \/ (~Same(c) /\ store[n].version \in {0, Gains(c) - 1})
      BY VersionedCases
    <2>2. Versioned(d, n) \/ (~Same(d) /\ store[n].version \in {0, Gains(d) - 1})
      BY VersionedCases
    <2>3. Same(c) \/ Same(d)
      BY OneActs
    <2> QED
      BY <1>1, <1>3, <1>4, <1>5, <2>1, <2>2, <2>3


(***************************************************************************)
(* Grants.                                                                 *)
(***************************************************************************)
Grant == [call : Call, to : Nat \ {0}, start : Nat, end : Nat]

\* The node remembers what it granted, and whoever it votes for to get the same version
\* comes after the ttl of one of the two rounds.
Settled(g, n) ==
  /\ Remembers(n, g.start, g.to)
  /\ \A d \in Call : Versioned(d, n) /\ Gains(d) = g.to /\ d # g.call =>
       now >= g.start + Ttl \/ g.end >= start[d] + Ttl

GrantsRemembered ==
  \A g \in grants :
    /\ g \in Grant /\ g.start <= now
    /\ \E Q \in SUBSET Node : IsQuorum(Q) /\ \A n \in Q : Settled(g, n)

\* What a node settled stays settled.
LEMMA SettledStays ==
  ASSUME Types, Commands, [Next]_vars, NEW g \in Grant, NEW n \in Node, g.start <= now,
         Settled(g, n)
  PROVE  Settled(g, n)'
  <1>0. /\ g.start \in Nat /\ g.to \in Nat /\ g.to > 0 /\ g.end \in Nat
        /\ now \in Nat /\ now' \in Nat /\ now <= now' /\ Ttl \in Nat
    BY Constants, TimePasses DEF Types, Grant
  <1>1. Remembers(n, g.start, g.to)
    BY DEF Settled
  <1>2. Remembers(n, g.start, g.to)'
    <2>1. RemembersNext(n, g.start, g.to)
      BY <1>0, <1>1, RemembersStays
    <2> QED
      BY <2>1 DEF RemembersNext, Remembers
  <1>3. ASSUME NEW d \in Call, Versioned(d, n)', Gains(d)' = g.to, d # g.call
        PROVE  now' >= g.start + Ttl \/ g.end >= start'[d] + Ttl
    <2>1. /\ start'[d] = start[d] /\ Gains(d) = g.to
          /\ Versioned(d, n) \/ store[n].version \in {0, Gains(d) - 1}
      BY <1>3, VersionedCases DEF RoundGoesOn
    <2>2. CASE Versioned(d, n)
      <3>1. now >= g.start + Ttl \/ g.end >= start[d] + Ttl
        BY <1>3, <2>1, <2>2 DEF Settled
      <3> QED
        BY <1>0, <2>1, <3>1
    <2>3. CASE store[n].version \in {0, Gains(d) - 1}
      <3>1. now >= g.start + Ttl
        BY <1>0, <1>1, <2>1, <2>3, NotTwice
      <3> QED
        BY <1>0, <3>1
    <2> QED
      BY <2>1, <2>2, <2>3
  <1> QED
    BY <1>2, <1>3 DEF Settled

\* A quorum that votes for a version grants it: the only way that grants grow.
Grants(c) ==
  /\ Ends(c) /\ Quorum(vote[c]) /\ pc[c] \in {"trying", "updating"} /\ pc'[c] = "held"
  /\ store' = store /\ now' = now
  /\ grants' = grants \union {[call |-> c, to |-> Gains(c), start |-> start[c], end |-> now]}

\* Versions are granted by quorums only.
LEMMA GrantCases ==
  ASSUME Types, [Next]_vars
  PROVE  grants' = grants \/ \E c \in Call : Grants(c)
  <1>1. ASSUME NEW c \in Call, Starts(c)
        PROVE  grants' = grants
    BY <1>1, StartEffect
  <1>2. ASSUME NEW c \in Call, NEW n \in Node, Runs(c, n) \/ Timeout(c, n)
        PROVE  grants' = grants
    BY <1>2, RunEffect DEF Unchanged, Timeout
  <1>3. ASSUME NEW c \in Call, Ends(c)
        PROVE  grants' = grants \/ Grants(c)
    <2>1. store' = store /\ now' = now /\ (Wins(c) \/ Loses(c))
      BY <1>3, EndEffect
    <2>2. ASSUME Wins(c), pc[c] \in {"trying", "updating"}, Granted(c, Gains(c) - 1)
          PROVE  Grants(c)
      <3>1. Gains(c) - 1 + 1 = Gains(c)
        BY GainsType
      <3>2. grants' = grants \union {[call |-> c, to |-> Gains(c), start |-> start[c], end |-> now]}
        BY <2>2, <3>1 DEF Granted
      <3>3. pc'[c] = "held" /\ Quorum(vote[c])
        BY <2>2 DEF Wins, Goes, Types, CallsOK
      <3> QED
        BY <1>3, <2>1, <2>2, <3>2, <3>3 DEF Grants
    <2> QED
      BY <2>1, <2>2 DEF Wins, Loses
  <1> QED
    BY <1>1, <1>2, <1>3, StepCases, TickSame

\* The nodes that voted for it settle a new grant.
LEMMA NewGrant ==
  ASSUME Types, Commands, Timely, VotesRemembered, VotesDistinct, [Next]_vars,
         NEW c \in Call, Grants(c), NEW g,
         g = [call |-> c, to |-> Gains(c), start |-> start[c], end |-> now]
  PROVE  /\ g \in Grant /\ g.start <= now
         /\ IsQuorum(With(vote[c], "for"))
         /\ \A n \in With(vote[c], "for") : Versioned(c, n) /\ Settled(g, n)
  <1>0. /\ start[c] \in Nat /\ start[c] <= now /\ now \in Nat
        /\ pc[c] \in {"trying", "updating"} /\ Quorum(vote[c])
    BY DEF Types, CallsOK, Timely, Grants
  <1>1. Gains(c) \in Nat \ {0}
    BY <1>0, GainsType
  <1>2. g \in Grant /\ g.start <= now /\ g.call = c /\ g.to = Gains(c) /\ g.start = start[c]
        /\ g.end = now
    BY <1>0, <1>1 DEF Grant
  <1>3. IsQuorum(With(vote[c], "for"))
    BY <1>0 DEF Quorum, With, IsQuorum
  <1>4. ASSUME NEW n \in With(vote[c], "for")
        PROVE  Versioned(c, n) /\ Settled(g, n)
    <2>1. n \in Node /\ Versioned(c, n)
      BY <1>0 DEF With, Versioned
    <2>2. Remembers(n, g.start, g.to)
      BY <1>2, <2>1 DEF VotesRemembered
    <2>3. ASSUME NEW d \in Call, Versioned(d, n), Gains(d) = g.to, d # g.call
          PROVE  now >= g.start + Ttl \/ g.end >= start[d] + Ttl
      BY <1>2, <2>1, <2>3 DEF VotesDistinct
    <2> QED
      BY <2>1, <2>2, <2>3 DEF Settled
  <1> QED
    BY <1>2, <1>3, <1>4

\* Every step keeps a settled quorum behind every grant.
LEMMA GrantsRememberedStep ==
  ASSUME Types, Commands, Timely, VotesRemembered, VotesDistinct, GrantsRemembered, [Next]_vars
  PROVE  GrantsRemembered'
  <1>0. now \in Nat /\ now' \in Nat /\ now <= now'
    BY TimePasses DEF Types
  <1>1. ASSUME NEW g \in Grant, g.start <= now, NEW Q, IsQuorum(Q), \A n \in Q : Settled(g, n)
        PROVE  /\ g.start <= now'
               /\ \E R \in SUBSET Node : IsQuorum(R) /\ \A n \in R : Settled(g, n)'
    <2>1. g.start \in Nat /\ Q \in SUBSET Node
      BY <1>1 DEF Grant, IsQuorum
    <2>2. \A n \in Q : Settled(g, n)'
      BY <1>1, <2>1, SettledStays
    <2>3. g.start <= now'
      BY <1>0, <1>1, <2>1
    <2> QED
      BY <1>1, <2>1, <2>2, <2>3
  <1>2. ASSUME NEW g \in grants'
        PROVE  /\ g \in Grant /\ g.start <= now
               /\ \E Q \in SUBSET Node : IsQuorum(Q) /\ \A n \in Q : Settled(g, n)
    <2>1. CASE g \in grants
      BY <2>1 DEF GrantsRemembered
    <2>2. CASE g \notin grants
      <3>1. PICK c \in Call : Grants(c)
        BY <1>2, <2>2, GrantCases
      <3>2. g = [call |-> c, to |-> Gains(c), start |-> start[c], end |-> now]
        BY <1>2, <2>2, <3>1 DEF Grants
      <3>3. /\ g \in Grant /\ g.start <= now /\ IsQuorum(With(vote[c], "for"))
            /\ \A n \in With(vote[c], "for") : Settled(g, n)
        BY <3>1, <3>2, NewGrant
      <3> QED
        BY <3>3 DEF IsQuorum
    <2> QED
      BY <2>1, <2>2
  <1>3. ASSUME NEW g \in grants'
        PROVE  /\ g \in Grant /\ g.start <= now'
               /\ \E Q \in SUBSET Node : IsQuorum(Q) /\ \A n \in Q : Settled(g, n)'
    <2>1. g \in Grant /\ g.start <= now
      BY <1>2
    <2>2. PICK Q \in SUBSET Node : IsQuorum(Q) /\ \A n \in Q : Settled(g, n)
      BY <1>2
    <2> QED
      BY <1>1, <2>1, <2>2
  <1> QED
    BY <1>3 DEF GrantsRemembered, IsQuorum

(***************************************************************************)
(* The inductive invariant of the versions.                                *)
(***************************************************************************)
VersionInv ==
  /\ Commands /\ Timely
  /\ VotesRemembered /\ VotesDistinct /\ GrantsRemembered
  /\ VersionGrantedOnce

\* A grant of the same version to another call before: the two quorums share a node.
LEMMA GrantedOnceStep ==
  ASSUME Types, VersionInv, [Next]_vars
  PROVE  VersionGrantedOnce'
  <1>1. ASSUME NEW g \in grants, NEW c \in Call, Grants(c), NEW h,
               h = [call |-> c, to |-> Gains(c), start |-> start[c], end |-> now],
               g.call # h.call, g.to = h.to
        PROVE  g.end >= h.start + Ttl \/ h.end >= g.start + Ttl
    <2>1. PICK Q \in SUBSET Node : IsQuorum(Q) /\ \A n \in Q : Settled(g, n)
      BY DEF VersionInv, GrantsRemembered
    <2>2. /\ IsQuorum(With(vote[c], "for"))
          /\ \A n \in With(vote[c], "for") : Versioned(c, n)
      BY <1>1, NewGrant DEF VersionInv
    <2>3. PICK n \in Node : n \in Q /\ n \in With(vote[c], "for")
      BY <2>1, <2>2, QuorumsMeet
    <2>4. Settled(g, n) /\ Versioned(c, n)
      BY <2>1, <2>2, <2>3
    <2>5. Gains(c) = g.to /\ c # g.call /\ h.start = start[c] /\ h.end = now
      BY <1>1
    <2> QED
      BY <2>4, <2>5 DEF Settled
  <1>2. ASSUME NEW g \in grants', NEW h \in grants', g.call # h.call, g.to = h.to
        PROVE  g.end >= h.start + Ttl \/ h.end >= g.start + Ttl
    <2>1. CASE g \in grants /\ h \in grants
      BY <1>2, <2>1 DEF VersionInv, VersionGrantedOnce
    <2>2. CASE ~(g \in grants /\ h \in grants)
      <3>1. PICK c \in Call : Grants(c)
        BY <1>2, <2>2, GrantCases
      <3> DEFINE new == [call |-> c, to |-> Gains(c), start |-> start[c], end |-> now]
      <3>2. (g \in grants \/ g = new) /\ (h \in grants \/ h = new)
        BY <1>2, <3>1 DEF Grants
      <3>3. CASE g \in grants /\ h = new
        BY <1>1, <1>2, <3>1, <3>3
      <3>4. CASE h \in grants /\ g = new
        BY <1>1, <1>2, <3>1, <3>4
      <3> QED
        BY <1>2, <2>2, <3>2, <3>3, <3>4
    <2> QED
      BY <2>1, <2>2
  <1> QED
    BY <1>2 DEF VersionGrantedOnce

\* The invariant holds at first.
LEMMA VersionInit == Init => VersionInv
  <1> SUFFICES ASSUME Init
               PROVE  VersionInv
    OBVIOUS
  <1>1. Commands /\ Timely
    BY HoldInit DEF HoldInv
  <1>2. grants = {} /\ \A c \in Call, n \in Node : ~Versioned(c, n)
    BY DEF Init, Versioned
  <1> QED
    BY <1>1, <1>2 DEF VersionInv, VotesRemembered, VotesDistinct, GrantsRemembered, VersionGrantedOnce

\* Every step keeps the invariant.
LEMMA VersionStep == Types /\ VersionInv /\ [Next]_vars => VersionInv'
  <1> SUFFICES ASSUME Types, VersionInv, [Next]_vars
               PROVE  VersionInv'
    OBVIOUS
  <1>1. Commands' /\ Timely'
    BY CommandsStep, TimelyStep DEF VersionInv
  <1>2. VotesRemembered' /\ VotesDistinct' /\ GrantsRemembered'
    BY VotesRememberedStep, VotesDistinctStep, GrantsRememberedStep DEF VersionInv
  <1> QED
    BY <1>1, <1>2, GrantedOnceStep DEF VersionInv

\* No version is granted to two calls unless the ttl ran out between, whatever the plans,
\* the timeouts and the locks of the pessimistic strategy on the same key.
THEOREM VersionsAreGrantedOnce == Spec => []VersionGrantedOnce
  <1>1. Types /\ VersionInv => VersionGrantedOnce
    BY DEF VersionInv
  <1> QED
    BY <1>1, TypesInit, TypesStep, VersionInit, VersionStep, PTL DEF Spec
=============================================================================
